--------------------------- MODULE ClassPathProofs ---------------------------
(***************************************************************************)
(* Lookups find the first readable class file, for all class paths, names  *)
(* and orders of lookups.  The invariant says what the search knows at     *)
(* each of its statements: no entry of a jar stays open between lookups,   *)
(* the open one is that of the name that is looked up, and the size that   *)
(* was asked for is its own whenever there is one.                         *)
(***************************************************************************)
EXTENDS ClassPath, TLAPS

Stream == Content \cup {Missing}

PathTypeOK ==
    /\ paths \in Layouts
    /\ wanted \in Name
    /\ index \in Nat \ {0}
    /\ pc \in {"start", "idle", "next", "size", "read", "close"}
    /\ entry \in [DOMAIN paths -> Name \cup {Missing}]
    /\ known \in [DOMAIN paths -> Nat]
    /\ buffer \in Nat
    /\ read \in Stream
    /\ answer \in Stream

\* The paths before the one that is asked have nothing that can be read.
NothingBefore ==
    /\ index <= Len(paths) + 1
    /\ \A i \in DOMAIN paths : i < index => File(i) \notin Content

InJar == pc \in {"size", "read", "close"}

\* Only the jar that is asked has an open entry, and it is the one asked for.
EntryOpen ==
    /\ InJar => /\ index \in DOMAIN paths
                /\ entry[index] = IF File(index) = Missing THEN Missing
                                  ELSE wanted
    /\ \A i \in DOMAIN paths :
         (InJar /\ i = index) \/ entry[i] = Missing

\* What is known of the entry at each statement.
EntryKnown ==
    /\ pc = "size" /\ File(index) # Missing =>
          known[index] = SizeOf[File(index)]
    /\ pc = "read" /\ File(index) # Missing => buffer = SizeOf[File(index)]
    /\ pc = "close" =>
          /\ read = IF File(index) \in Content THEN File(index) ELSE Missing
          /\ read # Missing => buffer = SizeOf[read]

\* The answer is given where the search ended, and not before.
Returned ==
    \/ answer = Missing /\ (pc = "idle" => index = Len(paths) + 1)
    \/ /\ pc = "idle"
       /\ index \in DOMAIN paths
       /\ answer = File(index)
       /\ File(index) \in Content

SearchInv == PathTypeOK /\ NothingBefore /\ EntryOpen /\ EntryKnown /\ Returned

\* What a class path holds.
LEMMA PathFacts ==
    ASSUME PathTypeOK
    PROVE  /\ Len(paths) \in Nat
           /\ DOMAIN paths = 1..Len(paths)
           /\ \A i \in DOMAIN paths :
                /\ paths[i].kind \in {"directory", "jar"}
                /\ \A n \in Name : paths[i].files[n]
                                       \in Content \cup {Missing, Damaged}
                /\ File(i) \in Content \cup {Missing, Damaged}
                /\ paths[i].kind = "directory" => File(i) # Damaged
<1>1. paths \in Seq(Path)
  BY LayoutsAssumption DEF PathTypeOK
<1>2. Len(paths) \in Nat /\ DOMAIN paths = 1..Len(paths)
  BY <1>1
<1>3. ASSUME NEW i \in DOMAIN paths
      PROVE  /\ paths[i].kind \in {"directory", "jar"}
             /\ \A n \in Name : paths[i].files[n]
                                    \in Content \cup {Missing, Damaged}
  <2>1. paths[i] \in Path
    BY <1>1, <1>3
  <2> QED BY <2>1 DEF Path
<1>4. \A i \in DOMAIN paths : paths[i].kind = "directory" => File(i) # Damaged
  BY LayoutsAssumption DEF PathTypeOK, File
<1> QED BY <1>2, <1>3, <1>4 DEF PathTypeOK, File

\* The stream of a path is the class file that the path has, if it can be read:
\* the search then returns it, or goes on behind a path that has none.
LEMMA AnsweredKeeps ==
    ASSUME PathTypeOK, NothingBefore, Returned, pc # "idle",
           index \in DOMAIN paths,
           NEW stream,
           stream = IF File(index) \in Content THEN File(index) ELSE Missing,
           Answered(stream), paths' = paths, wanted' = wanted
    PROVE  /\ index' \in Nat \ {0}
           /\ pc' \in {"idle", "next"}
           /\ answer' \in Stream
           /\ NothingBefore'
           /\ Returned'
<1> USE DEF File
<1>1. Len(paths) \in Nat /\ DOMAIN paths = 1..Len(paths)
  BY PathFacts
<1>2. CASE stream # Nothing
  <2>1. File(index) \in Content /\ stream = File(index)
    BY <1>2 DEF Nothing
  <2>2. answer' = File(index) /\ pc' = "idle" /\ index' = index
    BY <1>2, <2>1 DEF Answered
  <2> QED BY <2>1, <2>2 DEF NothingBefore, Returned, PathTypeOK, Stream
<1>3. CASE stream = Nothing
  <2>1. File(index) \notin Content
    BY <1>3, ContentAssumption DEF Nothing
  <2>2. index' = index + 1 /\ pc' = "next" /\ answer' = answer
    BY <1>3 DEF Answered
  <2>3. \A i \in DOMAIN paths : i < index + 1 => i < index \/ i = index
    BY <1>1 DEF PathTypeOK
  <2>4. index + 1 <= Len(paths) + 1
    BY <1>1
  <2>5. NothingBefore'
    BY <2>1, <2>2, <2>3, <2>4 DEF NothingBefore
  <2> QED BY <2>2, <2>5 DEF Returned, PathTypeOK
<1> QED BY <1>2, <1>3

LEMMA SearchInit == Init => SearchInv
<1> SUFFICES ASSUME Init PROVE SearchInv
  OBVIOUS
<1>1. PathTypeOK
  BY DEF Init, PathTypeOK, Stream, Nothing
<1>2. Len(paths) \in Nat /\ DOMAIN paths = 1..Len(paths)
  BY <1>1, PathFacts
<1>3. NothingBefore
  BY <1>2 DEF Init, NothingBefore
<1> QED BY <1>1, <1>3 DEF Init, SearchInv, EntryOpen, EntryKnown, Returned,
           InJar, Nothing

LEMMA SearchStep == SearchInv /\ [Next]_vars => SearchInv'
<1> SUFFICES ASSUME SearchInv, [Next]_vars PROVE SearchInv'
  OBVIOUS
<1> USE DEF SearchInv
<1>0. /\ Len(paths) \in Nat
      /\ DOMAIN paths = 1..Len(paths)
      /\ \A i \in DOMAIN paths :
           /\ paths[i].kind \in {"directory", "jar"}
           /\ File(i) \in Content \cup {Missing, Damaged}
           /\ paths[i].kind = "directory" => File(i) # Damaged
  BY PathFacts
<1>1. ASSUME NEW n \in Name, Find(n)
      PROVE  SearchInv'
  BY <1>0, <1>1 DEF Find, PathTypeOK, NothingBefore, EntryOpen, EntryKnown,
                    Returned, InJar, Stream, Nothing
<1>2. CASE NotFound
  <2>1. index = Len(paths) + 1
    BY <1>0, <1>2 DEF NotFound, NothingBefore, PathTypeOK
  <2> QED BY <1>2, <2>1 DEF NotFound, PathTypeOK, NothingBefore, EntryOpen,
                        EntryKnown, Returned, InJar, File
<1>3. CASE FindInDirectory
  <2>1. File(index) = IF File(index) \in Content THEN File(index) ELSE Missing
    BY <1>0, <1>3 DEF FindInDirectory
  <2>2. /\ index' \in Nat \ {0}
        /\ pc' \in {"idle", "next"}
        /\ answer' \in Stream
        /\ NothingBefore'
        /\ Returned'
    BY <1>3, <2>1, AnsweredKeeps DEF FindInDirectory
  <2> QED BY <1>3, <2>2 DEF FindInDirectory, PathTypeOK, EntryOpen, EntryKnown,
                        InJar
<1>4. CASE OpenEntry
  <2>1. File(index) # Missing => SizeOf[File(index)] \in Nat
    BY <1>0, <1>4, ContentAssumption DEF OpenEntry
  <2>2. PathTypeOK'
    BY <1>4, <2>1 DEF OpenEntry, PathTypeOK
  <2>3. EntryOpen'
    BY <1>4 DEF OpenEntry, EntryOpen, InJar, PathTypeOK, File
  <2>4. EntryKnown'
    BY <1>4 DEF OpenEntry, EntryKnown, PathTypeOK, File
  <2> QED BY <1>4, <2>2, <2>3, <2>4 DEF OpenEntry, NothingBefore, Returned,
                                        File
<1>5. CASE MakeBuffer
  <2>1. PathTypeOK'
    BY <1>5 DEF MakeBuffer, PathTypeOK, EntryOpen, InJar
  <2> QED BY <1>5, <2>1 DEF MakeBuffer, NothingBefore, EntryOpen, EntryKnown,
                        Returned, InJar, File
<1>6. CASE ReadEntry
  <2>1. index \in DOMAIN paths /\ pc = "read"
    BY <1>6 DEF ReadEntry, EntryOpen, InJar
  <2>2. read' = IF File(index) \in Content THEN File(index) ELSE Missing
    <3>1. CASE File(index) = Missing
      BY <1>6, <2>1, <3>1, ContentAssumption
      DEF ReadEntry, EntryOpen, InJar, Readable, Nothing
    <3>2. CASE File(index) # Missing
      <4>1. entry[index] = wanted /\ wanted # Missing
        BY <2>1, <3>2, ContentAssumption DEF EntryOpen, InJar, PathTypeOK
      <4>2. SizeOf[File(index)] \in Nat /\ buffer = SizeOf[File(index)]
        BY <1>0, <2>1, <3>2, ContentAssumption DEF EntryKnown
      <4>3. Readable <=> File(index) # Damaged
        BY <4>1, <4>2 DEF Readable, File
      <4> QED BY <1>0, <1>6, <2>1, <3>2, <4>1, <4>3, ContentAssumption
              DEF ReadEntry, Nothing, File
    <3> QED BY <3>1, <3>2
  <2>3. read' # Missing => buffer = SizeOf[read']
    BY <2>1, <2>2, ContentAssumption DEF EntryKnown
  <2>4. PathTypeOK'
    BY <1>6, <2>2 DEF ReadEntry, PathTypeOK, Stream
  <2> QED BY <1>6, <2>1, <2>2, <2>3, <2>4
          DEF ReadEntry, NothingBefore, EntryOpen, EntryKnown, Returned, InJar,
              File
<1>7. CASE CloseEntry
  <2>1. index \in DOMAIN paths
    BY <1>7 DEF CloseEntry, EntryOpen, InJar
  <2>2. read = IF File(index) \in Content THEN File(index) ELSE Missing
    BY <1>7 DEF CloseEntry, EntryKnown
  <2>3. /\ index' \in Nat \ {0}
        /\ pc' \in {"idle", "next"}
        /\ answer' \in Stream
        /\ NothingBefore'
        /\ Returned'
    BY <1>7, <2>1, <2>2, AnsweredKeeps DEF CloseEntry
  <2>4. PathTypeOK'
    BY <1>7, <2>3 DEF CloseEntry, PathTypeOK
  <2>5. EntryOpen'
    BY <1>7, <2>3 DEF CloseEntry, EntryOpen, InJar, PathTypeOK
  <2> QED BY <2>3, <2>4, <2>5 DEF EntryKnown
<1>8. CASE UNCHANGED vars
  BY <1>8 DEF vars, PathTypeOK, NothingBefore, EntryOpen, EntryKnown, Returned,
              InJar, File
<1> QED BY <1>1, <1>2, <1>3, <1>4, <1>5, <1>6, <1>7, <1>8 DEF Next, Search

\* path.cc, CompositeClassPath::Find: a lookup finds the first class file of its
\* name that can be read, or nothing if there is none.
THEOREM FoundAlwaysInOrder == Spec => []FoundInOrder
<1>1. SearchInv => FoundInOrder
  <2> SUFFICES ASSUME SearchInv PROVE FoundInOrder
    OBVIOUS
  <2>1. Len(paths) \in Nat /\ DOMAIN paths = 1..Len(paths)
    BY PathFacts DEF SearchInv
  <2> QED BY <2>1 DEF SearchInv, PathTypeOK, NothingBefore, Returned,
                  FoundInOrder
<1> QED BY <1>1, SearchInit, SearchStep, PTL DEF Spec

\* path.cc, JarClassPath::Find: what was read fills the buffer, though its size
\* was asked for without a look at what opening the entry returned.
THEOREM BufferAlwaysFits == Spec => []BufferFits
<1>1. SearchInv => BufferFits
  BY DEF SearchInv, EntryKnown, BufferFits, Nothing
<1> QED BY <1>1, SearchInit, SearchStep, PTL DEF Spec
=============================================================================
