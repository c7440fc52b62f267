------------------------------ MODULE ClassPath ------------------------------
(***************************************************************************)
(* Where class files come from: CompositeClassPath asks its paths, one     *)
(* after the other, and each is a directory or a jar.  A jar is one handle *)
(* of the zip library that lives as long as the compiler and keeps, from   *)
(* one lookup to the next, which entry is open and the size of the last    *)
(* one that was.  Find ignores what opening an entry returns, so it asks   *)
(* for the size, and reads, whether there is an entry or not.              *)
(***************************************************************************)
EXTENDS Integers, Sequences

CONSTANTS
    Name,      \* class names
    Content,   \* class files, of which there are several for a name
    Missing,   \* no class file
    Damaged,   \* a jar's entry that cannot be read
    SizeOf,    \* the length of a class file
    Layouts    \* the class paths a run may be given: what each path has

Path == [kind : {"directory", "jar"},
         files : [Name -> Content \cup {Missing, Damaged}]]

ASSUME ContentAssumption ==
    /\ Missing \notin Content \cup {Damaged} \cup Name
    /\ Damaged \notin Content
    /\ SizeOf \in [Content \cup {Damaged} -> Nat]
ASSUME LayoutsAssumption ==
    /\ Layouts \subseteq Seq(Path)
    \* A jar that could not be opened is one that has nothing.
    /\ \A paths \in Layouts : \A i \in DOMAIN paths : \A n \in Name :
         paths[i].kind = "directory" => paths[i].files[n] # Damaged

VARIABLES
    paths,     \* the paths of the composite
    wanted,    \* the name that is looked up
    index,     \* the path that is asked
    pc,        \* the next statement of Find
    entry,     \* of each jar, the name of its open entry, or Missing
    known,     \* of each jar, the uncompressed size of the last entry
    buffer,    \* length of the buffer for the entry
    read,      \* what the last read left in the buffer
    answer     \* what Find returned: a class file, or Missing

vars == <<paths, wanted, index, pc, entry, known, buffer, read, answer>>

\* The null stream.
Nothing == Missing

\* What a path has under the name that is looked up.
File(i) == paths[i].files[wanted]

-----------------------------------------------------------------------------
Init ==
    /\ paths \in Layouts
    /\ wanted \in Name
    /\ index = 1
    /\ pc = "start"
    /\ entry = [i \in DOMAIN paths |-> Missing]
    /\ known = [i \in DOMAIN paths |-> 0]
    /\ buffer = 0
    /\ read = Nothing
    /\ answer = Nothing

\* A class is looked up when its name is first needed, and there are many.
Find(n) ==
    /\ pc \in {"start", "idle"}
    /\ wanted' = n
    /\ index' = 1
    /\ pc' = "next"
    /\ answer' = Nothing
    /\ UNCHANGED <<paths, entry, known, buffer, read>>

\* A stream is returned, and after a null pointer the next path is asked.
Answered(stream) ==
    IF stream # Nothing
    THEN answer' = stream /\ pc' = "idle" /\ UNCHANGED index
    ELSE index' = index + 1 /\ pc' = "next" /\ UNCHANGED answer

\* Every path was asked: the class is in none.
NotFound ==
    /\ pc = "next"
    /\ index \notin DOMAIN paths
    /\ pc' = "idle"
    /\ UNCHANGED <<paths, wanted, index, entry, known, buffer, read, answer>>

FindInDirectory ==
    /\ pc = "next"
    /\ index \in DOMAIN paths
    /\ paths[index].kind = "directory"
    /\ Answered(File(index))
    /\ UNCHANGED <<paths, wanted, entry, known, buffer, read>>

\* zip_entry_open, its result ignored: an entry that is not there is not open,
\* and the size that is known stays that of another entry.
OpenEntry ==
    /\ pc = "next"
    /\ index \in DOMAIN paths
    /\ paths[index].kind = "jar"
    /\ pc' = "size"
    /\ IF File(index) = Missing THEN UNCHANGED <<entry, known>>
       ELSE /\ entry' = [entry EXCEPT ![index] = wanted]
            /\ known' = [known EXCEPT ![index] = SizeOf[File(index)]]
    /\ UNCHANGED <<paths, wanted, index, buffer, read, answer>>

\* Mutant of MakeBuffer: one buffer for all lookups, which only grows.
GrowBuffer ==
    /\ pc = "size"
    /\ buffer' = IF buffer < known[index] THEN known[index] ELSE buffer
    /\ pc' = "read"
    /\ UNCHANGED <<paths, wanted, index, entry, known, read, answer>>

\* zip_entry_size, and the buffer.
MakeBuffer ==
    /\ pc = "size"
    /\ buffer' = known[index]
    /\ pc' = "read"
    /\ UNCHANGED <<paths, wanted, index, entry, known, read, answer>>

\* Whether zip_entry_noallocread succeeds: an entry is open, is not damaged and
\* fits into the buffer.
Readable ==
    /\ entry[index] # Missing
    /\ paths[index].files[entry[index]] # Damaged
    /\ SizeOf[paths[index].files[entry[index]]] <= buffer

ReadEntry ==
    /\ pc = "read"
    /\ read' = IF Readable THEN paths[index].files[entry[index]] ELSE Nothing
    /\ pc' = "close"
    /\ UNCHANGED <<paths, wanted, index, entry, known, buffer, answer>>

\* Mutant of CloseEntry: the entry is closed only when there is no stream.
CloseEntryOnFailure ==
    /\ pc = "close"
    /\ entry' = IF read = Nothing THEN [entry EXCEPT ![index] = Missing]
                                  ELSE entry
    /\ Answered(read)
    /\ UNCHANGED <<paths, wanted, known, buffer, read>>

\* zip_entry_close; the stream is returned.
CloseEntry ==
    /\ pc = "close"
    /\ entry' = [entry EXCEPT ![index] = Missing]
    /\ Answered(read)
    /\ UNCHANGED <<paths, wanted, known, buffer, read>>

Search == NotFound \/ FindInDirectory \/ OpenEntry \/ MakeBuffer \/ ReadEntry
          \/ CloseEntry

Next == (\E n \in Name : Find(n)) \/ Search

Spec == Init /\ [][Next]_vars

-----------------------------------------------------------------------------
(* Properties                                                              *)

\* A lookup finds the first class file of that name that can be read, and a
\* null pointer when there is none, whatever was looked up before: no entry of
\* an earlier lookup is returned, and a path that has nothing, or has a damaged
\* entry, ends no search.
FoundInOrder ==
    pc = "idle" =>
        \/ /\ answer = Missing
           /\ \A i \in DOMAIN paths : File(i) \notin Content
        \/ \E i \in DOMAIN paths :
             /\ answer = File(i)
             /\ File(i) \in Content
             /\ \A j \in DOMAIN paths : j < i => File(j) \notin Content

\* path.cc asserts that a read that succeeds fills the buffer, whose size was
\* asked for without knowing whether there is an entry.
BufferFits == pc = "close" /\ read # Nothing => buffer = SizeOf[read]

=============================================================================
