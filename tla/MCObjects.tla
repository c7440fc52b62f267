------------------------------ MODULE MCObjects ------------------------------
(* Classes are laid out; then, on some of the class paths, a cast is         *)
(* compiled, which may be before every class is laid out, or the program     *)
(* runs.                                                                     *)
EXTENDS ObjectMemory, Casts, TLC

CONSTANTS A, B, C, D, x, y, z, byte, int, long, object, o1, o2, zero, v

Names == {A, B, C, D}
Types == {byte, int, long, object}

\* The default data layout of LLVM: 64 bit integers are aligned to 4 bytes.
MCSizeOf == byte :> 1 @@ int :> 4 @@ long :> 8 @@ object :> 8
MCAlignOf == byte :> 1 @@ int :> 4 @@ long :> 4 @@ object :> 8

Var(name, t) == [name |-> name, type |-> t, static |-> FALSE]
Static(name, t) == [Var(name, t) EXCEPT !.static = TRUE]
File(s, fs) == [super |-> s, fields |-> fs]

\* A class that is not on the class path is never laid out.
LOCAL Absent == File(D, <<>>)

-----------------------------------------------------------------------------
(* Layout: three classes, in a chain or as siblings.                         *)

LOCAL Pair(t, u) == <<Var(x, t), Static(z, long), Var(y, u)>>
LOCAL FieldLists ==
    {<<>>, <<Static(x, int)>>, <<Var(x, int)>>, <<Var(x, long)>>,
     Pair(int, object), Pair(long, int), Pair(int, byte)}

LOCAL Chain ==
    {A :> File(None, i) @@ B :> File(A, j) @@ C :> File(B, k) @@ D :> Absent :
        i \in FieldLists, j \in FieldLists, k \in FieldLists}
LOCAL Siblings ==
    {A :> File(None, i) @@ B :> File(A, j) @@ C :> File(A, k) @@ D :> Absent :
        i \in FieldLists, j \in FieldLists, k \in {<<>>, <<Var(y, object)>>}}

\* A and B extend each other.
LOCAL Circle ==
    {A :> File(B, <<>>) @@ B :> File(A, <<>>) @@ C :> File(None, <<>>)
     @@ D :> Absent}

-----------------------------------------------------------------------------
(* Casts: four classes, in a chain, with siblings, and in two trees.         *)

LOCAL Supers == {<<None, A, B, C>>, <<None, A, A, B>>, <<None, None, A, B>>}
LOCAL OneField == {<<>>, <<Var(x, int)>>}

CastPaths ==
    {A :> File(s[1], i) @@ B :> File(s[2], j) @@ C :> File(s[3], k)
     @@ D :> File(s[4], j) :
        s \in Supers, i \in OneField, j \in OneField, k \in OneField}

-----------------------------------------------------------------------------
(* Programs: a chain of two classes, two objects.                            *)

LOCAL One == <<Var(x, byte), Static(y, byte)>>
LOCAL Two == <<Var(x, byte), Var(y, int)>>

RunPaths ==
    {A :> File(None, p[1]) @@ B :> File(A, p[2]) @@ C :> Absent @@ D :> Absent :
        p \in {<<One, One>>, <<One, Two>>, <<Two, <<>>>>}}

MCClassPaths == Chain \cup Siblings \cup Circle \cup CastPaths \cup RunPaths

-----------------------------------------------------------------------------
MCInit == CastInit /\ MemoryInit

MCNext ==
    \/ LayOut /\ ~running /\ UNCHANGED memoryVars
    \/ files \in CastPaths /\ UNCHANGED memoryVars
         /\ ((\E c, d \in ClassName : StartCast(c, d)) \/ Walk)
    \/ files \in RunPaths /\ (Run \/ Operate) /\ UNCHANGED castVars

MCSpec ==
    /\ MCInit
    /\ [][MCNext]_<<layoutVars, castVars, memoryVars>>
    /\ WF_<<layoutVars, castVars, memoryVars>>(Walk /\ UNCHANGED memoryVars)
=============================================================================
