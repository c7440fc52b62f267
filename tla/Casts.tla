-------------------------------- MODULE Casts --------------------------------
(***************************************************************************)
(* ClassInfo::GetCastOffset and EmitUncheckedClassCastTo: what is added to *)
(* a reference of one class to make it a reference of another.  The walk   *)
(* goes up from the lower of the two classes and adds the offsets of the   *)
(* embedded super structs.                                                 *)
(***************************************************************************)
EXTENDS StructLayout

VARIABLES
    source, dest,   \* the classes of the cast
    at, goal,       \* current_class and dest of the loop, after the swap
    offset,         \* sum of the offsets so far
    verdict         \* "none", "walking", "done" or "unrelated"

castVars == <<source, dest, at, goal, offset, verdict>>
castState == <<layoutVars, castVars>>

CastInit ==
    /\ Init
    /\ source = None
    /\ dest = None
    /\ at = None
    /\ goal = None
    /\ offset = 0
    /\ verdict = "none"

\* ClassInfo::super_class_ of a class that is laid out.
SuperClass(c) == IF c \in laid THEN Super(c) ELSE None

\* ClassInfo::IsSubClassOf.
IsSubClassOf(c, d) == c \in laid /\ d \in ancestors[c]

Downcast == IsSubClassOf(dest, source)

LayOut == LayoutNext /\ verdict = "none" /\ UNCHANGED castVars

\* Mutant of StartCast: the walk starts at the source, whichever is lower.
StartCastUp(c, d) ==
    /\ verdict = "none"
    /\ cur = None
    /\ source' = c
    /\ dest' = d
    /\ at' = c
    /\ goal' = d
    /\ offset' = 0
    /\ verdict' = "walking"
    /\ UNCHANGED layoutVars

\* A cast is compiled in a body, when no layout is under way.
StartCast(c, d) ==
    /\ verdict = "none"
    /\ cur = None
    /\ source' = c
    /\ dest' = d
    /\ at' = IF IsSubClassOf(d, c) THEN d ELSE c
    /\ goal' = IF IsSubClassOf(d, c) THEN c ELSE d
    /\ offset' = 0
    /\ verdict' = "walking"
    /\ UNCHANGED layoutVars

\* Mutant of WalkUp: the offset of the class that is entered.
WalkUpLate ==
    /\ verdict = "walking"
    /\ at # goal
    /\ SuperClass(at) # None
    /\ offset' = offset + byteOffset[<<SuperClass(at), "super">>]
    /\ at' = SuperClass(at)
    /\ UNCHANGED <<layoutVars, source, dest, goal, verdict>>

\* Mutant of WalkUp: the class is not moved up.
WalkUpInPlace ==
    /\ verdict = "walking"
    /\ at # goal
    /\ SuperClass(at) # None
    /\ offset' = offset + byteOffset[<<at, "super">>]
    /\ UNCHANGED <<layoutVars, source, dest, at, goal, verdict>>

WalkUp ==
    /\ verdict = "walking"
    /\ at # goal
    /\ SuperClass(at) # None
    /\ offset' = offset + byteOffset[<<at, "super">>]
    /\ at' = SuperClass(at)
    /\ UNCHANGED <<layoutVars, source, dest, goal, verdict>>

\* nullopt: value() of EmitUncheckedClassCastTo throws.
WalkFails ==
    /\ verdict = "walking"
    /\ at # goal
    /\ SuperClass(at) = None
    /\ verdict' = "unrelated"
    /\ UNCHANGED <<layoutVars, source, dest, at, goal, offset>>

WalkEnds ==
    /\ verdict = "walking"
    /\ at = goal
    /\ offset' = IF Downcast THEN 0 - offset ELSE offset
    /\ verdict' = "done"
    /\ UNCHANGED <<layoutVars, source, dest, at, goal>>

Walk == WalkUp \/ WalkFails \/ WalkEnds

CastNext ==
    \/ LayOut
    \/ \E c, d \in ClassName : StartCast(c, d)
    \/ Walk

\* One thread: a walk that was started goes on.
CastSpec == CastInit /\ [][CastNext]_castState /\ WF_castState(Walk)

-----------------------------------------------------------------------------
(* Properties                                                              *)

\* A reference that was cast reaches the same leaves: what both classes have
\* lies, seen from the new pointer, where the new class has it.  The cast is
\* refused if and only if neither class is known to extend the other; a class
\* that waits for its super class extends nothing yet.
CastCorrect ==
    LET related == \/ source = dest
                   \/ IsSubClassOf(source, dest)
                   \/ IsSubClassOf(dest, source)
    IN /\ verdict = "unrelated" => ~related
       /\ verdict = "done" =>
             /\ related
             /\ \A l \in DOMAIN body[source] \cap DOMAIN body[dest] :
                   body[dest][l] + offset = body[source][l]

\* The walk ends, on every hierarchy that can be laid out.
CastEnds == verdict = "walking" ~> verdict # "walking"
=============================================================================
