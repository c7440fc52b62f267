--------------------------- MODULE VirtualDispatch ---------------------------
(***************************************************************************)
(* What the virtual tables are for, without slots, indices or frames: for  *)
(* each defined class, the class whose method a virtual call on an object  *)
(* of that class runs.  A class is defined in one step, after its super    *)
(* class; its own virtual methods replace the inherited ones and the rest  *)
(* is inherited.  ClassPool implements this specification.                 *)
(***************************************************************************)
EXTENDS Naturals, Sequences

CONSTANTS ClassName, NoArgCtor, None, ClassPaths

VARIABLES
    files,      \* the class path of this compilation
    selects     \* defined class -> method key -> class of the method run

Inherited(c) ==
    IF files[c].super = None THEN [k \in {} |-> c]
                             ELSE selects[files[c].super]

\* An instance method other than the default constructor enters virtual
\* dispatch when it overrides an inherited one or may be overridden itself.
Dispatched(c, m) ==
    /\ ~m.static
    /\ m.key # NoArgCtor
    /\ (~m.final /\ ~files[c].final) \/ m.key \in DOMAIN Inherited(c)

Own(c) == {files[c].methods[i].key :
              i \in {j \in DOMAIN files[c].methods :
                        Dispatched(c, files[c].methods[j])}}

Init ==
    /\ files \in ClassPaths
    /\ selects = [c \in {} |-> {}]

Define(c) ==
    /\ c \notin DOMAIN selects
    /\ files[c].super # None => files[c].super \in DOMAIN selects
    /\ selects' = [d \in DOMAIN selects \cup {c} |->
                     IF d # c THEN selects[d]
                     ELSE [k \in Own(c) \cup DOMAIN Inherited(c) |->
                             IF k \in Own(c) THEN c ELSE Inherited(c)[k]]]
    /\ UNCHANGED files

Next == \E c \in DOMAIN files : Define(c)

Spec == Init /\ [][Next]_<<files, selects>>
=============================================================================
