------------------------------- MODULE Objects -------------------------------
(***************************************************************************)
(* What objects promise to compiled code, without bytes: an object has a   *)
(* class, which never changes, and one value for each instance field that  *)
(* its class declares or inherits.  A new object has zero in all of them,  *)
(* and a field has the value it was given last, whatever happens to other  *)
(* fields and other objects.                                               *)
(***************************************************************************)
CONSTANTS Object, ClassName, FieldName, Value, Zero, None

VARIABLES
    fieldsOf,   \* the fields of each class that can be instantiated
    objects,    \* the objects: their class and the values of their fields
    loaded      \* what was read last

objectVars == <<fieldsOf, objects, loaded>>

NoObjects == [o \in {} |-> [class |-> None, values |-> {}]]

Init ==
    /\ fieldsOf = [c \in {} |-> {}]
    /\ objects = NoObjects
    /\ loaded = None

\* A class has its own fields and those of its super class.
Define(c, inherited, own) ==
    /\ c \notin DOMAIN fieldsOf
    /\ fieldsOf' = [d \in DOMAIN fieldsOf \cup {c} |->
                      IF d = c THEN inherited \cup ({c} \X own)
                      ELSE fieldsOf[d]]
    /\ UNCHANGED <<objects, loaded>>

New(o, c) ==
    /\ o \notin DOMAIN objects
    /\ c \in DOMAIN fieldsOf
    /\ objects' = [p \in DOMAIN objects \cup {o} |->
                     IF p = o
                     THEN [class |-> c, values |-> [l \in fieldsOf[c] |-> Zero]]
                     ELSE objects[p]]
    /\ UNCHANGED <<fieldsOf, loaded>>

Get(o, l) ==
    /\ o \in DOMAIN objects
    /\ l \in DOMAIN objects[o].values
    /\ loaded' = objects[o].values[l]
    /\ UNCHANGED <<fieldsOf, objects>>

Set(o, l, v) ==
    /\ o \in DOMAIN objects
    /\ l \in DOMAIN objects[o].values
    /\ objects' = [objects EXCEPT ![o].values[l] = v]
    /\ UNCHANGED <<fieldsOf, loaded>>

\* A virtual call selects by the class the object was made of.
Dispatch(o) ==
    /\ o \in DOMAIN objects
    /\ loaded' = objects[o].class
    /\ UNCHANGED <<fieldsOf, objects>>

Next ==
    \/ \E c \in ClassName \ DOMAIN fieldsOf : \E own \in SUBSET FieldName :
          \/ Define(c, {}, own)
          \/ \E s \in DOMAIN fieldsOf : Define(c, fieldsOf[s], own)
    \/ \E o \in Object :
          \/ \E c \in ClassName : New(o, c)
          \/ \E l \in ClassName \X FieldName :
               Get(o, l) \/ \E v \in Value : Set(o, l, v)
          \/ Dispatch(o)

Spec == Init /\ [][Next]_objectVars
=============================================================================
