----------------------------- MODULE ObjectMemory -----------------------------
(***************************************************************************)
(* Objects in memory: what the instantiator allocates and clears, where it *)
(* stores the vtable pointer, and what the accessors of fields and the     *)
(* thunks of virtual methods load and store.  All of them address bytes    *)
(* relative to the object, with offsets that StructLayout computed.        *)
(***************************************************************************)
EXTENDS StructLayout

CONSTANTS Object, Value, Zero

ASSUME ValueAssumption ==
    /\ Zero \in Value
    /\ Value \cap ClassName = {}
    /\ None \notin Value

VARIABLES
    running,   \* the program is compiled and runs
    heap,      \* the memory of each object, and the class it was made of
    loaded,    \* the value that was loaded last
    overrun    \* some access was not inside the memory of its object

memoryVars == <<running, heap, loaded, overrun>>
memoryState == <<layoutVars, memoryVars>>

-----------------------------------------------------------------------------
(* Bytes                                                                   *)

\* Byte i of a value; a class stands for the address of its vtable.
Byte(v, i) == IF v = Zero THEN <<Zero, 0>> ELSE <<v, i>>

Bytes(p, type) == p..(p + SizeOf[type] - 1)

Inside(m, p, type) == Bytes(p, type) \subseteq DOMAIN m

Store(m, p, type, v) ==
    [i \in DOMAIN m |-> IF i \in Bytes(p, type) THEN Byte(v, i - p) ELSE m[i]]

Holds(m, p, type, v) ==
    \A i \in Bytes(p, type) : i \in DOMAIN m /\ m[i] = Byte(v, i - p)

\* Bytes that are not those of one value are no value.
Load(m, p, type) ==
    IF \E v \in Value \cup ClassName : Holds(m, p, type, v)
    THEN CHOOSE v \in Value \cup ClassName : Holds(m, p, type, v)
    ELSE None

-----------------------------------------------------------------------------
MemoryInit ==
    /\ Init
    /\ running = FALSE
    /\ heap = [o \in {} |-> [class |-> None, bytes |-> EmptyMap]]
    /\ loaded = None
    /\ overrun = FALSE

Compile == ~running /\ LayoutNext /\ UNCHANGED memoryVars

Run ==
    /\ ~running
    /\ cur = None
    /\ running' = TRUE
    /\ UNCHANGED <<layoutVars, heap, loaded, overrun>>

Cleared(n) == [i \in 0..(n - 1) |-> Byte(Zero, 0)]

\* Mutant of Instantiate: the memory is not cleared.
InstantiateDirty(o, c) ==
    /\ running
    /\ o \notin DOMAIN heap
    /\ c \in laid
    /\ LET p == byteOffset[<<c, "vtable">>]
           m == [i \in 0..(size[c] - 1) |-> <<None, 0>>]
       IN /\ heap' = Put(heap, o, [class |-> c, bytes |-> Store(m, p, Pointer, c)])
          /\ overrun' = (overrun \/ ~Inside(m, p, Pointer))
    /\ UNCHANGED <<layoutVars, running, loaded>>

\* malloc, memset and EmitStoreVTablePointer.
Instantiate(o, c) ==
    /\ running
    /\ o \notin DOMAIN heap
    /\ c \in laid
    /\ LET p == byteOffset[<<c, "vtable">>]
           m == Cleared(size[c])
       IN /\ heap' = Put(heap, o, [class |-> c, bytes |-> Store(m, p, Pointer, c)])
          /\ overrun' = (overrun \/ ~Inside(m, p, Pointer))
    /\ UNCHANGED <<layoutVars, running, loaded>>

\* Verified code names a field of the class of the object or of an ancestor.
Kind(o) == {heap[o].class} \cup ancestors[heap[o].class]
HasField(o, l) == l[1] \in Kind(o) /\ l \in Declared(l[1])

\* The body of a getter.
GetField(o, l) ==
    /\ running
    /\ o \in DOMAIN heap
    /\ HasField(o, l)
    /\ loaded' = Load(heap[o].bytes, byteOffset[l], LeafType(l))
    /\ overrun' = (overrun \/ ~Inside(heap[o].bytes, byteOffset[l], LeafType(l)))
    /\ UNCHANGED <<layoutVars, running, heap>>

\* Mutant of PutField: the setter stores a pointer, whatever the field's type.
PutPointer(o, l, v) ==
    /\ running
    /\ o \in DOMAIN heap
    /\ HasField(o, l)
    /\ heap' = [heap EXCEPT ![o].bytes = Store(@, byteOffset[l], Pointer, v)]
    /\ overrun' = (overrun \/ ~Inside(heap[o].bytes, byteOffset[l], Pointer))
    /\ UNCHANGED <<layoutVars, running, loaded>>

\* The body of a setter.
PutField(o, l, v) ==
    /\ running
    /\ o \in DOMAIN heap
    /\ HasField(o, l)
    /\ heap' = [heap EXCEPT ![o].bytes = Store(@, byteOffset[l], LeafType(l), v)]
    /\ overrun' = (overrun \/ ~Inside(heap[o].bytes, byteOffset[l], LeafType(l)))
    /\ UNCHANGED <<layoutVars, running, loaded>>

\* EmitVirtualLookup, in the thunk of class d, with an object of a subclass.
LookUpVTable(o, d) ==
    /\ running
    /\ o \in DOMAIN heap
    /\ d \in Kind(o)
    /\ loaded' = Load(heap[o].bytes, byteOffset[<<d, "vtable">>], Pointer)
    /\ overrun' = (overrun \/ ~Inside(heap[o].bytes,
                                     byteOffset[<<d, "vtable">>], Pointer))
    /\ UNCHANGED <<layoutVars, running, heap>>

Operate ==
    \E o \in Object :
        \/ \E c \in ClassName : Instantiate(o, c) \/ LookUpVTable(o, c)
        \/ \E l \in ClassName \X FieldName :
             GetField(o, l) \/ \E v \in Value : PutField(o, l, v)

MemoryNext == Compile \/ Run \/ Operate

MemorySpec == MemoryInit /\ [][MemoryNext]_memoryState

-----------------------------------------------------------------------------
(* Properties                                                              *)

\* Every access stays inside the object it is given.
NoOverrun == ~overrun

FieldsOf(c) == {l \in DOMAIN body[c] : l[2] # "vtable"}

AbstractObjects ==
    [o \in DOMAIN heap |->
        [class |-> heap[o].class,
         values |-> [l \in FieldsOf(heap[o].class) |->
                        Load(heap[o].bytes, byteOffset[l], LeafType(l))]]]

Abstract == INSTANCE Objects WITH
                fieldsOf <- [c \in laid |-> FieldsOf(c)],
                objects <- AbstractObjects

\* The bytes behave as objects with fields.
BehavesAsObjects == Abstract!Spec
=============================================================================
