---------------------------- MODULE StructLayout -----------------------------
(***************************************************************************)
(* The struct types of classes and the byte offsets of their elements.     *)
(*                                                                         *)
(* A class is a struct whose first element is the vtable pointer, or, of a *)
(* subclass, the whole struct of its super class; its instance fields      *)
(* follow.  LLVM places the elements; each StructElementLayoutSpecifier    *)
(* then keeps the offset of its own element, and code is generated from    *)
(* the specifiers alone: the accessor of a field adds its offset to        *)
(* whatever object it is given, of the class that declares the field or of *)
(* a subclass.                                                             *)
(*                                                                         *)
(* A class is laid out after its super class is complete, which is what    *)
(* SuperCompleteFirst of ClassPool says.                                   *)
(***************************************************************************)
EXTENDS Integers, Sequences

CONSTANTS
    ClassName,   \* names of classes
    FieldName,   \* a field's name with its descriptor
    None,        \* no class
    ClassPaths,  \* the class files a run may be given
    Type,        \* LLVM types of fields
    Pointer,     \* the type of references and of the vtable pointer
    SizeOf,      \* allocation size of a type
    AlignOf      \* ABI alignment of a type

\* What an element of a struct is for.
Element == FieldName \cup {"vtable", "super"}
Specifier == ClassName \X Element

Field == [name : FieldName, type : Type, static : BOOLEAN]
ClassFile == [super : ClassName \cup {None}, fields : Seq(Field)]

Alignment == {1, 2, 4, 8}

ASSUME NoneAssumption == None \notin ClassName
ASSUME ElementAssumption == {"vtable", "super"} \cap FieldName = {}
ASSUME TypeAssumption ==
    /\ Pointer \in Type
    /\ SizeOf \in [Type -> Nat \ {0}]
    /\ AlignOf \in [Type -> Alignment]

\* No class file has a field twice.
ASSUME ClassPathsAssumption ==
    /\ ClassPaths \subseteq [ClassName -> ClassFile]
    /\ \A fs \in ClassPaths : \A c \in ClassName :
         \A i, j \in DOMAIN fs[c].fields :
           fs[c].fields[i].name = fs[c].fields[j].name => i = j

VARIABLES
    files,       \* the class files
    cur,         \* class whose struct is being laid out, or None
    next,        \* its next field
    struct,      \* what LLVM knows of that struct
    laid,        \* classes whose struct has a body
    ancestors,   \* what is reachable through super_class_
    byteOffset,  \* StructElementLayoutSpecifier::byte_offset_
    body,        \* struct types down to their leaves, with absolute offsets
    size,        \* allocation size of a struct type
    alignment    \* ABI alignment of a struct type

layoutVars == <<files, cur, next, struct, laid, ancestors, byteOffset, body,
                size, alignment>>

Put(fun, k, v) ==
    [x \in DOMAIN fun \cup {k} |-> IF x = k THEN v ELSE fun[x]]

EmptyMap == [x \in {} |-> 0]

-----------------------------------------------------------------------------
(* LLVM's StructLayout                                                     *)

AlignTo(n, a) == IF n % a = 0 THEN n ELSE (n + a) - (n % a)

Larger(a, b) == IF a < b THEN b ELSE a

EmptyStruct == [at |-> EmptyMap, end |-> 0, align |-> 1]

\* Mutant of Add: setBody is told that the struct is packed.
AddPacked(s, e, bytes, align) ==
    [at |-> Put(s.at, e, s.end),
     end |-> s.end + bytes,
     align |-> Larger(s.align, align)]

\* An element goes to the first aligned place behind those before it.
Add(s, e, bytes, align) ==
    [at |-> Put(s.at, e, AlignTo(s.end, align)),
     end |-> AlignTo(s.end, align) + bytes,
     align |-> Larger(s.align, align)]

-----------------------------------------------------------------------------
(* Layout of a class                                                       *)

Init ==
    /\ files \in ClassPaths
    /\ cur = None
    /\ next = 1
    /\ struct = EmptyStruct
    /\ laid = {}
    /\ ancestors = [c \in ClassName |-> {}]
    /\ byteOffset = [s \in Specifier |-> -1]
    /\ body = [c \in ClassName |-> EmptyMap]
    /\ size = [c \in ClassName |-> 0]
    /\ alignment = [c \in ClassName |-> 1]

Super(c) == files[c].super
CurFields == files[cur].fields

\* The base class: its vtable is the first element.
LayOutBase(c) ==
    /\ cur = None
    /\ c \notin laid
    /\ Super(c) = None
    /\ cur' = c
    /\ next' = 1
    /\ struct' = Add(EmptyStruct, "vtable", SizeOf[Pointer], AlignOf[Pointer])
    /\ UNCHANGED <<files, laid, ancestors, byteOffset, body, size, alignment>>

\* Mutant of LayOutSub: the element of the super class is a pointer.
LayOutSubPointer(c) ==
    /\ cur = None
    /\ c \notin laid
    /\ Super(c) \in laid
    /\ cur' = c
    /\ next' = 1
    /\ struct' = Add(EmptyStruct, "super", SizeOf[Pointer], AlignOf[Pointer])
    /\ byteOffset' = [byteOffset EXCEPT ![<<c, "vtable">>] =
                                            byteOffset[<<Super(c), "vtable">>]]
    /\ ancestors' = [ancestors EXCEPT ![c] = {Super(c)} \cup ancestors[Super(c)]]
    /\ UNCHANGED <<files, laid, body, size, alignment>>

\* Mutant of LayOutSub: the vtable of a subclass has a layout of its own.
LayOutSubOwnVTable(c) ==
    /\ cur = None
    /\ c \notin laid
    /\ Super(c) \in laid
    /\ cur' = c
    /\ next' = 1
    /\ struct' = Add(EmptyStruct, "super", size[Super(c)], alignment[Super(c)])
    /\ ancestors' = [ancestors EXCEPT ![c] = {Super(c)} \cup ancestors[Super(c)]]
    /\ UNCHANGED <<files, laid, byteOffset, body, size, alignment>>

\* A subclass: the struct of the super class is the first element, and the
\* vtable is a copy, its layout included.
LayOutSub(c) ==
    /\ cur = None
    /\ c \notin laid
    /\ Super(c) \in laid
    /\ cur' = c
    /\ next' = 1
    /\ struct' = Add(EmptyStruct, "super", size[Super(c)], alignment[Super(c)])
    /\ byteOffset' = [byteOffset EXCEPT ![<<c, "vtable">>] =
                                            byteOffset[<<Super(c), "vtable">>]]
    /\ ancestors' = [ancestors EXCEPT ![c] = {Super(c)} \cup ancestors[Super(c)]]
    /\ UNCHANGED <<files, laid, body, size, alignment>>

\* An instance field is an element; its specifier has the type of the field.
PlaceField ==
    /\ cur # None
    /\ next \in DOMAIN CurFields
    /\ LET field == CurFields[next]
       IN /\ ~field.static
          /\ struct' = Add(struct, field.name, SizeOf[field.type],
                           AlignOf[field.type])
    /\ next' = next + 1
    /\ UNCHANGED <<files, cur, laid, ancestors, byteOffset, body, size,
                   alignment>>

\* Mutant of SkipStatic: private fields, say, are skipped as well.
SkipField ==
    /\ cur # None
    /\ next \in DOMAIN CurFields
    /\ next' = next + 1
    /\ UNCHANGED <<files, cur, struct, laid, ancestors, byteOffset, body, size,
                   alignment>>

\* The element_layout of a static field is null.
SkipStatic ==
    /\ cur # None
    /\ next \in DOMAIN CurFields
    /\ CurFields[next].static
    /\ next' = next + 1
    /\ UNCHANGED <<files, cur, struct, laid, ancestors, byteOffset, body, size,
                   alignment>>

\* The leaves of the struct of cur: those of its super class, moved to where
\* that struct is, and its own elements.
Inherited == IF "super" \in DOMAIN struct.at THEN body[Super(cur)] ELSE EmptyMap

OwnLeaves == {<<cur, e>> : e \in DOMAIN struct.at \ {"super"}}

Leaves ==
    [l \in OwnLeaves \cup DOMAIN Inherited |->
        IF l \in OwnLeaves THEN struct.at[l[2]]
        ELSE Inherited[l] + struct.at["super"]]

\* Mutant of Offsets: only the elements of fields are told their offsets.
FieldOffsets ==
    [s \in Specifier |->
        IF s[1] = cur /\ s[2] \in DOMAIN struct.at \cap FieldName
        THEN struct.at[s[2]] ELSE byteOffset[s]]

\* ComputeByteOffset of every element of the struct.
Offsets ==
    [s \in Specifier |-> IF s[1] = cur /\ s[2] \in DOMAIN struct.at
                         THEN struct.at[s[2]] ELSE byteOffset[s]]

\* Mutant of FinishLayout: size and alignment are taken for each other.
FinishLayoutSwapped ==
    /\ cur # None
    /\ next = Len(CurFields) + 1
    /\ byteOffset' = Offsets
    /\ body' = [body EXCEPT ![cur] = Leaves]
    /\ size' = [size EXCEPT ![cur] = struct.align]
    /\ alignment' = [alignment EXCEPT ![cur] =
                                        AlignTo(struct.end, struct.align)]
    /\ laid' = laid \cup {cur}
    /\ cur' = None
    /\ UNCHANGED <<files, next, struct, ancestors>>

FinishLayout ==
    /\ cur # None
    /\ next = Len(CurFields) + 1
    /\ byteOffset' = Offsets
    /\ body' = [body EXCEPT ![cur] = Leaves]
    /\ size' = [size EXCEPT ![cur] = AlignTo(struct.end, struct.align)]
    /\ alignment' = [alignment EXCEPT ![cur] = struct.align]
    /\ laid' = laid \cup {cur}
    /\ cur' = None
    /\ UNCHANGED <<files, next, struct, ancestors>>

LayoutNext ==
    \/ \E c \in ClassName : LayOutBase(c) \/ LayOutSub(c)
    \/ PlaceField
    \/ SkipStatic
    \/ FinishLayout

LayoutSpec == Init /\ [][LayoutNext]_layoutVars

-----------------------------------------------------------------------------
(* Properties                                                              *)

\* Every variable of the layout holds a value of its type.
LayoutTypeOK ==
    /\ files \in ClassPaths
    /\ cur \in ClassName \cup {None}
    /\ next \in Nat \ {0}
    /\ struct.end \in Nat
    /\ struct.align \in Alignment
    /\ DOMAIN struct.at \subseteq Element
    /\ \A e \in DOMAIN struct.at : struct.at[e] \in Nat
    /\ laid \subseteq ClassName
    /\ ancestors \in [ClassName -> SUBSET ClassName]
    /\ byteOffset \in [Specifier -> Nat \cup {-1}]
    /\ DOMAIN body = ClassName
    /\ \A c \in ClassName :
         /\ DOMAIN body[c] \subseteq Specifier
         /\ \A l \in DOMAIN body[c] : body[c][l] \in Nat
    /\ size \in [ClassName -> Nat]
    /\ alignment \in [ClassName -> Alignment]

LeafType(l) ==
    IF l[2] = "vtable" THEN Pointer
    ELSE LET fs == files[l[1]].fields
         IN fs[CHOOSE i \in DOMAIN fs : fs[i].name = l[2]].type
LeafSize(l) == SizeOf[LeafType(l)]

\* No two leaves of an object share a byte, inherited ones included, and none
\* reaches beyond what the instantiator allocates.
LeavesDisjoint ==
    \A c \in laid : \A l \in DOMAIN body[c] :
        /\ body[c][l] + LeafSize(l) <= size[c]
        /\ \A k \in DOMAIN body[c] \ {l} :
              \/ body[c][l] + LeafSize(l) <= body[c][k]
              \/ body[c][k] + LeafSize(k) <= body[c][l]

\* A leaf is aligned as the loads and stores of its type assume, in the class
\* that declares it and in every subclass.
LeavesAligned ==
    \A c \in laid : \A l \in DOMAIN body[c] :
        /\ body[c][l] % AlignOf[LeafType(l)] = 0
        /\ AlignOf[LeafType(l)] <= alignment[c]

\* The leaves of a class are the vtable pointer of its base class and the
\* instance fields that it and its ancestors declare.
Root(c) == CHOOSE b \in {c} \cup ancestors[c] : Super(b) = None

Declared(c) ==
    {<<c, f.name>> : f \in {files[c].fields[i] :
                              i \in {j \in DOMAIN files[c].fields :
                                       ~files[c].fields[j].static}}}

EveryFieldHasAPlace ==
    \A c \in laid :
        DOMAIN body[c] = {<<Root(c), "vtable">>}
                         \cup UNION {Declared(d) : d \in {c} \cup ancestors[c]}

\* An accessor compiled for the class that declares a field finds the field in
\* the objects of every subclass, and a thunk compiled for any of the classes
\* finds the vtable pointer, though each uses an offset of its own specifier
\* and adds it to the object as it is.
AccessorsReach ==
    \A c \in laid :
        /\ \A l \in DOMAIN body[c] : byteOffset[l] = body[c][l]
        /\ \A d \in {c} \cup ancestors[c] :
             byteOffset[<<d, "vtable">>] = body[c][<<Root(c), "vtable">>]
=============================================================================
