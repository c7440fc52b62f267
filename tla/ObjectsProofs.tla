---------------------------- MODULE ObjectsProofs ----------------------------
(***************************************************************************)
(* Proofs about StructLayout, ObjectMemory and Casts, for all class files, *)
(* types, alignments, objects and values.                                  *)
(*                                                                         *)
(* The invariant of the layout has three layers: the struct under          *)
(* construction, the hierarchy of the classes laid out, and the leaves of  *)
(* each of them.  It is all that the accesses to objects need of the       *)
(* layout; casts also need that it changes nothing early.                  *)
(***************************************************************************)
EXTENDS ObjectMemory, Casts, TLAPS

-----------------------------------------------------------------------------
(* The layout                                                              *)

ElementSize(e) ==
    IF e = "super" THEN size[Super(cur)] ELSE LeafSize(<<cur, e>>)
ElementAlign(e) ==
    IF e = "super" THEN alignment[Super(cur)]
    ELSE AlignOf[LeafType(<<cur, e>>)]

\* The first element, and the fields that were placed.
First == IF Super(cur) = None THEN "vtable" ELSE "super"
Placed == {f \in FieldName : \E i \in DOMAIN CurFields :
             i < next /\ ~CurFields[i].static /\ CurFields[i].name = f}

\* The elements placed so far lie one behind the other.
ElementInv(e) ==
    /\ struct.at[e] + ElementSize(e) <= struct.end
    /\ struct.at[e] % ElementAlign(e) = 0
    /\ ElementAlign(e) <= struct.align

StructInv ==
    cur # None =>
        /\ cur \notin laid
        /\ Super(cur) \in laid \cup {None}
        /\ next \in 1..(Len(CurFields) + 1)
        /\ DOMAIN struct.at = {First} \cup Placed
        /\ struct.at[First] = 0
        /\ \A e \in DOMAIN struct.at : ElementInv(e)
        /\ \A d, e \in DOMAIN struct.at : d # e =>
              \/ struct.at[d] + ElementSize(d) <= struct.at[e]
              \/ struct.at[e] + ElementSize(e) <= struct.at[d]

\* A class that is laid out, or under way, is linked to its super class.
Linked(c) ==
    IF Super(c) = None THEN ancestors[c] = {}
    ELSE /\ Super(c) \in laid
         /\ ancestors[c] = {Super(c)} \cup ancestors[Super(c)]
         /\ byteOffset[<<c, "vtable">>] = byteOffset[<<Super(c), "vtable">>]

LineageInv ==
    /\ \A c \in laid \cup ({cur} \ {None}) : Linked(c)
    /\ \A c \in ClassName : ancestors[c] \subseteq laid
    /\ \A c \in ClassName \ (laid \cup {cur}) : ancestors[c] = {}
    /\ \A c \in laid : Super(c) # None => byteOffset[<<c, "super">>] = 0
    /\ \A c \in laid : c \notin ancestors[c]

IsRoot(c, b) == b \in {c} \cup ancestors[c] /\ Super(b) = None

RootInv ==
    \A c \in laid : /\ \E b \in ClassName : IsRoot(c, b)
                    /\ \A a, b \in ClassName :
                          IsRoot(c, a) /\ IsRoot(c, b) => a = b

\* The copies of the vtable pointer's offset are the one of the base class.
VTableInv ==
    \A c \in laid : \A b \in ClassName : IsRoot(c, b) =>
        \A d \in {c} \cup ancestors[c] :
            byteOffset[<<d, "vtable">>] = byteOffset[<<b, "vtable">>]

IsLeaf(c, l) ==
    \/ l[2] = "vtable" /\ IsRoot(c, l[1])
    \/ \E d \in {c} \cup ancestors[c] : l \in Declared(d)

\* What LeavesDisjoint, LeavesAligned and AccessorsReach say of one class.
LeafInv(c) ==
    /\ \A l \in Specifier : l \in DOMAIN body[c] <=> IsLeaf(c, l)
    /\ \A l \in DOMAIN body[c] :
         /\ body[c][l] + LeafSize(l) <= size[c]
         /\ body[c][l] % AlignOf[LeafType(l)] = 0
         /\ AlignOf[LeafType(l)] <= alignment[c]
         /\ byteOffset[l] = body[c][l]
    /\ \A k, l \in DOMAIN body[c] : k # l =>
         \/ body[c][l] + LeafSize(l) <= body[c][k]
         \/ body[c][k] + LeafSize(k) <= body[c][l]

BodyInv == \A c \in laid : LeafInv(c)

LayoutInv ==
    /\ LayoutTypeOK
    /\ StructInv
    /\ LineageInv
    /\ RootInv
    /\ VTableInv
    /\ BodyInv

-----------------------------------------------------------------------------
(* Operators                                                               *)

\* An element is not placed before the end, and it is placed aligned.
LEMMA AlignToFacts ==
    ASSUME NEW n \in Nat, NEW a \in Alignment
    PROVE  AlignTo(n, a) \in Nat /\ n <= AlignTo(n, a) /\ AlignTo(n, a) % a = 0
<1>1. CASE a = 1  BY <1>1 DEF AlignTo
<1>2. CASE a = 2  BY <1>2 DEF AlignTo
<1>3. CASE a = 4  BY <1>3 DEF AlignTo
<1>4. CASE a = 8  BY <1>4 DEF AlignTo
<1> QED BY <1>1, <1>2, <1>3, <1>4 DEF Alignment

\* The first element of a struct has offset 0.
LEMMA AlignToZero ==
    ASSUME NEW a \in Alignment
    PROVE  AlignTo(0, a) = 0 /\ 0 % a = 0
<1>1. CASE a = 1  BY <1>1 DEF AlignTo
<1>2. CASE a = 2  BY <1>2 DEF AlignTo
<1>3. CASE a = 4  BY <1>3 DEF AlignTo
<1>4. CASE a = 8  BY <1>4 DEF AlignTo
<1> QED BY <1>1, <1>2, <1>3, <1>4 DEF Alignment

\* What the class files say of a class.
LEMMA FileFacts ==
    ASSUME files \in ClassPaths, NEW c \in ClassName
    PROVE  /\ Super(c) \in ClassName \cup {None}
           /\ files[c].fields \in Seq(Field)
           /\ \A i, j \in DOMAIN files[c].fields :
                files[c].fields[i].name = files[c].fields[j].name => i = j
  BY ClassPathsAssumption DEF Super, ClassFile

\* The leaf of a field has the type of the field.
LEMMA FieldLeaf ==
    ASSUME files \in ClassPaths, NEW c \in ClassName,
           NEW i \in DOMAIN files[c].fields
    PROVE  /\ files[c].fields[i] \in Field
           /\ LeafType(<<c, files[c].fields[i].name>>) = files[c].fields[i].type
<1> DEFINE fs == files[c].fields
<1>1. fs \in Seq(Field) /\ fs[i] \in Field
  BY FileFacts
<1>2. fs[i].name \in FieldName /\ fs[i].name # "vtable"
  BY <1>1, ElementAssumption DEF Field
<1>3. \A j \in DOMAIN fs : fs[j].name = fs[i].name <=> j = i
  BY FileFacts
<1>4. (CHOOSE j \in DOMAIN fs : fs[j].name = fs[i].name) = i
  BY <1>3
<1> QED BY <1>1, <1>2, <1>4 DEF LeafType

\* Leaves have types of the program.
LEMMA LeafTyped ==
    ASSUME files \in ClassPaths, NEW c \in ClassName, NEW l,
           ancestors[c] \subseteq ClassName, IsLeaf(c, l)
    PROVE  /\ LeafType(l) \in Type
           /\ LeafSize(l) \in Nat \ {0}
           /\ AlignOf[LeafType(l)] \in Alignment
<1>1. CASE l[2] = "vtable"
  BY <1>1, TypeAssumption DEF LeafType, LeafSize
<1>2. CASE \E d \in {c} \cup ancestors[c] : l \in Declared(d)
  <2>1. PICK d \in ClassName : l \in Declared(d)
    BY <1>2
  <2>2. PICK i \in DOMAIN files[d].fields : l = <<d, files[d].fields[i].name>>
    BY <2>1 DEF Declared
  <2> QED BY <2>2, FieldLeaf, TypeAssumption DEF LeafSize, Field
<1> QED BY <1>1, <1>2 DEF IsLeaf

\* Types do not depend on the progress of the layout.
LEMMA LeafTypeStable ==
    ASSUME files' = files, NEW l
    PROVE  LeafType(l)' = LeafType(l) /\ LeafSize(l)' = LeafSize(l)
  BY DEF LeafType, LeafSize

-----------------------------------------------------------------------------
(* One element                                                             *)

StructTyped(s) ==
    /\ s.end \in Nat
    /\ s.align \in Alignment
    /\ DOMAIN s.at \subseteq Element
    /\ \A e \in DOMAIN s.at : s.at[e] \in Nat

\* An added element lies behind the others, which stay where they were.
LEMMA AddFacts ==
    ASSUME NEW s, StructTyped(s), NEW e \in Element,
           NEW bytes \in Nat, NEW align \in Alignment
    PROVE  LET t == Add(s, e, bytes, align)
           IN /\ StructTyped(t)
              /\ DOMAIN t.at = DOMAIN s.at \cup {e}
              /\ t.at[e] = AlignTo(s.end, align)
              /\ s.end <= t.at[e]
              /\ t.at[e] % align = 0
              /\ t.end = t.at[e] + bytes
              /\ s.align <= t.align /\ align <= t.align
              /\ \A d \in DOMAIN s.at \ {e} : t.at[d] = s.at[d]
<1> DEFINE t == Add(s, e, bytes, align)
           p == AlignTo(s.end, align)
<1>1. p \in Nat /\ s.end <= p /\ p % align = 0
  BY AlignToFacts DEF StructTyped
<1>2. t = [at |-> Put(s.at, e, p), end |-> p + bytes,
           align |-> Larger(s.align, align)]
  BY DEF Add
<1>3. Larger(s.align, align) \in Alignment /\ s.align <= Larger(s.align, align)
      /\ align <= Larger(s.align, align)
  BY DEF Larger, Alignment, StructTyped
<1> HIDE DEF p
<1>4. /\ DOMAIN t.at = DOMAIN s.at \cup {e} /\ t.at[e] = p
      /\ \A d \in DOMAIN s.at \ {e} : t.at[d] = s.at[d]
  BY <1>2 DEF Put
<1>5. StructTyped(t)
  BY <1>1, <1>2, <1>3, <1>4 DEF StructTyped
<1> QED BY <1>1, <1>2, <1>3, <1>4, <1>5 DEF p

\* The first element of a struct is at its start.
LEMMA FirstElement ==
    ASSUME NEW e \in Element, NEW bytes \in Nat, NEW align \in Alignment
    PROVE  LET t == Add(EmptyStruct, e, bytes, align)
           IN /\ StructTyped(t)
              /\ DOMAIN t.at = {e}
              /\ t.at[e] = 0
              /\ t.end = bytes
              /\ align <= t.align
<1>1. StructTyped(EmptyStruct) /\ EmptyStruct.end = 0
      /\ DOMAIN EmptyStruct.at = {}
  BY DEF StructTyped, EmptyStruct, EmptyMap, Alignment
<1> DEFINE t == Add(EmptyStruct, e, bytes, align)
<1>2. /\ StructTyped(t)
      /\ DOMAIN t.at = DOMAIN EmptyStruct.at \cup {e}
      /\ t.at[e] = AlignTo(EmptyStruct.end, align)
      /\ t.end = t.at[e] + bytes
      /\ align <= t.align
  BY <1>1, AddFacts
<1> HIDE DEF t
<1>3. DOMAIN t.at = {e} /\ t.at[e] = 0 /\ t.end = bytes
  BY <1>1, <1>2, AlignToZero
<1> QED BY <1>2, <1>3 DEF t

-----------------------------------------------------------------------------
(* Types                                                                   *)

\* A field that is placed, and its type.
LEMMA CurFieldFacts ==
    ASSUME files \in ClassPaths, cur \in ClassName,
           NEW i \in DOMAIN CurFields
    PROVE  /\ CurFields[i] \in Field
           /\ CurFields[i].name \in FieldName
           /\ CurFields[i].name \in Element \ {"vtable", "super"}
           /\ SizeOf[CurFields[i].type] \in Nat \ {0}
           /\ AlignOf[CurFields[i].type] \in Alignment
           /\ LeafType(<<cur, CurFields[i].name>>) = CurFields[i].type
<1>1. CurFields[i] \in Field
  BY FileFacts DEF CurFields
<1> QED BY <1>1, FieldLeaf, TypeAssumption, ElementAssumption
        DEF Field, CurFields, Element

LEMMA TypeInit == Init => LayoutTypeOK
  BY DEF Init, LayoutTypeOK, EmptyStruct, EmptyMap, Alignment

LEMMA TypeStep ==
    ASSUME LayoutInv, LayoutNext
    PROVE  LayoutTypeOK'
<1> USE DEF LayoutInv
<1>0. StructTyped(struct)
  BY DEF LayoutTypeOK, StructTyped
<1>1. ASSUME NEW c \in ClassName, LayOutBase(c)
      PROVE  LayoutTypeOK'
  <2>1. StructTyped(struct')
    BY <1>1, FirstElement, TypeAssumption DEF LayOutBase, Element
  <2> QED BY <1>1, <2>1 DEF LayOutBase, LayoutTypeOK, StructTyped
<1>2. ASSUME NEW c \in ClassName, LayOutSub(c)
      PROVE  LayoutTypeOK'
  <2>1. Super(c) \in ClassName /\ <<c, "vtable">> \in Specifier
        /\ <<Super(c), "vtable">> \in Specifier
    BY <1>2 DEF LayOutSub, LayoutTypeOK, Specifier, Element
  <2>2. StructTyped(struct')
    BY <1>2, <2>1, FirstElement DEF LayOutSub, Element, LayoutTypeOK
  <2>3. byteOffset' \in [Specifier -> Nat \cup {-1}]
        /\ ancestors' \in [ClassName -> SUBSET ClassName]
    BY <1>2, <2>1 DEF LayOutSub, LayoutTypeOK
  <2> QED BY <1>2, <2>2, <2>3 DEF LayOutSub, LayoutTypeOK, StructTyped
<1>3. CASE PlaceField
  <2>1. StructTyped(struct')
    BY <1>0, <1>3, AddFacts, CurFieldFacts DEF PlaceField, LayoutTypeOK
  <2> QED BY <1>3, <2>1 DEF PlaceField, LayoutTypeOK, StructTyped
<1>4. CASE SkipStatic
  BY <1>4 DEF SkipStatic, LayoutTypeOK
<1>5. CASE FinishLayout
  <2>1. cur \in ClassName /\ laid \subseteq ClassName
    BY <1>5 DEF FinishLayout, LayoutTypeOK
  <2>2. AlignTo(struct.end, struct.align) \in Nat
    BY <1>0, AlignToFacts DEF StructTyped
  <2>3. byteOffset' \in [Specifier -> Nat \cup {-1}]
    BY <1>5, <1>0 DEF FinishLayout, Offsets, LayoutTypeOK, StructTyped
  <2>4. DOMAIN Leaves \subseteq Specifier
        /\ \A l \in DOMAIN Leaves : Leaves[l] \in Nat
    <3>1. DOMAIN Inherited \subseteq Specifier
          /\ \A l \in DOMAIN Inherited : Inherited[l] \in Nat
      <4>1. CASE "super" \in DOMAIN struct.at
        <5>1. Super(cur) \in ClassName
          BY <4>1, <2>1, ElementAssumption, NoneAssumption
             DEF StructInv, First, LayoutTypeOK, Placed
        <5> QED BY <5>1, <4>1 DEF Inherited, LayoutTypeOK
      <4>2. CASE "super" \notin DOMAIN struct.at
        BY <4>2 DEF Inherited, EmptyMap
      <4> QED BY <4>1, <4>2
    <3>2. \A l \in OwnLeaves : l \in Specifier /\ struct.at[l[2]] \in Nat
      BY <2>1, <1>0 DEF OwnLeaves, Specifier, StructTyped
    <3>3. \A l \in DOMAIN Inherited : "super" \in DOMAIN struct.at
      BY DEF Inherited, EmptyMap
    <3> QED BY <3>1, <3>2, <3>3, <1>0 DEF Leaves, StructTyped
  <2>5. DOMAIN body' = ClassName
        /\ \A c \in ClassName :
             /\ DOMAIN body'[c] \subseteq Specifier
             /\ \A l \in DOMAIN body'[c] : body'[c][l] \in Nat
    <3>1. body' = [body EXCEPT ![cur] = Leaves]
      BY <1>5 DEF FinishLayout
    <3> QED BY <3>1, <2>1, <2>4 DEF LayoutTypeOK
  <2>6. size' \in [ClassName -> Nat] /\ alignment' \in [ClassName -> Alignment]
    BY <1>5, <2>2, <1>0 DEF FinishLayout, LayoutTypeOK, StructTyped
  <2> QED BY <1>5, <2>1, <2>3, <2>5, <2>6 DEF FinishLayout, LayoutTypeOK
<1> QED BY <1>1, <1>2, <1>3, <1>4, <1>5 DEF LayoutNext

-----------------------------------------------------------------------------
(* The struct under construction                                           *)

LEMMA ElementStable ==
    ASSUME files' = files, cur' = cur, size' = size, alignment' = alignment,
           NEW e
    PROVE  ElementSize(e)' = ElementSize(e) /\ ElementAlign(e)' = ElementAlign(e)
  BY LeafTypeStable DEF ElementSize, ElementAlign, Super

\* The elements before the next field, and no other, have been placed.
LEMMA NotYetPlaced ==
    ASSUME LayoutTypeOK, cur \in ClassName,
           DOMAIN struct.at = {First} \cup Placed,
           next \in DOMAIN CurFields
    PROVE  CurFields[next].name \notin DOMAIN struct.at
<1>1. CurFields[next].name \notin {"vtable", "super"}
  BY CurFieldFacts DEF LayoutTypeOK
<1>2. \A i \in DOMAIN CurFields : i < next => CurFields[i].name # CurFields[next].name
  BY FileFacts DEF LayoutTypeOK, CurFields
<1> QED BY <1>1, <1>2 DEF First, Placed

LEMMA StructStep ==
    ASSUME LayoutInv, LayoutNext
    PROVE  StructInv'
<1>0. LayoutTypeOK /\ StructInv /\ StructTyped(struct) /\ files \in ClassPaths
  BY DEF LayoutInv, LayoutTypeOK, StructTyped
<1>1. ASSUME NEW c \in ClassName, LayOutBase(c)
      PROVE  StructInv'
  <2>1. /\ cur' = c /\ next' = 1 /\ files' = files /\ laid' = laid
        /\ c \notin laid /\ Super(c) = None /\ c # None
        /\ struct' = Add(EmptyStruct, "vtable", SizeOf[Pointer],
                         AlignOf[Pointer])
    BY <1>1, NoneAssumption DEF LayOutBase
  <2>2. /\ DOMAIN struct'.at = {"vtable"} /\ struct'.at["vtable"] = 0
        /\ struct'.end = SizeOf[Pointer] /\ AlignOf[Pointer] <= struct'.align
    BY <2>1, FirstElement, TypeAssumption DEF Element
  <2>3. First' = "vtable" /\ Super(cur)' = None
    BY <2>1 DEF First, Super
  <2>4. Placed' = {} /\ next' \in 1..(Len(CurFields') + 1)
    <3>1. CurFields' \in Seq(Field)
      BY <1>0, <2>1, FileFacts DEF CurFields
    <3> QED BY <3>1, <2>1 DEF Placed
  <2>5. ElementSize("vtable")' = SizeOf[Pointer]
        /\ ElementAlign("vtable")' = AlignOf[Pointer]
    BY DEF ElementSize, ElementAlign, LeafSize, LeafType
  <2>6. ElementInv("vtable")'
    BY <2>2, <2>5, AlignToZero, TypeAssumption DEF ElementInv
  <2> QED BY <2>1, <2>2, <2>3, <2>4, <2>6 DEF StructInv
<1>2. ASSUME NEW c \in ClassName, LayOutSub(c)
      PROVE  StructInv'
  <2>1. /\ cur' = c /\ next' = 1 /\ files' = files /\ laid' = laid
        /\ size' = size /\ alignment' = alignment
        /\ c \notin laid /\ Super(c) \in laid /\ c # None
        /\ Super(c) \in ClassName /\ Super(c) # None
        /\ struct' = Add(EmptyStruct, "super", size[Super(c)],
                         alignment[Super(c)])
    BY <1>0, <1>2, NoneAssumption DEF LayOutSub, LayoutTypeOK
  <2>2. size[Super(c)] \in Nat /\ alignment[Super(c)] \in Alignment
    BY <1>0, <2>1 DEF LayoutTypeOK
  <2>3. /\ DOMAIN struct'.at = {"super"} /\ struct'.at["super"] = 0
        /\ struct'.end = size[Super(c)]
        /\ alignment[Super(c)] <= struct'.align
    BY <2>1, <2>2, FirstElement DEF Element
  <2>4. First' = "super" /\ Super(cur)' = Super(c)
    BY <2>1 DEF First, Super
  <2>5. Placed' = {} /\ next' \in 1..(Len(CurFields') + 1)
    <3>1. CurFields' \in Seq(Field)
      BY <1>0, <2>1, FileFacts DEF CurFields
    <3> QED BY <3>1, <2>1 DEF Placed
  <2>6. ElementSize("super")' = size[Super(c)]
        /\ ElementAlign("super")' = alignment[Super(c)]
    BY <2>1, <2>4 DEF ElementSize, ElementAlign
  <2>7. ElementInv("super")'
    BY <2>2, <2>3, <2>6, AlignToZero DEF ElementInv, Alignment
  <2> QED BY <2>1, <2>3, <2>4, <2>5, <2>7 DEF StructInv
<1>3. CASE PlaceField
  <2>0. PICK n, ty : n = CurFields[next].name /\ ty = CurFields[next].type
    OBVIOUS
  <2>1. /\ cur' = cur /\ cur \in ClassName /\ cur # None
        /\ next' = next + 1 /\ files' = files
        /\ laid' = laid /\ size' = size /\ alignment' = alignment
        /\ next \in DOMAIN CurFields /\ ~CurFields[next].static
        /\ struct' = Add(struct, n, SizeOf[ty], AlignOf[ty])
    BY <1>0, <1>3, <2>0 DEF PlaceField, LayoutTypeOK
  <2>2. /\ n \in Element \ {"vtable", "super"} /\ n \in FieldName
        /\ SizeOf[ty] \in Nat \ {0}
        /\ AlignOf[ty] \in Alignment
        /\ LeafType(<<cur, n>>) = ty
    BY <1>0, <2>0, <2>1, CurFieldFacts
  <2>3. CurFields \in Seq(Field) /\ CurFields' = CurFields
    BY <1>0, <2>1, FileFacts DEF CurFields
  <2>4. n \notin DOMAIN struct.at
    BY <1>0, <2>0, <2>1, NotYetPlaced DEF StructInv
  <2>5. /\ DOMAIN struct'.at = DOMAIN struct.at \cup {n}
        /\ struct'.at[n] \in Nat
        /\ struct.end <= struct'.at[n]
        /\ struct'.at[n] % AlignOf[ty] = 0
        /\ struct'.end = struct'.at[n] + SizeOf[ty]
        /\ struct.align <= struct'.align /\ AlignOf[ty] <= struct'.align
        /\ \A d \in DOMAIN struct.at : struct'.at[d] = struct.at[d]
        /\ struct'.align \in Alignment
    <3> DEFINE t == Add(struct, n, SizeOf[ty], AlignOf[ty])
    <3>1. /\ StructTyped(t)
          /\ DOMAIN t.at = DOMAIN struct.at \cup {n}
          /\ struct.end <= t.at[n]
          /\ t.at[n] % AlignOf[ty] = 0
          /\ t.end = t.at[n] + SizeOf[ty]
          /\ struct.align <= t.align /\ AlignOf[ty] <= t.align
          /\ \A d \in DOMAIN struct.at \ {n} : t.at[d] = struct.at[d]
      BY <1>0, <2>2, AddFacts
    <3> HIDE DEF t
    <3>2. t.at[n] \in Nat /\ t.align \in Alignment
      BY <3>1 DEF StructTyped
    <3> QED BY <2>1, <2>4, <3>1, <3>2 DEF t
  <2>6. First' = First /\ Super(cur)' = Super(cur)
    BY <2>1 DEF First, Super
  <2>7. Placed' = Placed \cup {n}
    BY <1>0, <2>0, <2>1, <2>2, <2>3 DEF Placed, LayoutTypeOK
  <2>8. next' \in 1..(Len(CurFields') + 1)
    BY <2>1, <2>3
  <2>9. ElementSize(n) = SizeOf[ty]
        /\ ElementAlign(n) = AlignOf[ty]
    BY <2>2 DEF ElementSize, ElementAlign, LeafSize
  <2>10. \A e : ElementSize(e)' = ElementSize(e)
                /\ ElementAlign(e)' = ElementAlign(e)
    BY <2>1, ElementStable
  <2>11. ASSUME NEW e \in DOMAIN struct.at
         PROVE  ElementSize(e) \in Nat /\ ElementAlign(e) \in Alignment
                /\ struct.at[e] \in Nat
    <3>1. e \in {"vtable", "super"} \/ \E i \in DOMAIN CurFields :
                                         CurFields[i].name = e
      BY <1>0, <2>1 DEF StructInv, First, Placed
    <3>2. CASE e = "vtable"
      BY <1>0, <3>2, TypeAssumption
         DEF ElementSize, ElementAlign, LeafSize, LeafType, StructTyped
    <3>3. CASE e = "super"
      <4>1. Super(cur) \in ClassName
        BY <1>0, <2>1, <3>3, ElementAssumption, NoneAssumption
           DEF StructInv, First, Placed, LayoutTypeOK
      <4> QED BY <1>0, <3>3, <4>1
              DEF ElementSize, ElementAlign, StructTyped, LayoutTypeOK
    <3>4. ASSUME NEW i \in DOMAIN CurFields, CurFields[i].name = e
          PROVE  ElementSize(e) \in Nat /\ ElementAlign(e) \in Alignment
                 /\ struct.at[e] \in Nat
      BY <1>0, <2>1, <3>4, CurFieldFacts
         DEF ElementSize, ElementAlign, LeafSize, StructTyped
    <3> QED BY <3>1, <3>2, <3>3, <3>4
  <2>12. \A e \in DOMAIN struct'.at : ElementInv(e)'
    <3>1. ElementInv(n)'
      BY <2>2, <2>5, <2>9, <2>10 DEF ElementInv
    <3>2. ASSUME NEW e \in DOMAIN struct.at
          PROVE  ElementInv(e)'
      <4>1. ElementInv(e)
        BY <1>0, <2>1 DEF StructInv
      <4>2. struct.end \in Nat /\ struct.align \in Alignment
        BY <1>0 DEF StructTyped
      <4> QED BY <2>2, <2>5, <2>10, <2>11, <4>1, <4>2 DEF ElementInv, Alignment
    <3> QED BY <2>5, <3>1, <3>2
  <2>13. ASSUME NEW d \in DOMAIN struct'.at, NEW e \in DOMAIN struct'.at, d # e
         PROVE  \/ struct'.at[d] + ElementSize(d)' <= struct'.at[e]
                \/ struct'.at[e] + ElementSize(e)' <= struct'.at[d]
    <3>1. struct.end \in Nat
      BY <1>0 DEF StructTyped
    <3>2. CASE d \in DOMAIN struct.at /\ e \in DOMAIN struct.at
      BY <1>0, <2>1, <2>5, <2>10, <2>13, <3>2 DEF StructInv
    <3>3. CASE d = n
      <4>1. e \in DOMAIN struct.at /\ ElementInv(e)
        BY <1>0, <2>1, <2>5, <2>13, <3>3 DEF StructInv
      <4> QED BY <2>5, <2>10, <2>11, <3>1, <3>3, <4>1 DEF ElementInv
    <3>4. CASE e = n
      <4>1. d \in DOMAIN struct.at /\ ElementInv(d)
        BY <1>0, <2>1, <2>5, <2>13, <3>4 DEF StructInv
      <4> QED BY <2>5, <2>10, <2>11, <3>1, <3>4, <4>1 DEF ElementInv
    <3> QED BY <2>5, <3>2, <3>3, <3>4
  <2>14. struct'.at[First'] = 0
    BY <1>0, <2>1, <2>5, <2>6 DEF StructInv
  <2> QED BY <1>0, <2>1, <2>5, <2>6, <2>7, <2>8, <2>12, <2>13, <2>14
          DEF StructInv
<1>4. CASE SkipStatic
  <2>1. /\ cur' = cur /\ cur \in ClassName /\ cur # None
        /\ next' = next + 1 /\ files' = files /\ struct' = struct
        /\ laid' = laid /\ size' = size /\ alignment' = alignment
        /\ next \in DOMAIN CurFields /\ CurFields[next].static
    BY <1>0, <1>4 DEF SkipStatic, LayoutTypeOK
  <2>2. CurFields \in Seq(Field) /\ CurFields' = CurFields
    BY <1>0, <2>1, FileFacts DEF CurFields
  <2>3. First' = First /\ Super(cur)' = Super(cur)
    BY <2>1 DEF First, Super
  <2>4. Placed' = Placed
    BY <1>0, <2>1, <2>2 DEF Placed, LayoutTypeOK
  <2>5. \A e : ElementSize(e)' = ElementSize(e)
               /\ ElementAlign(e)' = ElementAlign(e)
    BY <2>1, ElementStable
  <2>6. next' \in 1..(Len(CurFields') + 1)
    BY <2>1, <2>2
  <2>7. \A e : ElementInv(e)' <=> ElementInv(e)
    BY <2>1, <2>5 DEF ElementInv
  <2> QED BY <1>0, <2>1, <2>3, <2>4, <2>5, <2>6, <2>7 DEF StructInv
<1>5. CASE FinishLayout
  BY <1>5 DEF FinishLayout, StructInv
<1> QED BY <1>1, <1>2, <1>3, <1>4, <1>5 DEF LayoutNext

-----------------------------------------------------------------------------
(* The hierarchy                                                           *)

\* What a step that finishes no class leaves as it was.
LEMMA Unfinished ==
    ASSUME LayoutInv,
           PlaceField \/ SkipStatic
               \/ \E c \in ClassName : LayOutBase(c) \/ LayOutSub(c)
    PROVE  /\ files' = files /\ laid' = laid /\ body' = body
           /\ size' = size /\ alignment' = alignment
           /\ \A d \in laid : ancestors'[d] = ancestors[d]
           /\ \A s \in Specifier : s[1] \in laid \/ s[2] # "vtable" =>
                                      byteOffset'[s] = byteOffset[s]
<1>0. laid \subseteq ClassName /\ byteOffset \in [Specifier -> Nat \cup {-1}]
      /\ ancestors \in [ClassName -> SUBSET ClassName]
  BY DEF LayoutInv, LayoutTypeOK
<1>1. CASE PlaceField \/ SkipStatic
  BY <1>1 DEF PlaceField, SkipStatic
<1>2. ASSUME NEW c \in ClassName, LayOutBase(c)
      PROVE  /\ files' = files /\ laid' = laid /\ body' = body
             /\ size' = size /\ alignment' = alignment
             /\ ancestors' = ancestors /\ byteOffset' = byteOffset
  BY <1>2 DEF LayOutBase
<1>3. ASSUME NEW c \in ClassName, LayOutSub(c)
      PROVE  /\ files' = files /\ laid' = laid /\ body' = body
             /\ size' = size /\ alignment' = alignment
             /\ \A d \in laid : ancestors'[d] = ancestors[d]
             /\ \A s \in Specifier : s[1] \in laid \/ s[2] # "vtable" =>
                                        byteOffset'[s] = byteOffset[s]
  <2>1. /\ c \notin laid
        /\ byteOffset' = [byteOffset EXCEPT ![<<c, "vtable">>] =
                             byteOffset[<<Super(c), "vtable">>]]
        /\ ancestors' = [ancestors EXCEPT ![c] =
                             {Super(c)} \cup ancestors[Super(c)]]
    BY <1>3 DEF LayOutSub
  <2>2. \A s \in Specifier : s[1] \in laid \/ s[2] # "vtable" =>
                              s # <<c, "vtable">>
    BY <2>1
  <2>3. \A d \in laid : ancestors'[d] = ancestors[d]
    BY <1>0, <2>1
  <2>4. \A s \in Specifier : s # <<c, "vtable">> => byteOffset'[s] = byteOffset[s]
    BY <1>0, <2>1
  <2> QED BY <1>3, <2>2, <2>3, <2>4 DEF LayOutSub
<1> QED BY <1>1, <1>2, <1>3

LEMMA LineageStep ==
    ASSUME LayoutInv, LayoutNext
    PROVE  LineageInv'
<1>0. /\ LayoutTypeOK /\ StructInv /\ LineageInv
      /\ laid \subseteq ClassName /\ None \notin laid
  BY NoneAssumption DEF LayoutInv, LayoutTypeOK
<1>1. ASSUME NEW c \in ClassName, LayOutBase(c)
      PROVE  LineageInv'
  <2>1. /\ cur = None /\ cur' = c /\ c \notin laid /\ Super(c) = None
        /\ files' = files /\ laid' = laid /\ ancestors' = ancestors
        /\ byteOffset' = byteOffset /\ c # None
    BY <1>1, NoneAssumption DEF LayOutBase
  <2>2. ancestors[c] = {}
    BY <1>0, <2>1 DEF LineageInv
  <2>3. \A d : Linked(d)' = Linked(d)
    BY <2>1 DEF Linked, Super
  <2>4. Linked(c)
    BY <2>1, <2>2 DEF Linked
  <2> QED BY <1>0, <2>1, <2>3, <2>4, NoneAssumption DEF LineageInv, Super
<1>2. ASSUME NEW c \in ClassName, LayOutSub(c)
      PROVE  LineageInv'
  <2>1. /\ cur = None /\ cur' = c /\ c \notin laid /\ Super(c) \in laid
        /\ files' = files /\ laid' = laid /\ c # None
        /\ byteOffset' = [byteOffset EXCEPT ![<<c, "vtable">>] =
                             byteOffset[<<Super(c), "vtable">>]]
        /\ ancestors' = [ancestors EXCEPT ![c] =
                             {Super(c)} \cup ancestors[Super(c)]]
    BY <1>2, NoneAssumption DEF LayOutSub
  <2>2. /\ \A d \in ClassName \ {c} :
             /\ ancestors'[d] = ancestors[d]
             /\ byteOffset'[<<d, "vtable">>] = byteOffset[<<d, "vtable">>]
        /\ ancestors'[c] = {Super(c)} \cup ancestors[Super(c)]
        /\ byteOffset'[<<c, "vtable">>] = byteOffset[<<Super(c), "vtable">>]
        /\ \A d \in ClassName :
             byteOffset'[<<d, "super">>] = byteOffset[<<d, "super">>]
    BY <1>0, <2>1 DEF LayoutTypeOK, Specifier, Element
  <2>3. Linked(c)'
    <3>1. Super(c)' = Super(c) /\ Super(c) # c /\ Super(c) \in ClassName
      BY <1>0, <2>1 DEF Super
    <3> QED BY <1>0, <2>1, <2>2, <3>1 DEF Linked
  <2>4. ASSUME NEW d \in laid
        PROVE  Linked(d)'
    <3>1. Linked(d) /\ d # c /\ d \in ClassName /\ Super(d)' = Super(d)
      BY <1>0, <2>1 DEF LineageInv, Super
    <3>2. Super(d) # None => Super(d) \in ClassName \ {c}
      BY <1>0, <2>1, <3>1 DEF Linked
    <3> QED BY <2>1, <2>2, <3>1, <3>2 DEF Linked
  <2>5. \A d \in ClassName : ancestors'[d] \subseteq laid
    BY <1>0, <2>1, <2>2 DEF LineageInv
  <2>6. \A d \in laid : Super(d)' = Super(d)
    BY <2>1 DEF Super
  <2> QED BY <1>0, <2>1, <2>2, <2>3, <2>4, <2>5, <2>6, NoneAssumption
          DEF LineageInv
<1>3. CASE PlaceField \/ SkipStatic
  <2>1. /\ cur' = cur /\ files' = files /\ laid' = laid
        /\ ancestors' = ancestors /\ byteOffset' = byteOffset
    BY <1>3 DEF PlaceField, SkipStatic
  <2>2. \A d : Linked(d)' = Linked(d)
    BY <2>1 DEF Linked, Super
  <2> QED BY <1>0, <2>1, <2>2 DEF LineageInv, Super
<1>4. CASE FinishLayout
  <2>1. /\ cur \in ClassName /\ cur # None /\ cur' = None /\ cur \notin laid
        /\ files' = files /\ laid' = laid \cup {cur}
        /\ ancestors' = ancestors /\ byteOffset' = Offsets
    BY <1>0, <1>4 DEF FinishLayout, LayoutTypeOK, StructInv
  <2>2. \A s \in Specifier : s[1] # cur => byteOffset'[s] = byteOffset[s]
    BY <2>1 DEF Offsets
  <2>3. Linked(cur) /\ (Super(cur) # None => Super(cur) \in laid)
    BY <1>0, <2>1 DEF LineageInv, Linked
  <2>4. Super(cur) # None => /\ byteOffset'[<<cur, "super">>] = 0
                             /\ byteOffset'[<<cur, "vtable">>]
                                  = byteOffset[<<cur, "vtable">>]
    <3> SUFFICES ASSUME Super(cur) # None
                 PROVE  /\ byteOffset'[<<cur, "super">>] = 0
                        /\ byteOffset'[<<cur, "vtable">>]
                              = byteOffset[<<cur, "vtable">>]
      OBVIOUS
    <3>1. /\ "super" \in DOMAIN struct.at /\ struct.at["super"] = 0
          /\ "vtable" \notin DOMAIN struct.at
      BY <1>0, <2>1, ElementAssumption DEF StructInv, First, Placed
    <3>2. <<cur, "super">> \in Specifier /\ <<cur, "vtable">> \in Specifier
      BY <2>1 DEF Specifier, Element
    <3> QED BY <2>1, <3>1, <3>2 DEF Offsets
  <2>5. ASSUME NEW d \in laid'
        PROVE  Linked(d)'
    <3>1. Linked(d) /\ d \in ClassName /\ Super(d)' = Super(d)
      BY <1>0, <2>1, <2>3 DEF LineageInv, Super
    <3>2. Super(d) # None => /\ Super(d) \in laid /\ Super(d) # cur
                             /\ <<d, "vtable">> \in Specifier
                             /\ <<Super(d), "vtable">> \in Specifier
      BY <1>0, <2>1, <3>1 DEF Linked, Specifier, Element
    <3>3. Super(d) # None => byteOffset'[<<d, "vtable">>]
                                = byteOffset'[<<Super(d), "vtable">>]
      BY <2>2, <2>4, <3>1, <3>2 DEF Linked
    <3> QED BY <2>1, <3>1, <3>2, <3>3 DEF Linked
  <2>6. ASSUME NEW d \in laid', Super(d) # None
        PROVE  byteOffset'[<<d, "super">>] = 0
    <3>1. CASE d = cur  BY <2>4, <2>6, <3>1
    <3>2. CASE d # cur
      <4>1. d \in laid /\ <<d, "super">> \in Specifier
        BY <1>0, <2>1, <3>2 DEF Specifier, Element
      <4> QED BY <1>0, <2>2, <2>6, <3>2, <4>1 DEF LineageInv
    <3> QED BY <3>1, <3>2
  <2>7. \A d : Super(d)' = Super(d)
    BY <2>1 DEF Super
  <2>8. cur \notin ancestors[cur]
    BY <1>0, <2>1 DEF LineageInv
  <2> QED BY <1>0, <2>1, <2>5, <2>6, <2>7, <2>8 DEF LineageInv
<1> QED BY <1>1, <1>2, <1>3, <1>4 DEF LayoutNext

LEMMA RootStep ==
    ASSUME LayoutInv, LayoutNext
    PROVE  RootInv'
<1>0. /\ LayoutTypeOK /\ StructInv /\ LineageInv /\ RootInv
      /\ laid \subseteq ClassName /\ None \notin laid
  BY NoneAssumption DEF LayoutInv, LayoutTypeOK
<1>1. CASE PlaceField \/ SkipStatic
               \/ \E c \in ClassName : LayOutBase(c) \/ LayOutSub(c)
  <2>1. /\ laid' = laid /\ files' = files
        /\ \A d \in laid : ancestors'[d] = ancestors[d]
    BY <1>1, Unfinished
  <2>2. \A d \in laid : \A b : IsRoot(d, b)' <=> IsRoot(d, b)
    BY <2>1 DEF IsRoot, Super
  <2> QED BY <1>0, <2>1, <2>2 DEF RootInv
<1>2. CASE FinishLayout
  <2>1. /\ cur \in ClassName /\ cur # None /\ cur \notin laid
        /\ files' = files /\ laid' = laid \cup {cur} /\ ancestors' = ancestors
    BY <1>0, <1>2 DEF FinishLayout, LayoutTypeOK, StructInv
  <2>2. \A d, b : IsRoot(d, b)' <=> IsRoot(d, b)
    BY <2>1 DEF IsRoot, Super
  <2>3. Linked(cur)
    BY <1>0, <2>1 DEF LineageInv
  <2>4. CASE Super(cur) = None
    <3>1. \A b : IsRoot(cur, b) <=> b = cur
      BY <2>3, <2>4 DEF Linked, IsRoot
    <3> QED BY <1>0, <2>1, <2>2, <3>1 DEF RootInv
  <2>5. CASE Super(cur) # None
    <3>1. \A b : IsRoot(cur, b) <=> IsRoot(Super(cur), b)
      BY <2>3, <2>5 DEF Linked, IsRoot
    <3>2. Super(cur) \in laid
      BY <2>3, <2>5 DEF Linked
    <3> QED BY <1>0, <2>1, <2>2, <3>1, <3>2 DEF RootInv
  <2> QED BY <2>4, <2>5
<1> QED BY <1>1, <1>2 DEF LayoutNext

LEMMA VTableStep ==
    ASSUME LayoutInv, LayoutNext
    PROVE  VTableInv'
<1>0. /\ LayoutTypeOK /\ StructInv /\ LineageInv /\ VTableInv
      /\ laid \subseteq ClassName /\ None \notin laid
      /\ byteOffset \in [Specifier -> Nat \cup {-1}]
  BY NoneAssumption DEF LayoutInv, LayoutTypeOK
<1>1. \A d \in laid : <<d, "vtable">> \in Specifier /\ <<d, "vtable">>[1] = d
  BY <1>0 DEF Specifier, Element
<1>2. \A c \in laid : {c} \cup ancestors[c] \subseteq laid
  BY <1>0 DEF LineageInv
<1>3. CASE PlaceField \/ SkipStatic
               \/ \E c \in ClassName : LayOutBase(c) \/ LayOutSub(c)
  <2>1. /\ laid' = laid /\ files' = files
        /\ \A d \in laid : ancestors'[d] = ancestors[d]
        /\ \A s \in Specifier : s[1] \in laid => byteOffset'[s] = byteOffset[s]
    BY <1>3, Unfinished
  <2>2. \A d \in laid : \A b : IsRoot(d, b)' <=> IsRoot(d, b)
    BY <2>1 DEF IsRoot, Super
  <2>3. \A d \in laid : byteOffset'[<<d, "vtable">>] = byteOffset[<<d, "vtable">>]
    BY <1>1, <2>1
  <2>4. \A c \in laid : \A b : IsRoot(c, b) => b \in laid
    BY <1>2 DEF IsRoot
  <2>5. ASSUME NEW c \in laid', NEW b \in ClassName, IsRoot(c, b)',
               NEW d \in {c} \cup ancestors'[c]
        PROVE  byteOffset'[<<d, "vtable">>] = byteOffset'[<<b, "vtable">>]
    <3>1. c \in laid /\ IsRoot(c, b) /\ d \in {c} \cup ancestors[c]
      BY <2>1, <2>2, <2>5
    <3>2. b \in laid /\ d \in laid
      BY <1>2, <2>4, <3>1
    <3> QED BY <1>0, <2>3, <3>1, <3>2 DEF VTableInv
  <2> QED BY <2>5 DEF VTableInv
<1>4. CASE FinishLayout
  <2>1. /\ cur \in ClassName /\ cur # None /\ cur \notin laid
        /\ files' = files /\ laid' = laid \cup {cur} /\ ancestors' = ancestors
        /\ byteOffset' = Offsets /\ DOMAIN struct.at = {First} \cup Placed
    BY <1>0, <1>4 DEF FinishLayout, LayoutTypeOK, StructInv
  <2>2. \A d, b : IsRoot(d, b)' <=> IsRoot(d, b)
    BY <2>1 DEF IsRoot, Super
  <2>3. Linked(cur)
    BY <1>0, <2>1 DEF LineageInv
  <2>4. \A d \in laid : byteOffset'[<<d, "vtable">>] = byteOffset[<<d, "vtable">>]
    BY <1>1, <2>1 DEF Offsets
  <2>5. ASSUME NEW c \in laid, NEW b \in ClassName, IsRoot(c, b),
               NEW d \in {c} \cup ancestors[c]
        PROVE  byteOffset'[<<d, "vtable">>] = byteOffset'[<<b, "vtable">>]
    <3>1. b \in laid /\ d \in laid
      BY <1>2, <2>5 DEF IsRoot
    <3> QED BY <1>0, <2>4, <2>5, <3>1 DEF VTableInv
  <2>6. ASSUME NEW b \in ClassName, IsRoot(cur, b),
               NEW d \in {cur} \cup ancestors[cur]
        PROVE  byteOffset'[<<d, "vtable">>] = byteOffset'[<<b, "vtable">>]
    <3>1. CASE Super(cur) = None
      BY <2>3, <2>6, <3>1 DEF Linked, IsRoot
    <3>2. CASE Super(cur) # None
      <4>1. /\ Super(cur) \in laid
            /\ ancestors[cur] = {Super(cur)} \cup ancestors[Super(cur)]
            /\ byteOffset[<<cur, "vtable">>] =
                  byteOffset[<<Super(cur), "vtable">>]
        BY <2>3, <3>2 DEF Linked
      <4>2. IsRoot(Super(cur), b)
        BY <2>6, <3>2, <4>1 DEF IsRoot
      <4>3. byteOffset'[<<cur, "vtable">>] = byteOffset[<<cur, "vtable">>]
        <5>1. "vtable" \notin DOMAIN struct.at
          BY <2>1, <3>2, ElementAssumption DEF First, Placed
        <5>2. <<cur, "vtable">> \in Specifier
          BY <2>1 DEF Specifier, Element
        <5> QED BY <2>1, <5>1, <5>2 DEF Offsets
      <4>4. CASE d = cur
        BY <2>4, <2>5, <4>1, <4>2, <4>3, <4>4
      <4>5. CASE d # cur
        BY <2>5, <2>6, <4>1, <4>2, <4>5
      <4> QED BY <4>4, <4>5
    <3> QED BY <3>1, <3>2
  <2>7. ASSUME NEW c \in laid', NEW b \in ClassName, IsRoot(c, b),
               NEW d \in {c} \cup ancestors[c]
        PROVE  byteOffset'[<<d, "vtable">>] = byteOffset'[<<b, "vtable">>]
    BY <2>1, <2>5, <2>6, <2>7
  <2>8. ASSUME NEW c \in laid', NEW b \in ClassName, IsRoot(c, b)',
               NEW d \in {c} \cup ancestors'[c]
        PROVE  byteOffset'[<<d, "vtable">>] = byteOffset'[<<b, "vtable">>]
    <3>1. IsRoot(c, b) /\ ancestors'[c] = ancestors[c]
      BY <2>1, <2>2, <2>8
    <3> QED BY <2>7, <2>8, <3>1
  <2> QED BY <2>8 DEF VTableInv
<1> QED BY <1>3, <1>4 DEF LayoutNext

-----------------------------------------------------------------------------
(* The leaves                                                              *)

\* A leaf belongs to a class of the lineage.
LEMMA LeafOwner ==
    ASSUME NEW c, NEW l, IsLeaf(c, l)
    PROVE  l[1] \in {c} \cup ancestors[c]
  BY DEF IsLeaf, IsRoot, Declared

\* What is known of a class that is laid out does not change.
LEMMA LeafInvStable ==
    ASSUME LayoutTypeOK, LineageInv, NEW c \in laid, LeafInv(c),
           files' = files, ancestors'[c] = ancestors[c],
           body'[c] = body[c], size'[c] = size[c],
           alignment'[c] = alignment[c],
           \A s \in Specifier : s[1] \in laid => byteOffset'[s] = byteOffset[s]
    PROVE  LeafInv(c)'
<1>1. \A l : IsLeaf(c, l)' <=> IsLeaf(c, l)
  BY DEF IsLeaf, IsRoot, Super, Declared
<1>2. \A l : LeafType(l)' = LeafType(l) /\ LeafSize(l)' = LeafSize(l)
  BY LeafTypeStable
<1>3. c \in ClassName /\ ancestors[c] \subseteq laid
  BY DEF LayoutTypeOK, LineageInv
<1>4. \A l \in DOMAIN body[c] : byteOffset'[l] = byteOffset[l]
  <2>1. \A l \in DOMAIN body[c] : l \in Specifier /\ IsLeaf(c, l)
    BY <1>3 DEF LayoutTypeOK, LeafInv
  <2> QED BY <1>3, <2>1, LeafOwner
<1> QED BY <1>1, <1>2, <1>4 DEF LeafInv

\* The leaves of the class whose layout is finished.
LEMMA LeafInvNew ==
    ASSUME LayoutInv, FinishLayout, NEW c, c = cur
    PROVE  LeafInv(c)'
<1> DEFINE s == Super(cur)
<1>0. /\ LayoutTypeOK /\ StructInv /\ LineageInv /\ BodyInv
      /\ StructTyped(struct) /\ laid \subseteq ClassName /\ None \notin laid
      /\ files \in ClassPaths
  BY NoneAssumption DEF LayoutInv, LayoutTypeOK, StructTyped
<1>1. /\ cur \in ClassName /\ cur # None /\ cur \notin laid
      /\ next = Len(CurFields) + 1
      /\ files' = files /\ ancestors' = ancestors
      /\ byteOffset' = Offsets
      /\ body' = [body EXCEPT ![cur] = Leaves]
      /\ size' = [size EXCEPT ![cur] = AlignTo(struct.end, struct.align)]
      /\ alignment' = [alignment EXCEPT ![cur] = struct.align]
  BY <1>0 DEF FinishLayout, LayoutTypeOK, StructInv
<1>2. /\ DOMAIN struct.at = {First} \cup Placed
      /\ struct.at[First] = 0
      /\ \A e \in DOMAIN struct.at : ElementInv(e)
      /\ \A d, e \in DOMAIN struct.at : d # e =>
            \/ struct.at[d] + ElementSize(d) <= struct.at[e]
            \/ struct.at[e] + ElementSize(e) <= struct.at[d]
      /\ Linked(cur) /\ (s = None \/ s \in laid)
  BY <1>0, <1>1 DEF StructInv, LineageInv
<1>3. body'[cur] = Leaves /\ size'[cur] = AlignTo(struct.end, struct.align)
      /\ alignment'[cur] = struct.align
  BY <1>0, <1>1 DEF LayoutTypeOK
<1>4. /\ size'[cur] \in Nat /\ struct.end <= size'[cur]
      /\ struct.end \in Nat /\ struct.align \in Alignment
  BY <1>0, <1>3, AlignToFacts DEF StructTyped
<1>5. /\ \A l : LeafType(l)' = LeafType(l) /\ LeafSize(l)' = LeafSize(l)
      /\ \A l : IsLeaf(c, l)' <=> IsLeaf(cur, l)
  <2>1. \A l : IsLeaf(c, l)' <=> IsLeaf(c, l)
    BY <1>1 DEF IsLeaf, IsRoot, Super, Declared
  <2> QED BY <1>1, <2>1, LeafTypeStable
\* The fields that were placed are those the class declares.
<1>6. \A f : f \in Placed <=> <<cur, f>> \in Declared(cur)
  <2>1. CurFields \in Seq(Field) /\ CurFields = files[cur].fields
    BY <1>0, <1>1, FileFacts DEF CurFields
  <2>2. \A i \in DOMAIN CurFields : i < next /\ CurFields[i].name \in FieldName
    <3>1. \A i \in DOMAIN CurFields : CurFields[i].name \in FieldName
      BY <1>0, <1>1, CurFieldFacts
    <3>2. Len(CurFields) \in Nat /\ DOMAIN CurFields = 1..Len(CurFields)
      BY <2>1
    <3> QED BY <1>1, <3>1, <3>2
  <2> QED BY <2>1, <2>2 DEF Placed, Declared
<1>7. \A l : l \in OwnLeaves <=>
         \/ l = <<cur, "vtable">> /\ s = None
         \/ l \in Declared(cur)
  <2>1. \A l : l \in Declared(cur) => l = <<cur, l[2]>>
    BY DEF Declared
  <2>2. "super" \notin Placed
    BY ElementAssumption DEF Placed
  <2> QED BY <1>2, <1>6, <2>1, <2>2 DEF OwnLeaves, First
<1>8. \A l \in OwnLeaves :
         /\ l[1] = cur /\ l \in Specifier /\ l = <<cur, l[2]>>
         /\ l[2] \in DOMAIN struct.at /\ l[2] # "super"
         /\ ElementSize(l[2]) = LeafSize(l)
         /\ ElementAlign(l[2]) = AlignOf[LeafType(l)]
  BY <1>0, <1>1 DEF OwnLeaves, Specifier, StructTyped, ElementSize,
                    ElementAlign
<1>9. ASSUME NEW l \in DOMAIN Inherited
      PROVE  /\ s \in laid /\ "super" \in DOMAIN struct.at
             /\ struct.at["super"] = 0
             /\ l \in DOMAIN body[s] /\ Inherited[l] = body[s][l]
             /\ l \in Specifier /\ l[1] \in laid /\ l[1] # cur
             /\ l \notin OwnLeaves
  <2>1. "super" \in DOMAIN struct.at /\ Inherited = body[s]
    BY DEF Inherited, EmptyMap
  <2>2. s # None /\ First = "super"
    BY <1>2, <2>1, ElementAssumption DEF First, Placed
  <2>3. l \in Specifier /\ IsLeaf(s, l)
    BY <1>0, <1>2, <2>1, <2>2 DEF LayoutTypeOK, BodyInv, LeafInv
  <2>4. l[1] \in laid
    BY <1>0, <1>2, <2>2, <2>3, LeafOwner DEF LineageInv
  <2> QED BY <1>1, <1>2, <1>8, <2>1, <2>2, <2>3, <2>4
<1>10. s \in laid => Inherited = body[s]
  BY <1>0, <1>2 DEF Inherited, First
<1>11. s = None => DOMAIN Inherited = {}
  BY <1>9, <1>0
<1>12. /\ DOMAIN Leaves = OwnLeaves \cup DOMAIN Inherited
       /\ \A l \in OwnLeaves : Leaves[l] = struct.at[l[2]]
       /\ \A l \in DOMAIN Inherited : Leaves[l] = body[s][l]
  <2>1. \A l \in DOMAIN Inherited : body[s][l] \in Nat
    BY <1>0, <1>9 DEF LayoutTypeOK
  <2> QED BY <1>9, <2>1 DEF Leaves
<1>13. \A l \in Specifier : l \in DOMAIN Leaves <=> IsLeaf(cur, l)
  <2>1. CASE s = None
    <3>1. ancestors[cur] = {}
      BY <1>2, <2>1 DEF Linked
    <3>2. \A l \in Specifier : IsLeaf(cur, l) <=>
             \/ l = <<cur, "vtable">> \/ l \in Declared(cur)
      BY <2>1, <3>1 DEF IsLeaf, IsRoot, Specifier
    <3> QED BY <1>7, <1>11, <1>12, <2>1, <3>2
  <2>2. CASE s # None
    <3>1. ancestors[cur] = {s} \cup ancestors[s] /\ s \in laid
      BY <1>2, <2>2 DEF Linked
    <3>2. \A l : IsLeaf(cur, l) <=> l \in Declared(cur) \/ IsLeaf(s, l)
      BY <2>2, <3>1 DEF IsLeaf, IsRoot
    <3>3. \A l \in Specifier : l \in DOMAIN body[s] <=> IsLeaf(s, l)
      BY <1>0, <3>1 DEF BodyInv, LeafInv
    <3> QED BY <1>7, <1>10, <1>12, <2>2, <3>1, <3>2, <3>3
  <2> QED BY <2>1, <2>2
<1>14. ASSUME NEW l \in DOMAIN Leaves
       PROVE  /\ Leaves[l] \in Nat /\ LeafSize(l) \in Nat
              /\ Leaves[l] + LeafSize(l) <= struct.end
              /\ Leaves[l] % AlignOf[LeafType(l)] = 0
              /\ AlignOf[LeafType(l)] <= struct.align
              /\ Offsets[l] = Leaves[l]
  <2>1. LeafSize(l) \in Nat /\ AlignOf[LeafType(l)] \in Alignment
        /\ l \in Specifier
    <3>1. l \in Specifier
      BY <1>8, <1>9, <1>12
    <3>2. ancestors[cur] \subseteq ClassName
      BY <1>0, <1>1 DEF LayoutTypeOK
    <3> QED BY <1>0, <1>1, <1>13, <3>1, <3>2, LeafTyped
  <2>2. CASE l \in OwnLeaves
    <3>1. ElementInv(l[2]) /\ struct.at[l[2]] \in Nat
      BY <1>0, <1>2, <1>8, <2>2 DEF StructTyped
    <3>2. Offsets[l] = struct.at[l[2]]
      BY <1>8, <2>2, <2>1 DEF Offsets
    <3> QED BY <1>8, <1>12, <2>1, <2>2, <3>1, <3>2 DEF ElementInv
  <2>3. CASE l \in DOMAIN Inherited
    <3>1. /\ s \in laid /\ l \in DOMAIN body[s] /\ struct.at["super"] = 0
          /\ "super" \in DOMAIN struct.at /\ l[1] # cur
          /\ Leaves[l] = body[s][l]
      BY <1>9, <1>12, <2>3
    <3>2. /\ body[s][l] \in Nat
          /\ body[s][l] + LeafSize(l) <= size[s]
          /\ body[s][l] % AlignOf[LeafType(l)] = 0
          /\ AlignOf[LeafType(l)] <= alignment[s]
          /\ byteOffset[l] = body[s][l]
          /\ size[s] \in Nat /\ alignment[s] \in Alignment
      BY <1>0, <3>1 DEF BodyInv, LeafInv, LayoutTypeOK
    <3>3. /\ struct.at["super"] + size[s] <= struct.end
          /\ alignment[s] <= struct.align
      BY <1>2, <3>1 DEF ElementInv, ElementSize, ElementAlign
    <3>4. Offsets[l] = byteOffset[l]
      BY <2>1, <3>1 DEF Offsets
    <3>5. alignment[s] \in Nat /\ AlignOf[LeafType(l)] \in Nat
          /\ struct.align \in Nat
      BY <1>4, <2>1, <3>2 DEF Alignment
    <3>6. size[s] <= struct.end
      BY <3>1, <3>2, <3>3
    <3>7. AlignOf[LeafType(l)] <= struct.align
      BY <3>2, <3>3, <3>5
    <3>8. body[s][l] + LeafSize(l) <= struct.end
      BY <1>4, <2>1, <3>2, <3>6
    <3> QED BY <2>1, <3>1, <3>2, <3>4, <3>7, <3>8
  <2> QED BY <1>12, <2>2, <2>3
<1>15. ASSUME NEW k \in DOMAIN Leaves, NEW l \in DOMAIN Leaves, k # l
       PROVE  \/ Leaves[l] + LeafSize(l) <= Leaves[k]
              \/ Leaves[k] + LeafSize(k) <= Leaves[l]
  <2>1. \A x \in OwnLeaves, y \in DOMAIN Inherited :
           Leaves[y] + LeafSize(y) <= Leaves[x]
    <3> SUFFICES ASSUME NEW x \in OwnLeaves, NEW y \in DOMAIN Inherited
                 PROVE  Leaves[y] + LeafSize(y) <= Leaves[x]
      OBVIOUS
    <3>1. /\ s \in laid /\ y \in DOMAIN body[s] /\ struct.at["super"] = 0
          /\ "super" \in DOMAIN struct.at
          /\ Leaves[y] = body[s][y]
      BY <1>9, <1>12
    <3>2. x[2] \in DOMAIN struct.at /\ x[2] # "super" /\ Leaves[x] = struct.at[x[2]]
          /\ struct.at[x[2]] \in Nat /\ LeafSize(x) \in Nat
          /\ ElementSize(x[2]) = LeafSize(x)
      BY <1>0, <1>8, <1>12, <1>14 DEF StructTyped
    <3>3. /\ body[s][y] + LeafSize(y) <= size[s] /\ size[s] \in Nat
          /\ body[s][y] \in Nat /\ LeafSize(y) \in Nat
          /\ LeafSize(x) # 0
      <4>1. LeafSize(x) # 0
        BY <1>0, <1>1, <1>8, <1>12, <1>13, LeafTyped DEF LayoutTypeOK
      <4> QED BY <1>0, <1>12, <1>14, <3>1, <4>1
              DEF BodyInv, LeafInv, LayoutTypeOK
    <3>4. ElementSize("super") = size[s]
      BY DEF ElementSize
    <3>5. \/ struct.at[x[2]] + ElementSize(x[2]) <= struct.at["super"]
          \/ struct.at["super"] + ElementSize("super") <= struct.at[x[2]]
      BY <1>2, <3>1, <3>2
    <3> QED BY <3>1, <3>2, <3>3, <3>4, <3>5
  <2>2. CASE k \in OwnLeaves /\ l \in OwnLeaves
    <3>1. k[2] # l[2]
      BY <1>8, <1>15, <2>2
    <3> QED BY <1>2, <1>8, <1>12, <2>2, <3>1
  <2>3. CASE k \in DOMAIN Inherited /\ l \in DOMAIN Inherited
    <3>1. LeafInv(s) /\ k \in DOMAIN body[s] /\ l \in DOMAIN body[s]
      BY <1>0, <1>9, <2>3 DEF BodyInv
    <3> QED BY <1>12, <1>15, <2>3, <3>1 DEF LeafInv
  <2> QED BY <1>12, <2>1, <2>2, <2>3
<1>16. \A l \in DOMAIN Leaves : Leaves[l] + LeafSize(l) <= size'[cur]
  BY <1>4, <1>14
<1> HIDE DEF Leaves, Offsets
<1>17. /\ body'[c] = Leaves /\ size'[c] = size'[cur]
       /\ alignment'[c] = struct.align
  BY <1>3
<1> QED BY <1>1, <1>5, <1>13, <1>14, <1>15, <1>16, <1>17 DEF LeafInv

LEMMA BodyStep ==
    ASSUME LayoutInv, LayoutNext
    PROVE  BodyInv'
<1>0. /\ LayoutTypeOK /\ StructInv /\ LineageInv /\ BodyInv
      /\ laid \subseteq ClassName
  BY DEF LayoutInv, LayoutTypeOK
<1>1. CASE PlaceField \/ SkipStatic
               \/ \E c \in ClassName : LayOutBase(c) \/ LayOutSub(c)
  <2>1. /\ files' = files /\ laid' = laid /\ body' = body
        /\ size' = size /\ alignment' = alignment
        /\ \A d \in laid : ancestors'[d] = ancestors[d]
        /\ \A s \in Specifier : s[1] \in laid => byteOffset'[s] = byteOffset[s]
    BY <1>1, Unfinished
  <2>2. \A c \in laid : LeafInv(c)'
    BY <1>0, <2>1, LeafInvStable DEF BodyInv
  <2> QED BY <2>1, <2>2 DEF BodyInv
<1>2. CASE FinishLayout
  <2>1. /\ cur \in ClassName /\ cur \notin laid /\ laid' = laid \cup {cur}
        /\ files' = files /\ ancestors' = ancestors
        /\ body' = [body EXCEPT ![cur] = Leaves]
        /\ size' = [size EXCEPT ![cur] = AlignTo(struct.end, struct.align)]
        /\ alignment' = [alignment EXCEPT ![cur] = struct.align]
        /\ byteOffset' = Offsets
    BY <1>0, <1>2 DEF FinishLayout, LayoutTypeOK, StructInv
  <2>2. \A s \in Specifier : s[1] \in laid => byteOffset'[s] = byteOffset[s]
    BY <2>1 DEF Offsets
  <2>3. \A c \in laid : /\ body'[c] = body[c] /\ size'[c] = size[c]
                        /\ alignment'[c] = alignment[c]
    BY <1>0, <2>1 DEF LayoutTypeOK
  <2>4. \A c \in laid : LeafInv(c)'
    BY <1>0, <2>1, <2>2, <2>3, LeafInvStable DEF BodyInv
  <2>5. \A c : c = cur => LeafInv(c)'
    BY <1>2, LeafInvNew
  <2> QED BY <2>1, <2>4, <2>5 DEF BodyInv
<1> QED BY <1>1, <1>2 DEF LayoutNext

-----------------------------------------------------------------------------
(* Theorems                                                                *)

LEMMA LayoutInit == Init => LayoutInv
<1> SUFFICES ASSUME Init PROVE LayoutInv
  OBVIOUS
<1>1. cur = None /\ laid = {}
      /\ ancestors = [c \in ClassName |-> {}]
  BY DEF Init
<1> QED BY <1>1, TypeInit DEF LayoutInv, StructInv, LineageInv, RootInv, VTableInv,
                            BodyInv

LEMMA LayoutStep == LayoutInv /\ [LayoutNext]_layoutVars => LayoutInv'
<1> SUFFICES ASSUME LayoutInv, [LayoutNext]_layoutVars
             PROVE  LayoutInv'
  OBVIOUS
<1>1. CASE LayoutNext
  BY <1>1, TypeStep, StructStep, LineageStep, RootStep, VTableStep, BodyStep
     DEF LayoutInv
<1>2. CASE UNCHANGED layoutVars
  <2>1. /\ files' = files /\ cur' = cur /\ next' = next /\ struct' = struct
        /\ laid' = laid /\ ancestors' = ancestors
        /\ byteOffset' = byteOffset /\ body' = body /\ size' = size
        /\ alignment' = alignment
    BY <1>2 DEF layoutVars
  <2>2. LayoutTypeOK' /\ LineageInv' /\ RootInv' /\ VTableInv'
    BY <2>1 DEF LayoutInv, LayoutTypeOK, LineageInv, RootInv, VTableInv,
                Linked, IsRoot, Super
  <2>3. \A e : /\ ElementSize(e)' = ElementSize(e)
               /\ ElementAlign(e)' = ElementAlign(e)
    BY <2>1, ElementStable
  <2>4. \A e : ElementInv(e)' <=> ElementInv(e)
    BY <2>1, <2>3 DEF ElementInv
  <2>5. StructInv'
    <3>1. First' = First /\ Super(cur)' = Super(cur) /\ CurFields' = CurFields
          /\ Placed' = Placed
      BY <2>1 DEF First, Super, CurFields, Placed
    <3> QED BY <2>1, <2>3, <2>4, <3>1 DEF LayoutInv, StructInv
  <2>6. BodyInv'
    BY <2>1, LeafInvStable DEF LayoutInv, BodyInv
  <2> QED BY <2>2, <2>5, <2>6 DEF LayoutInv
<1> QED BY <1>1, <1>2

\* The invariant holds of every layout.
THEOREM LayoutCorrect == LayoutSpec => []LayoutInv
  BY LayoutInit, LayoutStep, PTL DEF LayoutSpec

\* The base class of a class that is laid out.
LEMMA RootFacts ==
    ASSUME LayoutInv, NEW c \in laid
    PROVE  /\ IsRoot(c, Root(c))
           /\ \A b \in ClassName : IsRoot(c, b) => b = Root(c)
<1>1. PICK b \in ClassName : IsRoot(c, b)
  BY DEF LayoutInv, RootInv
<1>2. Root(c) \in {c} \cup ancestors[c] /\ Super(Root(c)) = None
  BY <1>1 DEF IsRoot, Root
<1>3. Root(c) \in ClassName
  BY <1>2 DEF LayoutInv, LayoutTypeOK
<1> QED BY <1>2, <1>3 DEF IsRoot, LayoutInv, RootInv

\* Every class finds the vtable pointer where the base class put it.
LEMMA VTableOffset ==
    ASSUME LayoutInv, NEW c \in laid
    PROVE  /\ <<Root(c), "vtable">> \in DOMAIN body[c]
           /\ \A d \in {c} \cup ancestors[c] :
                byteOffset[<<d, "vtable">>] = body[c][<<Root(c), "vtable">>]
<1>1. IsRoot(c, Root(c)) /\ c \in ClassName /\ Root(c) \in ClassName
      /\ LeafInv(c)
  BY RootFacts DEF LayoutInv, LayoutTypeOK, BodyInv, IsRoot
<1>2. <<Root(c), "vtable">> \in Specifier /\ IsLeaf(c, <<Root(c), "vtable">>)
  BY <1>1 DEF Specifier, Element, IsLeaf
<1>3. <<Root(c), "vtable">> \in DOMAIN body[c]
      /\ byteOffset[<<Root(c), "vtable">>] = body[c][<<Root(c), "vtable">>]
  BY <1>1, <1>2 DEF LeafInv
<1> QED BY <1>1, <1>3 DEF LayoutInv, VTableInv

\* Every value keeps its type.
THEOREM LayoutTyped == LayoutSpec => []LayoutTypeOK
<1>1. LayoutInv => LayoutTypeOK
  BY DEF LayoutInv
<1> QED BY <1>1, LayoutCorrect, PTL

\* The fields of an object, inherited ones included, share no byte.
THEOREM LayoutDisjoint == LayoutSpec => []LeavesDisjoint
<1>1. LayoutInv => LeavesDisjoint
  BY DEF LayoutInv, BodyInv, LeafInv, LeavesDisjoint
<1> QED BY <1>1, LayoutCorrect, PTL

\* The loads and stores of fields are aligned.
THEOREM LayoutAligned == LayoutSpec => []LeavesAligned
<1>1. LayoutInv => LeavesAligned
  BY DEF LayoutInv, BodyInv, LeafInv, LeavesAligned
<1> QED BY <1>1, LayoutCorrect, PTL

\* An object has its vtable pointer and its fields, and nothing else.
THEOREM LayoutComplete == LayoutSpec => []EveryFieldHasAPlace
<1>1. ASSUME LayoutInv, NEW c \in laid
      PROVE  DOMAIN body[c] = {<<Root(c), "vtable">>}
                  \cup UNION {Declared(d) : d \in {c} \cup ancestors[c]}
  <2>1. /\ LayoutTypeOK /\ LeafInv(c) /\ c \in ClassName
        /\ DOMAIN body[c] \subseteq Specifier /\ files \in ClassPaths
    BY <1>1 DEF LayoutInv, LayoutTypeOK, BodyInv
  <2>2. \A l \in Specifier : l \in DOMAIN body[c] <=> IsLeaf(c, l)
    BY <2>1 DEF LeafInv
  <2>3. ASSUME NEW l \in DOMAIN body[c], l[2] = "vtable", IsRoot(c, l[1])
        PROVE  l = <<Root(c), "vtable">>
    BY <1>1, <2>1, <2>3, RootFacts DEF Specifier
  <2>4. <<Root(c), "vtable">> \in DOMAIN body[c]
    BY <1>1, VTableOffset
  <2>5. ASSUME NEW d \in {c} \cup ancestors[c]
        PROVE  Declared(d) \subseteq Specifier
    <3>1. d \in ClassName
      BY <2>1 DEF LayoutTypeOK
    <3>2. \A i \in DOMAIN files[d].fields : files[d].fields[i].name \in FieldName
      BY <2>1, <3>1, FieldLeaf DEF Field
    <3> QED BY <3>1, <3>2 DEF Declared, Specifier, Element
  <2>6. \A l \in DOMAIN body[c] :
           \/ l = <<Root(c), "vtable">>
           \/ \E d \in {c} \cup ancestors[c] : l \in Declared(d)
    BY <2>1, <2>2, <2>3 DEF IsLeaf
  <2>7. \A d \in {c} \cup ancestors[c] : Declared(d) \subseteq DOMAIN body[c]
    BY <2>2, <2>5 DEF IsLeaf
  <2> QED BY <2>4, <2>6, <2>7
<1>2. LayoutInv => EveryFieldHasAPlace
  BY <1>1 DEF EveryFieldHasAPlace
<1> QED BY <1>2, LayoutCorrect, PTL

\* Code compiled for a class finds its fields, and the vtable pointer, in the
\* objects of every subclass.
THEOREM LayoutReached == LayoutSpec => []AccessorsReach
<1>1. ASSUME LayoutInv, NEW c \in laid
      PROVE  /\ \A l \in DOMAIN body[c] : byteOffset[l] = body[c][l]
             /\ \A d \in {c} \cup ancestors[c] :
                  byteOffset[<<d, "vtable">>] = body[c][<<Root(c), "vtable">>]
  BY <1>1, VTableOffset DEF LayoutInv, BodyInv, LeafInv
<1>2. LayoutInv => AccessorsReach
  BY <1>1 DEF AccessorsReach
<1> QED BY <1>2, LayoutCorrect, PTL

-----------------------------------------------------------------------------
(* The heap                                                                *)

VTablePlace(c) == body[c][<<Root(c), "vtable">>]

\* An object has the memory of its class, the vtable pointer of its class, and
\* a value in each of its fields.
ObjectInv(r) ==
    /\ r = [class |-> r.class, bytes |-> r.bytes]
    /\ r.class \in laid
    /\ DOMAIN r.bytes = 0..(size[r.class] - 1)
    /\ Holds(r.bytes, VTablePlace(r.class), Pointer, r.class)
    /\ \A l \in FieldsOf(r.class) :
         \E v \in Value : Holds(r.bytes, byteOffset[l], LeafType(l), v)

HeapInv ==
    /\ heap = [o \in DOMAIN heap |-> heap[o]]
    /\ ~running => DOMAIN heap = {}
    /\ \A o \in DOMAIN heap : ObjectInv(heap[o])

MemoryInv == LayoutInv /\ HeapInv /\ NoOverrun

-----------------------------------------------------------------------------
(* Bytes                                                                   *)

Apart(p, t, q, u) == p + SizeOf[t] <= q \/ q + SizeOf[u] <= p

LEMMA BytesFacts ==
    ASSUME NEW p \in Nat, NEW t \in Type
    PROVE  /\ SizeOf[t] \in Nat \ {0}
           /\ p \in Bytes(p, t)
           /\ \A i : i \in Bytes(p, t) <=> /\ i \in Int /\ p <= i
                                           /\ i < p + SizeOf[t]
<1>1. SizeOf[t] \in Nat \ {0}
  BY TypeAssumption
<1> QED BY <1>1 DEF Bytes

\* The first byte tells which value it belongs to.
LEMMA ByteInjective ==
    ASSUME NEW v, NEW w, Byte(v, 0) = Byte(w, 0)
    PROVE  v = w
  BY DEF Byte

\* What the bytes hold is loaded.
LEMMA LoadHeld ==
    ASSUME NEW m, NEW p \in Nat, NEW t \in Type, NEW v \in Value \cup ClassName,
           Holds(m, p, t, v)
    PROVE  Load(m, p, t) = v
<1>1. p \in Bytes(p, t) /\ p - p = 0
  BY BytesFacts
<1>2. ASSUME NEW w, Holds(m, p, t, w)
      PROVE  w = v
  BY <1>1, <1>2, ByteInjective DEF Holds
<1> QED BY <1>2 DEF Load

\* A store that stays inside the memory is found again.
LEMMA StoreHolds ==
    ASSUME NEW m, NEW p \in Nat, NEW t \in Type, NEW v, Inside(m, p, t)
    PROVE  Holds(Store(m, p, t, v), p, t, v)
  BY DEF Inside, Store, Holds

\* A store changes nothing elsewhere.
LEMMA StoreElsewhere ==
    ASSUME NEW m, NEW p \in Nat, NEW t \in Type, NEW v,
           NEW q \in Nat, NEW u \in Type, NEW w,
           Apart(p, t, q, u), Holds(m, q, u, w)
    PROVE  Holds(Store(m, p, t, v), q, u, w)
<1>1. \A i \in Bytes(q, u) : i \notin Bytes(p, t)
  BY BytesFacts DEF Apart
<1> QED BY <1>1 DEF Holds, Store

\* A place before the end is inside.
LEMMA PlaceInside ==
    ASSUME NEW m, NEW n \in Nat, DOMAIN m = 0..(n - 1),
           NEW p \in Nat, NEW t \in Type, p + SizeOf[t] <= n
    PROVE  Inside(m, p, t)
<1>1. SizeOf[t] \in Nat \ {0}
  BY BytesFacts
<1>2. \A i \in Bytes(p, t) : i \in 0..(n - 1)
  BY <1>1 DEF Bytes
<1> QED BY <1>2 DEF Inside

\* Cleared memory holds zero, whatever the type it is read with.
LEMMA ClearedHolds ==
    ASSUME NEW n \in Nat, NEW p \in Nat, NEW t \in Type, p + SizeOf[t] <= n
    PROVE  /\ DOMAIN Cleared(n) = 0..(n - 1)
           /\ Holds(Cleared(n), p, t, Zero)
<1>1. \A i \in Bytes(p, t) : i \in 0..(n - 1)
  BY BytesFacts
<1> QED BY <1>1 DEF Cleared, Holds, Byte

-----------------------------------------------------------------------------
(* The places of a class                                                   *)

LEMMA VTablePlaceFacts ==
    ASSUME LayoutInv, NEW c \in laid
    PROVE  /\ c \in ClassName /\ size[c] \in Nat
           /\ VTablePlace(c) \in Nat
           /\ VTablePlace(c) + SizeOf[Pointer] <= size[c]
           /\ \A d \in {c} \cup ancestors[c] :
                byteOffset[<<d, "vtable">>] = VTablePlace(c)
<1> DEFINE r == <<Root(c), "vtable">>
<1>1. LeafInv(c) /\ LayoutTypeOK /\ c \in ClassName
  BY DEF LayoutInv, BodyInv, LayoutTypeOK
<1>2. r \in DOMAIN body[c] /\ LeafType(r) = Pointer
  BY VTableOffset DEF LeafType
<1>3. body[c][r] \in Nat /\ size[c] \in Nat
  BY <1>1, <1>2 DEF LayoutTypeOK
<1>4. body[c][r] + SizeOf[Pointer] <= size[c]
  BY <1>1, <1>2 DEF LeafInv, LeafSize
<1> QED BY <1>1, <1>3, <1>4, VTableOffset DEF VTablePlace

LEMMA FieldPlaceFacts ==
    ASSUME LayoutInv, NEW c \in laid, NEW l \in FieldsOf(c)
    PROVE  /\ LeafType(l) \in Type
           /\ byteOffset[l] \in Nat
           /\ byteOffset[l] + SizeOf[LeafType(l)] <= size[c]
           /\ Apart(byteOffset[l], LeafType(l), VTablePlace(c), Pointer)
           /\ Apart(VTablePlace(c), Pointer, byteOffset[l], LeafType(l))
           /\ \A k \in FieldsOf(c) \ {l} :
                Apart(byteOffset[l], LeafType(l), byteOffset[k], LeafType(k))
<1> DEFINE r == <<Root(c), "vtable">>
<1>1. /\ LeafInv(c) /\ LayoutTypeOK /\ c \in ClassName
      /\ ancestors[c] \subseteq ClassName /\ files \in ClassPaths
  BY DEF LayoutInv, BodyInv, LayoutTypeOK
<1>2. r \in DOMAIN body[c] /\ LeafType(r) = Pointer
  BY VTableOffset DEF LeafType
<1>3. \A k \in FieldsOf(c) : k \in DOMAIN body[c] /\ k # r /\ k \in Specifier
  BY <1>1 DEF FieldsOf, LayoutTypeOK
<1>4. \A k \in FieldsOf(c) : byteOffset[k] = body[c][k] /\ body[c][k] \in Nat
  BY <1>1, <1>3 DEF LeafInv, LayoutTypeOK
<1>5. LeafType(l) \in Type
  BY <1>1, <1>3, LeafTyped DEF LeafInv
<1>6. byteOffset[l] + SizeOf[LeafType(l)] <= size[c]
  BY <1>1, <1>3, <1>4 DEF LeafInv, LeafSize
<1>7. \A j, k \in DOMAIN body[c] : j # k =>
         Apart(body[c][j], LeafType(j), body[c][k], LeafType(k))
  BY <1>1 DEF LeafInv, LeafSize, Apart
<1> QED BY <1>2, <1>3, <1>4, <1>5, <1>6, <1>7 DEF VTablePlace

\* What verified code names is a field of the object.
LEMMA NamedField ==
    ASSUME LayoutInv, HeapInv, NEW o \in DOMAIN heap,
           NEW l \in ClassName \X FieldName, HasField(o, l)
    PROVE  heap[o].class \in laid /\ l \in FieldsOf(heap[o].class)
<1> DEFINE c == heap[o].class
<1>1. c \in laid /\ LeafInv(c)
  BY DEF HeapInv, ObjectInv, LayoutInv, BodyInv
<1>2. l \in Specifier /\ l[2] # "vtable"
  BY ElementAssumption DEF Specifier, Element
<1>3. IsLeaf(c, l)
  BY DEF HasField, Kind, IsLeaf
<1> QED BY <1>1, <1>2, <1>3 DEF LeafInv, FieldsOf

\* Nothing about an object depends on anything but the layout.
LEMMA ObjectInvStable ==
    ASSUME UNCHANGED layoutVars, NEW r
    PROVE  ObjectInv(r)' <=> ObjectInv(r)
<1>1. /\ files' = files /\ laid' = laid /\ body' = body /\ size' = size
      /\ ancestors' = ancestors /\ byteOffset' = byteOffset
  BY DEF layoutVars
<1>2. \A c : Root(c)' = Root(c) /\ FieldsOf(c)' = FieldsOf(c)
  BY <1>1 DEF Root, Super, FieldsOf
<1>3. \A l : LeafType(l)' = LeafType(l)
  BY <1>1, LeafTypeStable
<1>4. \A c : VTablePlace(c)' = VTablePlace(c)
  BY <1>1, <1>2 DEF VTablePlace
<1> QED BY <1>1, <1>2, <1>3, <1>4 DEF ObjectInv

-----------------------------------------------------------------------------
(* Objects                                                                 *)

\* A new object has the vtable pointer of its class and zero in its fields.
LEMMA NewObject ==
    ASSUME LayoutInv, NEW c \in laid
    PROVE  LET m == Store(Cleared(size[c]), byteOffset[<<c, "vtable">>], Pointer, c)
           IN /\ Inside(Cleared(size[c]), byteOffset[<<c, "vtable">>], Pointer)
              /\ ObjectInv([class |-> c, bytes |-> m])
              /\ \A l \in FieldsOf(c) : Load(m, byteOffset[l], LeafType(l)) = Zero
<1> DEFINE p == byteOffset[<<c, "vtable">>]
           m == Store(Cleared(size[c]), p, Pointer, c)
<1>1. /\ p = VTablePlace(c) /\ p \in Nat /\ size[c] \in Nat
      /\ p + SizeOf[Pointer] <= size[c] /\ Pointer \in Type
  BY VTablePlaceFacts, TypeAssumption
<1>2. Inside(Cleared(size[c]), p, Pointer)
      /\ DOMAIN Cleared(size[c]) = 0..(size[c] - 1)
  BY <1>1, ClearedHolds, PlaceInside
<1>3. DOMAIN m = 0..(size[c] - 1) /\ Holds(m, VTablePlace(c), Pointer, c)
  BY <1>1, <1>2, StoreHolds DEF Store
<1>4. ASSUME NEW l \in FieldsOf(c)
      PROVE  /\ Holds(m, byteOffset[l], LeafType(l), Zero)
             /\ Load(m, byteOffset[l], LeafType(l)) = Zero
  <2>1. /\ LeafType(l) \in Type /\ byteOffset[l] \in Nat
        /\ byteOffset[l] + SizeOf[LeafType(l)] <= size[c]
        /\ Apart(p, Pointer, byteOffset[l], LeafType(l))
    BY <1>1, FieldPlaceFacts
  <2>2. Holds(Cleared(size[c]), byteOffset[l], LeafType(l), Zero)
    BY <1>1, <2>1, ClearedHolds
  <2>3. Holds(m, byteOffset[l], LeafType(l), Zero)
    BY <1>1, <2>1, <2>2, StoreElsewhere
  <2> QED BY <2>1, <2>3, LoadHeld, ValueAssumption
<1> HIDE DEF m
<1>5. ObjectInv([class |-> c, bytes |-> m])
  BY <1>3, <1>4, ValueAssumption DEF ObjectInv
<1> QED BY <1>2, <1>4, <1>5 DEF m

\* In the bytes m the field l of the object r is v, and all others are as in r.
Updates(m, r, l, v) ==
    /\ Load(m, byteOffset[l], LeafType(l)) = v
    /\ \A k \in FieldsOf(r.class) \ {l} :
         Load(m, byteOffset[k], LeafType(k))
           = Load(r.bytes, byteOffset[k], LeafType(k))

\* An object whose field is set keeps its vtable pointer and its other fields.
LEMMA SetObject ==
    ASSUME LayoutInv, NEW r, ObjectInv(r), NEW l \in FieldsOf(r.class),
           NEW v \in Value,
           NEW m, m = Store(r.bytes, byteOffset[l], LeafType(l), v)
    PROVE  /\ Inside(r.bytes, byteOffset[l], LeafType(l))
           /\ ObjectInv([class |-> r.class, bytes |-> m])
           /\ Updates(m, r, l, v)
<1> DEFINE c == r.class
           p == byteOffset[l]
           t == LeafType(l)
<1>0. m = Store(r.bytes, p, t, v)
  OBVIOUS
<1>1. /\ c \in laid /\ DOMAIN r.bytes = 0..(size[c] - 1)
      /\ Holds(r.bytes, VTablePlace(c), Pointer, c)
      /\ \A k \in FieldsOf(c) :
           \E w \in Value : Holds(r.bytes, byteOffset[k], LeafType(k), w)
  BY DEF ObjectInv
<1>2. /\ t \in Type /\ p \in Nat /\ p + SizeOf[t] <= size[c]
      /\ Apart(p, t, VTablePlace(c), Pointer)
      /\ \A k \in FieldsOf(c) \ {l} : Apart(p, t, byteOffset[k], LeafType(k))
  BY <1>1, FieldPlaceFacts
<1>3. \A k \in FieldsOf(c) : LeafType(k) \in Type /\ byteOffset[k] \in Nat
  BY <1>1, FieldPlaceFacts
<1>4. /\ size[c] \in Nat /\ VTablePlace(c) \in Nat /\ Pointer \in Type
  BY <1>1, VTablePlaceFacts, TypeAssumption
<1> HIDE DEF c, p, t
<1>5. Inside(r.bytes, p, t)
  BY <1>1, <1>2, <1>4, PlaceInside
<1>6. Holds(m, p, t, v) /\ Load(m, p, t) = v
  BY <1>0, <1>2, <1>5, StoreHolds, LoadHeld
<1>7. Holds(m, VTablePlace(c), Pointer, c)
  BY <1>0, <1>1, <1>2, <1>4, StoreElsewhere
<1>8. ASSUME NEW k \in FieldsOf(c) \ {l}
      PROVE  /\ \E w \in Value : Holds(m, byteOffset[k], LeafType(k), w)
             /\ Load(m, byteOffset[k], LeafType(k))
                  = Load(r.bytes, byteOffset[k], LeafType(k))
  <2>1. PICK w \in Value : Holds(r.bytes, byteOffset[k], LeafType(k), w)
    BY <1>1
  <2>2. Holds(m, byteOffset[k], LeafType(k), w)
    BY <1>0, <1>2, <1>3, <2>1, StoreElsewhere
  <2> QED BY <1>3, <2>1, <2>2, LoadHeld
<1>9. DOMAIN m = 0..(size[c] - 1)
  BY <1>0, <1>1 DEF Store
<1>10. ObjectInv([class |-> c, bytes |-> m])
  BY <1>1, <1>6, <1>7, <1>8, <1>9 DEF ObjectInv, p, t
<1>11. Updates(m, r, l, v)
  BY <1>6, <1>8 DEF Updates, p, t, c
<1> QED BY <1>5, <1>10, <1>11 DEF p, t, c

-----------------------------------------------------------------------------
(* Steps                                                                   *)

LEMMA MemoryInitInv == MemoryInit => MemoryInv
<1> SUFFICES ASSUME MemoryInit PROVE MemoryInv
  OBVIOUS
<1>1. DOMAIN heap = {} /\ heap = [o \in DOMAIN heap |-> heap[o]]
  BY DEF MemoryInit
<1> QED BY <1>1, LayoutInit DEF MemoryInit, MemoryInv, HeapInv, NoOverrun

\* The layout does not move once there are objects.
LEMMA FrozenLayout ==
    ASSUME LayoutInv, UNCHANGED layoutVars
    PROVE  LayoutInv'
  BY LayoutStep

LEMMA InstantiateStep ==
    ASSUME MemoryInv, NEW o \in Object, NEW c \in ClassName, Instantiate(o, c)
    PROVE  MemoryInv'
<1> DEFINE p == byteOffset[<<c, "vtable">>]
           m == Store(Cleared(size[c]), p, Pointer, c)
           r == [class |-> c, bytes |-> m]
<1>1. /\ LayoutInv /\ c \in laid /\ UNCHANGED layoutVars /\ running
      /\ o \notin DOMAIN heap /\ running' = running
      /\ heap' = Put(heap, o, r)
      /\ overrun' = (overrun \/ ~Inside(Cleared(size[c]), p, Pointer))
  BY DEF MemoryInv, Instantiate
<1>2. Inside(Cleared(size[c]), p, Pointer) /\ ObjectInv(r)
  BY <1>1, NewObject
<1> HIDE DEF r
<1>3. /\ DOMAIN heap' = DOMAIN heap \cup {o}
      /\ heap' = [q \in DOMAIN heap' |-> heap'[q]]
      /\ \A q \in DOMAIN heap' : heap'[q] = IF q = o THEN r ELSE heap[q]
  BY <1>1 DEF Put
<1>4. \A q \in DOMAIN heap' : ObjectInv(heap'[q])
  BY <1>2, <1>3 DEF MemoryInv, HeapInv
<1>5. \A x : ObjectInv(x) => ObjectInv(x)'
  BY <1>1, ObjectInvStable
<1>6. HeapInv'
  BY <1>1, <1>3, <1>4, <1>5 DEF HeapInv
<1>7. ~overrun'
  BY <1>1, <1>2 DEF MemoryInv, NoOverrun
<1> QED BY <1>1, <1>6, <1>7, FrozenLayout DEF MemoryInv, NoOverrun

LEMMA PutFieldStep ==
    ASSUME MemoryInv, NEW o \in Object, NEW l \in ClassName \X FieldName,
           NEW v \in Value, PutField(o, l, v)
    PROVE  MemoryInv'
<1> DEFINE m == Store(heap[o].bytes, byteOffset[l], LeafType(l), v)
           r == [class |-> heap[o].class, bytes |-> m]
<1>1. /\ LayoutInv /\ HeapInv /\ UNCHANGED layoutVars /\ running
      /\ o \in DOMAIN heap /\ HasField(o, l) /\ running' = running
      /\ heap' = [heap EXCEPT ![o].bytes = m]
      /\ overrun' = (overrun \/ ~Inside(heap[o].bytes, byteOffset[l],
                                        LeafType(l)))
  BY DEF MemoryInv, PutField
<1>2. ObjectInv(heap[o]) /\ l \in FieldsOf(heap[o].class)
  BY <1>1, NamedField DEF HeapInv
<1>3. Inside(heap[o].bytes, byteOffset[l], LeafType(l)) /\ ObjectInv(r)
  BY <1>1, <1>2, SetObject
<1> HIDE DEF m
<1>4. heap[o] = [class |-> heap[o].class, bytes |-> heap[o].bytes]
  BY <1>2 DEF ObjectInv
<1>5. [heap[o] EXCEPT !.bytes = m] = r
  BY <1>4
<1> HIDE DEF r
<1>6. /\ DOMAIN heap' = DOMAIN heap
      /\ heap' = [q \in DOMAIN heap' |-> heap'[q]]
      /\ \A q \in DOMAIN heap' : heap'[q] = IF q = o THEN r ELSE heap[q]
  BY <1>1, <1>5
<1>7. \A q \in DOMAIN heap' : ObjectInv(heap'[q])
  BY <1>1, <1>3, <1>6 DEF HeapInv
<1>8. \A x : ObjectInv(x) => ObjectInv(x)'
  BY <1>1, ObjectInvStable
<1>9. HeapInv'
  BY <1>1, <1>6, <1>7, <1>8 DEF HeapInv
<1>10. ~overrun'
  BY <1>1, <1>3 DEF MemoryInv, NoOverrun
<1> QED BY <1>1, <1>9, <1>10, FrozenLayout DEF MemoryInv, NoOverrun

\* A step that leaves layout and heap alone.
LEMMA HeapStable ==
    ASSUME HeapInv, UNCHANGED layoutVars, heap' = heap, running' = running
    PROVE  HeapInv'
<1>1. \A x : ObjectInv(x) => ObjectInv(x)'
  BY ObjectInvStable
<1> QED BY <1>1 DEF HeapInv

\* A load of a field, or of the vtable pointer, stays inside the object.
LEMMA LoadsInside ==
    ASSUME MemoryInv, NEW o \in DOMAIN heap
    PROVE  /\ \A l \in ClassName \X FieldName : HasField(o, l) =>
                Inside(heap[o].bytes, byteOffset[l], LeafType(l))
           /\ \A d \in Kind(o) : Inside(heap[o].bytes,
                                        byteOffset[<<d, "vtable">>], Pointer)
<1> DEFINE c == heap[o].class
<1>1. /\ LayoutInv /\ HeapInv /\ ObjectInv(heap[o]) /\ c \in laid
      /\ DOMAIN heap[o].bytes = 0..(size[c] - 1)
  BY DEF MemoryInv, HeapInv, ObjectInv
<1>2. ASSUME NEW l \in ClassName \X FieldName, HasField(o, l)
      PROVE  Inside(heap[o].bytes, byteOffset[l], LeafType(l))
  <2>1. l \in FieldsOf(c)
    BY <1>1, <1>2, NamedField
  <2> QED BY <1>1, <2>1, FieldPlaceFacts, VTablePlaceFacts, PlaceInside
<1>3. ASSUME NEW d \in Kind(o)
      PROVE  Inside(heap[o].bytes, byteOffset[<<d, "vtable">>], Pointer)
  <2>1. byteOffset[<<d, "vtable">>] = VTablePlace(c)
    BY <1>1, VTablePlaceFacts DEF Kind
  <2> QED BY <1>1, <2>1, VTablePlaceFacts, PlaceInside, TypeAssumption
<1> QED BY <1>2, <1>3

LEMMA MemoryStep == MemoryInv /\ [MemoryNext]_memoryState => MemoryInv'
<1> SUFFICES ASSUME MemoryInv, [MemoryNext]_memoryState PROVE MemoryInv'
  OBVIOUS
<1>0. LayoutInv /\ HeapInv /\ ~overrun
  BY DEF MemoryInv, NoOverrun
<1>1. CASE Compile
  <2>1. LayoutNext /\ ~running /\ running' = running /\ heap' = heap
        /\ overrun' = overrun
    BY <1>1 DEF Compile, memoryVars
  <2>2. LayoutInv'
    BY <1>0, <2>1, LayoutStep
  <2>3. HeapInv'
    BY <1>0, <2>1 DEF HeapInv
  <2> QED BY <1>0, <2>1, <2>2, <2>3 DEF MemoryInv, NoOverrun
<1>2. CASE Run
  <2>1. UNCHANGED layoutVars /\ heap' = heap /\ overrun' = overrun
        /\ ~running /\ running'
    BY <1>2 DEF Run
  <2>2. \A x : ObjectInv(x) => ObjectInv(x)'
    BY <2>1, ObjectInvStable
  <2>3. HeapInv'
    BY <1>0, <2>1, <2>2 DEF HeapInv
  <2> QED BY <1>0, <2>1, <2>3, FrozenLayout DEF MemoryInv, NoOverrun
<1>3. ASSUME NEW o \in Object, NEW c \in ClassName, LookUpVTable(o, c)
      PROVE  MemoryInv'
  <2>1. /\ o \in DOMAIN heap /\ c \in Kind(o) /\ UNCHANGED layoutVars
        /\ heap' = heap /\ running' = running
        /\ overrun' = (overrun \/ ~Inside(heap[o].bytes,
                                     byteOffset[<<c, "vtable">>], Pointer))
    BY <1>3 DEF LookUpVTable
  <2>2. ~overrun'
    BY <1>0, <2>1, LoadsInside
  <2> QED BY <1>0, <2>1, <2>2, HeapStable, FrozenLayout
          DEF MemoryInv, NoOverrun
<1>4. ASSUME NEW o \in Object, NEW l \in ClassName \X FieldName,
             GetField(o, l)
      PROVE  MemoryInv'
  <2>1. /\ o \in DOMAIN heap /\ HasField(o, l) /\ UNCHANGED layoutVars
        /\ heap' = heap /\ running' = running
        /\ overrun' = (overrun \/ ~Inside(heap[o].bytes, byteOffset[l],
                                          LeafType(l)))
    BY <1>4 DEF GetField
  <2>2. ~overrun'
    BY <1>0, <2>1, LoadsInside
  <2> QED BY <1>0, <2>1, <2>2, HeapStable, FrozenLayout
          DEF MemoryInv, NoOverrun
<1>5. CASE UNCHANGED memoryState
  <2>1. UNCHANGED layoutVars /\ heap' = heap /\ running' = running
        /\ overrun' = overrun
    BY <1>5 DEF memoryState, memoryVars
  <2> QED BY <1>0, <2>1, HeapStable, FrozenLayout DEF MemoryInv, NoOverrun
<1> QED BY <1>1, <1>2, <1>3, <1>4, <1>5, InstantiateStep, PutFieldStep
        DEF MemoryNext, Operate

-----------------------------------------------------------------------------
(* Theorems                                                                *)

\* The invariant holds of every program, however its classes are laid out.
THEOREM MemoryCorrect == MemorySpec => []MemoryInv
  BY MemoryInitInv, MemoryStep, PTL DEF MemorySpec

\* No accessor, thunk or instantiator touches a byte outside of the object it is
\* given, whatever the class of the object.
THEOREM NeverOverruns == MemorySpec => []NoOverrun
<1>1. MemoryInv => NoOverrun
  BY DEF MemoryInv
<1> QED BY <1>1, MemoryCorrect, PTL

-----------------------------------------------------------------------------
(* The bytes implement the objects                                         *)

AbstractFields == [c \in laid |-> FieldsOf(c)]

\* The values that an object in memory stands for.
Values(r) ==
    [l \in FieldsOf(r.class) |-> Load(r.bytes, byteOffset[l], LeafType(l))]

LEMMA AbstractObjectsFacts ==
    AbstractObjects = [o \in DOMAIN heap |->
                         [class |-> heap[o].class, values |-> Values(heap[o])]]
  BY DEF AbstractObjects, Values

LEMMA FieldsStable ==
    ASSUME UNCHANGED layoutVars
    PROVE  /\ laid' = laid /\ AbstractFields' = AbstractFields
           /\ \A c : FieldsOf(c)' = FieldsOf(c)
<1>1. laid' = laid /\ files' = files /\ body' = body
      /\ byteOffset' = byteOffset
  BY DEF layoutVars
<1>2. \A c : FieldsOf(c)' = FieldsOf(c)
  BY <1>1 DEF FieldsOf
<1> QED BY <1>1, <1>2 DEF AbstractFields

LEMMA AbstractObjectsNext ==
    ASSUME UNCHANGED layoutVars
    PROVE  AbstractObjects' =
             [o \in DOMAIN heap' |-> [class |-> heap'[o].class,
                                      values |-> Values(heap'[o])]]
<1>1. files' = files /\ body' = body /\ byteOffset' = byteOffset
  BY DEF layoutVars
<1>2. AbstractObjects' =
        [o \in DOMAIN heap' |->
           [class |-> heap'[o].class,
            values |-> [l \in {l \in DOMAIN body'[heap'[o].class] :
                                 l[2] # "vtable"} |->
                          Load(heap'[o].bytes, byteOffset'[l], LeafType(l)')]]]
  BY DEF AbstractObjects, FieldsOf
<1>3. \A l : LeafType(l)' = LeafType(l)
  BY <1>1, LeafTypeStable
<1> QED BY <1>1, <1>2, <1>3 DEF Values, FieldsOf

LEMMA AbstractInit == MemoryInit => Abstract!Init
<1> SUFFICES ASSUME MemoryInit PROVE Abstract!Init
  OBVIOUS
<1>1. laid = {} /\ DOMAIN heap = {} /\ loaded = None
  BY DEF MemoryInit, Init
<1>2. AbstractFields = [c \in {} |-> {}]
  BY <1>1 DEF AbstractFields
<1>3. AbstractObjects = [o \in {} |-> [class |-> None, values |-> {}]]
  BY <1>1 DEF AbstractObjects
<1> QED BY <1>1, <1>2, <1>3 DEF Abstract!Init, Abstract!NoObjects, AbstractFields

\* Laying out the last element of a class defines the class.
LEMMA CompileImplements ==
    ASSUME MemoryInv, Compile
    PROVE  Abstract!Next \/ UNCHANGED Abstract!objectVars
<1>1. /\ LayoutInv /\ LayoutTypeOK /\ StructInv /\ LayoutNext
      /\ DOMAIN heap = {} /\ heap' = heap /\ loaded' = loaded
  BY DEF MemoryInv, HeapInv, Compile, memoryVars, LayoutInv
<1>2. AbstractObjects' = AbstractObjects
  BY <1>1 DEF AbstractObjects
<1>3. CASE PlaceField \/ SkipStatic
               \/ \E c \in ClassName : LayOutBase(c) \/ LayOutSub(c)
  <2>1. laid' = laid /\ body' = body
    BY <1>3 DEF PlaceField, SkipStatic, LayOutBase, LayOutSub
  <2>2. AbstractFields' = AbstractFields
    BY <2>1 DEF AbstractFields, FieldsOf
  <2> QED BY <1>1, <1>2, <2>2 DEF Abstract!objectVars, AbstractFields
<1>4. CASE FinishLayout
  <2> DEFINE own == DOMAIN struct.at \cap FieldName
             s == Super(cur)
  <2>1. /\ cur \in ClassName /\ cur \notin laid /\ laid' = laid \cup {cur}
        /\ laid \subseteq ClassName
        /\ body' = [body EXCEPT ![cur] = Leaves]
        /\ DOMAIN struct.at \subseteq Element
        /\ DOMAIN body = ClassName
    BY <1>1, <1>4 DEF FinishLayout, LayoutTypeOK, StructInv
  <2>2. /\ \A c \in laid : body'[c] = body[c]
        /\ body'[cur] = Leaves
    BY <2>1
  <2>3. DOMAIN Leaves = OwnLeaves \cup DOMAIN Inherited
    BY DEF Leaves
  <2>4. {l \in OwnLeaves : l[2] # "vtable"} = {cur} \X own
    BY <2>1, ElementAssumption DEF OwnLeaves, Element
  <2>5. ASSUME NEW inh,
               inh = {l \in DOMAIN Inherited : l[2] # "vtable"}
        PROVE  Abstract!Define(cur, inh, own)
    <3>1. \A c : c = cur => FieldsOf(c)' = inh \cup ({cur} \X own)
      BY <2>2, <2>3, <2>4, <2>5 DEF FieldsOf
    <3>2. \A c \in laid : FieldsOf(c)' = FieldsOf(c)
      BY <2>2 DEF FieldsOf
    <3>3. AbstractFields' =
            [d \in DOMAIN AbstractFields \cup {cur} |->
               IF d = cur THEN inh \cup ({cur} \X own)
               ELSE AbstractFields[d]]
      BY <2>1, <3>1, <3>2 DEF AbstractFields
    <3> QED BY <1>1, <1>2, <2>1, <3>3 DEF Abstract!Define, AbstractFields
  <2>6. own \in SUBSET FieldName /\ cur \in ClassName \ DOMAIN AbstractFields
    BY <2>1 DEF AbstractFields
  <2>7. CASE "super" \in DOMAIN struct.at
    <3>1. s \in laid
      BY <1>1, <2>1, <2>7, ElementAssumption, NoneAssumption
         DEF StructInv, First, Placed
    <3>2. {l \in DOMAIN Inherited : l[2] # "vtable"} = AbstractFields[s]
      BY <2>7, <3>1 DEF Inherited, AbstractFields, FieldsOf
    <3>3. Abstract!Define(cur, AbstractFields[s], own)
      BY <2>5, <3>2
    <3> QED BY <2>6, <3>1, <3>3 DEF Abstract!Next, AbstractFields
  <2>8. CASE "super" \notin DOMAIN struct.at
    <3>1. {l \in DOMAIN Inherited : l[2] # "vtable"} = {}
      BY <2>8 DEF Inherited, EmptyMap
    <3>2. Abstract!Define(cur, {}, own)
      BY <2>5, <3>1
    <3> QED BY <2>6, <3>2 DEF Abstract!Next, AbstractFields
  <2> QED BY <2>7, <2>8
<1> QED BY <1>1, <1>3, <1>4 DEF LayoutNext

LEMMA InstantiateImplements ==
    ASSUME MemoryInv, NEW o \in Object, NEW c \in ClassName, Instantiate(o, c)
    PROVE  Abstract!New(o, c)
<1> DEFINE p == byteOffset[<<c, "vtable">>]
           m == Store(Cleared(size[c]), p, Pointer, c)
           r == [class |-> c, bytes |-> m]
<1>1. /\ LayoutInv /\ c \in laid /\ UNCHANGED layoutVars
      /\ o \notin DOMAIN heap /\ loaded' = loaded
      /\ heap' = Put(heap, o, r)
  BY DEF MemoryInv, Instantiate
<1>2. \A l \in FieldsOf(c) : Load(m, byteOffset[l], LeafType(l)) = Zero
  BY <1>1, NewObject
<1> HIDE DEF m
<1>3. r.class = c /\ Values(r) = [l \in FieldsOf(c) |-> Zero]
  BY <1>2 DEF Values
<1> HIDE DEF r
<1>4. /\ DOMAIN heap' = DOMAIN heap \cup {o}
      /\ \A q \in DOMAIN heap' : heap'[q] = IF q = o THEN r ELSE heap[q]
  BY <1>1 DEF Put
<1>5. AbstractObjects' =
        [q \in DOMAIN AbstractObjects \cup {o} |->
           IF q = o THEN [class |-> c, values |-> [l \in AbstractFields[c] |-> Zero]]
           ELSE AbstractObjects[q]]
  <2>1. AbstractObjects' =
          [q \in DOMAIN heap' |-> [class |-> heap'[q].class,
                                   values |-> Values(heap'[q])]]
    BY <1>1, AbstractObjectsNext
  <2>3. AbstractFields[c] = FieldsOf(c)
    BY <1>1 DEF AbstractFields
  <2> QED BY <1>1, <1>3, <1>4, <2>1, <2>3, AbstractObjectsFacts
<1>6. AbstractFields' = AbstractFields
  BY <1>1, FieldsStable
<1>7. o \notin DOMAIN AbstractObjects /\ c \in DOMAIN AbstractFields
  BY <1>1 DEF AbstractObjects, AbstractFields
<1> QED BY <1>1, <1>5, <1>6, <1>7 DEF Abstract!New, AbstractFields

LEMMA PutFieldImplements ==
    ASSUME MemoryInv, NEW o \in Object, NEW l \in ClassName \X FieldName,
           NEW v \in Value, PutField(o, l, v)
    PROVE  Abstract!Set(o, l, v)
<1> DEFINE m == Store(heap[o].bytes, byteOffset[l], LeafType(l), v)
           r == [class |-> heap[o].class, bytes |-> m]
<1>1. /\ LayoutInv /\ HeapInv /\ UNCHANGED layoutVars /\ o \in DOMAIN heap
      /\ HasField(o, l) /\ loaded' = loaded
      /\ heap' = [heap EXCEPT ![o].bytes = m]
  BY DEF MemoryInv, PutField
<1>2. ObjectInv(heap[o]) /\ l \in FieldsOf(heap[o].class)
  BY <1>1, NamedField DEF HeapInv
<1>3. /\ Load(m, byteOffset[l], LeafType(l)) = v
      /\ \A k \in FieldsOf(heap[o].class) \ {l} :
           Load(m, byteOffset[k], LeafType(k))
             = Load(heap[o].bytes, byteOffset[k], LeafType(k))
  <2>1. Updates(m, heap[o], l, v)
    BY <1>1, <1>2, SetObject
  <2> QED BY <2>1 DEF Updates
<1> HIDE DEF m
<1>4. r.class = heap[o].class
      /\ Values(r) = [Values(heap[o]) EXCEPT ![l] = v]
  BY <1>2, <1>3 DEF Values
<1>5. heap[o] = [class |-> heap[o].class, bytes |-> heap[o].bytes]
  BY <1>2 DEF ObjectInv
<1>6. [heap[o] EXCEPT !.bytes = m] = r
  BY <1>5
<1> HIDE DEF r
<1>7. /\ DOMAIN heap' = DOMAIN heap
      /\ \A q \in DOMAIN heap' : heap'[q] = IF q = o THEN r ELSE heap[q]
  BY <1>1, <1>6
<1>8. AbstractObjects' = [AbstractObjects EXCEPT ![o].values[l] = v]
  <2>1. AbstractObjects' =
          [q \in DOMAIN heap |-> [class |-> heap[q].class,
                                  values |-> IF q = o THEN Values(r)
                                             ELSE Values(heap[q])]]
    BY <1>1, <1>4, <1>7, AbstractObjectsNext
  <2>2. [AbstractObjects EXCEPT ![o].values[l] = v] =
          [q \in DOMAIN heap |->
             IF q = o
             THEN [class |-> heap[o].class,
                   values |-> [Values(heap[o]) EXCEPT ![l] = v]]
             ELSE [class |-> heap[q].class, values |-> Values(heap[q])]]
    <3>1. \A q \in DOMAIN heap : AbstractObjects[q] =
             [class |-> heap[q].class, values |-> Values(heap[q])]
      BY AbstractObjectsFacts
    <3>2. DOMAIN AbstractObjects = DOMAIN heap
      BY AbstractObjectsFacts
    <3>3. [AbstractObjects EXCEPT ![o].values[l] = v] =
            [q \in DOMAIN AbstractObjects |->
               IF q = o
               THEN [AbstractObjects[o] EXCEPT
                       !.values = [AbstractObjects[o].values EXCEPT ![l] = v]]
               ELSE AbstractObjects[q]]
      OBVIOUS
    <3>4. [AbstractObjects[o] EXCEPT
             !.values = [AbstractObjects[o].values EXCEPT ![l] = v]] =
            [class |-> heap[o].class,
             values |-> [Values(heap[o]) EXCEPT ![l] = v]]
      <4>1. ASSUME NEW X, NEW C, NEW V, X = [class |-> C, values |-> V]
            PROVE  [X EXCEPT !.values = [X.values EXCEPT ![l] = v]]
                     = [class |-> C, values |-> [V EXCEPT ![l] = v]]
        <5>1. X.values = V
          BY <4>1
        <5>2. ASSUME NEW W
              PROVE  [X EXCEPT !.values = W] = [class |-> C, values |-> W]
          BY <4>1
        <5> QED BY <5>1, <5>2
      <4>2. AbstractObjects[o] = [class |-> heap[o].class,
                                  values |-> Values(heap[o])]
        BY <1>1, <3>1
      <4> QED BY <4>1, <4>2, Zenon
    <3> QED BY <3>1, <3>2, <3>3, <3>4
  <2> QED BY <1>4, <2>1, <2>2
<1>9. AbstractFields' = AbstractFields
  BY <1>1, FieldsStable
<1>10. o \in DOMAIN AbstractObjects /\ l \in DOMAIN AbstractObjects[o].values
  BY <1>1, <1>2, AbstractObjectsFacts DEF Values
<1> QED BY <1>1, <1>8, <1>9, <1>10 DEF Abstract!Set, AbstractFields

\* A step that only loads.
LEMMA LoadsImplement ==
    ASSUME UNCHANGED layoutVars, heap' = heap
    PROVE  AbstractObjects' = AbstractObjects /\ AbstractFields' = AbstractFields
  BY AbstractObjectsNext, AbstractObjectsFacts, FieldsStable

LEMMA GetFieldImplements ==
    ASSUME MemoryInv, NEW o \in Object, NEW l \in ClassName \X FieldName,
           GetField(o, l)
    PROVE  Abstract!Get(o, l)
<1>1. /\ LayoutInv /\ HeapInv /\ UNCHANGED layoutVars /\ o \in DOMAIN heap
      /\ HasField(o, l) /\ heap' = heap
      /\ loaded' = Load(heap[o].bytes, byteOffset[l], LeafType(l))
  BY DEF MemoryInv, GetField
<1>2. l \in FieldsOf(heap[o].class)
  BY <1>1, NamedField
<1>3. /\ o \in DOMAIN AbstractObjects /\ l \in DOMAIN AbstractObjects[o].values
      /\ loaded' = AbstractObjects[o].values[l]
  BY <1>1, <1>2, AbstractObjectsFacts DEF Values
<1> QED BY <1>1, <1>3, LoadsImplement DEF Abstract!Get, AbstractFields

LEMMA LookUpImplements ==
    ASSUME MemoryInv, NEW o \in Object, NEW d \in ClassName, LookUpVTable(o, d)
    PROVE  Abstract!Dispatch(o)
<1> DEFINE c == heap[o].class
<1>1. /\ LayoutInv /\ HeapInv /\ UNCHANGED layoutVars /\ o \in DOMAIN heap
      /\ d \in {c} \cup ancestors[c] /\ heap' = heap
      /\ loaded' = Load(heap[o].bytes, byteOffset[<<d, "vtable">>], Pointer)
  BY DEF MemoryInv, LookUpVTable, Kind
<1>2. c \in laid /\ Holds(heap[o].bytes, VTablePlace(c), Pointer, c)
  BY <1>1 DEF HeapInv, ObjectInv
<1>3. /\ c \in ClassName /\ VTablePlace(c) \in Nat /\ Pointer \in Type
      /\ byteOffset[<<d, "vtable">>] = VTablePlace(c)
  BY <1>1, <1>2, VTablePlaceFacts, TypeAssumption
<1>4. loaded' = c
  BY <1>1, <1>2, <1>3, LoadHeld
<1>5. o \in DOMAIN AbstractObjects /\ AbstractObjects[o].class = c
  BY <1>1, AbstractObjectsFacts
<1> QED BY <1>1, <1>4, <1>5, LoadsImplement DEF Abstract!Dispatch, AbstractFields

LEMMA StepImplements ==
    MemoryInv /\ [MemoryNext]_memoryState => [Abstract!Next]_(Abstract!objectVars)
<1> SUFFICES ASSUME MemoryInv, [MemoryNext]_memoryState
             PROVE  [Abstract!Next]_(Abstract!objectVars)
  OBVIOUS
<1>1. CASE Compile
  BY <1>1, CompileImplements
<1>2. ASSUME UNCHANGED layoutVars, heap' = heap, loaded' = loaded
      PROVE  UNCHANGED Abstract!objectVars
  BY <1>2, LoadsImplement DEF Abstract!objectVars, AbstractFields
<1>3. CASE Run
  BY <1>2, <1>3 DEF Run
<1>4. CASE UNCHANGED memoryState
  BY <1>2, <1>4 DEF memoryState, memoryVars
<1>5. CASE Operate
  BY <1>5, InstantiateImplements, PutFieldImplements, GetFieldImplements,
     LookUpImplements DEF Operate, Abstract!Next
<1> QED BY <1>1, <1>3, <1>4, <1>5 DEF MemoryNext

\* The memory of the program implements objects with fields: every run of it is
\* one of Objects, for all class files, types, alignments, objects and values.
THEOREM MemoryImplementsObjects == MemorySpec => BehavesAsObjects
<1>1. MemorySpec => Abstract!Spec
  BY MemoryCorrect, AbstractInit, StepImplements, PTL
     DEF MemorySpec, Abstract!Spec
<1> QED BY <1>1 DEF BehavesAsObjects

-----------------------------------------------------------------------------
(* Casts: the invariant of the layout, and where the walk is between the   *)
(* lower of the two classes and the goal.                                  *)

\* Where the walk begins, and what it looks for.
Lower == IF Downcast THEN dest ELSE source
Upper == IF Downcast THEN source ELSE dest

Lineage(c) == {c} \cup ancestors[c]

\* The walk has not left the lineage of the lower class, and it has not missed
\* the goal.  No offset is anything but zero: the super struct comes first.
WalkInv ==
    /\ verdict \in {"none", "walking", "done", "unrelated"}
    /\ offset = 0
    /\ verdict # "none" =>
         /\ cur = None
         /\ source \in ClassName /\ dest \in ClassName /\ at \in ClassName
         /\ goal = Upper
         /\ Lineage(at) \subseteq Lineage(Lower)
         /\ goal \in Lineage(Lower) => goal \in Lineage(at)
    /\ verdict = "done" => at = goal
    /\ verdict = "unrelated" => at # goal /\ ancestors[at] = {}

\* A class that is not laid out has no leaves.
NoBody == \A c \in ClassName \ laid : DOMAIN body[c] = {}

CastInv == LayoutInv /\ NoBody /\ WalkInv

LEMMA CastInvInit == CastInit => CastInv
<1> SUFFICES ASSUME CastInit PROVE CastInv
  OBVIOUS
<1>1. LayoutInv
  BY LayoutInit DEF CastInit
<1>2. NoBody
  BY DEF CastInit, Init, NoBody, EmptyMap
<1> QED BY <1>1, <1>2 DEF CastInit, CastInv, WalkInv

LEMMA NoBodyStep == LayoutTypeOK /\ NoBody /\ [LayoutNext]_layoutVars => NoBody'
<1> SUFFICES ASSUME LayoutTypeOK, NoBody, [LayoutNext]_layoutVars PROVE NoBody'
  OBVIOUS
<1>1. CASE UNCHANGED <<laid, body>>
  BY <1>1 DEF NoBody
<1>2. CASE FinishLayout
  BY <1>2 DEF FinishLayout, NoBody, LayoutTypeOK
<1> QED BY <1>1, <1>2 DEF LayoutNext, LayOutBase, LayOutSub, PlaceField,
           SkipStatic, layoutVars

\* What a class of the walk extends, when no layout is under way.
LEMMA LineageFacts ==
    ASSUME LayoutTypeOK, LineageInv, cur = None, NEW c \in ClassName
    PROVE  /\ c \notin laid => ancestors[c] = {}
           /\ SuperClass(c) = None => ancestors[c] = {}
           /\ SuperClass(c) # None =>
                 /\ SuperClass(c) \in ClassName
                 /\ ancestors[c] = Lineage(SuperClass(c))
                 /\ byteOffset[<<c, "super">>] = 0
<1>1. c \notin laid => ancestors[c] = {}
  BY NoneAssumption DEF LineageInv
<1>2. c \in laid => SuperClass(c) = Super(c) /\ Linked(c)
  BY DEF SuperClass, LineageInv
<1>3. c \notin laid => SuperClass(c) = None
  BY DEF SuperClass
<1>4. laid \subseteq ClassName
  BY DEF LayoutTypeOK
<1> QED BY <1>1, <1>2, <1>3, <1>4 DEF Linked, Lineage, LineageInv

\* The walk goes up one class.
LEMMA WalkUpKeeps == CastInv /\ WalkUp => WalkInv'
<1> SUFFICES ASSUME CastInv, WalkUp PROVE WalkInv'
  OBVIOUS
<1>1. /\ LayoutTypeOK /\ LineageInv /\ cur = None /\ at \in ClassName
      /\ WalkInv
  BY DEF CastInv, LayoutInv, WalkInv, WalkUp
<1>2. /\ SuperClass(at) \in ClassName
      /\ ancestors[at] = Lineage(SuperClass(at))
      /\ byteOffset[<<at, "super">>] = 0
  BY <1>1, LineageFacts DEF WalkUp
<1>3. /\ UNCHANGED <<cur, laid, ancestors, source, dest, goal, verdict>>
      /\ at' = SuperClass(at)
      /\ offset' = 0
  BY <1>1, <1>2 DEF WalkUp, layoutVars, WalkInv
<1>4. Lower' = Lower /\ Upper' = Upper
  BY <1>3 DEF Lower, Upper, Downcast, IsSubClassOf
<1>5. Lineage(SuperClass(at)) \subseteq Lineage(Lower)
  BY <1>1, <1>2 DEF WalkInv, WalkUp, Lineage
<1>6. goal \in Lineage(Lower) => goal \in Lineage(SuperClass(at))
  BY <1>1, <1>2 DEF WalkInv, WalkUp, Lineage
<1>7. Lineage(Lower)' = Lineage(Lower) /\ Lineage(at)' = Lineage(SuperClass(at))
  BY <1>3, <1>4 DEF Lineage
<1> QED BY <1>1, <1>2, <1>3, <1>4, <1>5, <1>6, <1>7 DEF WalkInv, WalkUp

LEMMA CastInvStep == CastInv /\ [CastNext]_castState => CastInv'
<1> SUFFICES ASSUME CastInv, [CastNext]_castState PROVE CastInv'
  OBVIOUS
<1>1. LayoutInv /\ NoBody /\ WalkInv /\ LayoutTypeOK /\ LineageInv
  BY DEF CastInv, LayoutInv
<1>2. [LayoutNext]_layoutVars
  BY DEF CastNext, LayOut, StartCast, Walk, WalkUp, WalkFails, WalkEnds,
         castState
<1>3. LayoutInv' /\ NoBody'
  BY <1>1, <1>2, LayoutStep, NoBodyStep
<1> SUFFICES WalkInv'
  BY <1>3 DEF CastInv
<1>4. ASSUME UNCHANGED layoutVars, UNCHANGED <<source, dest>>
      PROVE  Lower' = Lower /\ Upper' = Upper
             /\ \A c : Lineage(c)' = Lineage(c)
  BY <1>4 DEF layoutVars, Lower, Upper, Downcast, IsSubClassOf, Lineage
<1>5. CASE LayOut
  BY <1>1, <1>5 DEF LayOut, castVars, WalkInv
<1>6. ASSUME NEW c \in ClassName, NEW d \in ClassName, StartCast(c, d)
      PROVE  WalkInv'
  <2>1. /\ source' = c /\ dest' = d /\ UNCHANGED <<laid, ancestors, cur>>
        /\ at' = Lower' /\ goal' = Upper' /\ offset' = 0
        /\ verdict' = "walking" /\ cur = None
    BY <1>6 DEF StartCast, layoutVars, Lower, Upper, Downcast, IsSubClassOf
  <2>2. at' \in ClassName
    BY <1>6 DEF StartCast
  <2> QED BY <2>1, <2>2 DEF WalkInv, Lineage
<1>7. CASE WalkUp
  BY <1>7, WalkUpKeeps
<1>8. CASE WalkFails
  <2>1. ancestors[at] = {}
    BY <1>1, <1>8, LineageFacts DEF WalkFails, WalkInv
  <2>2. UNCHANGED <<cur, ancestors, source, dest, at, goal, offset>>
        /\ UNCHANGED layoutVars /\ verdict' = "unrelated" /\ at # goal
        /\ verdict = "walking"
    BY <1>8 DEF WalkFails, layoutVars
  <2>3. Lower' = Lower /\ Upper' = Upper
        /\ Lineage(Lower)' = Lineage(Lower) /\ Lineage(at)' = Lineage(at)
    BY <1>4, <2>2 DEF Lineage
  <2> QED BY <1>1, <2>1, <2>2, <2>3 DEF WalkInv
<1>9. CASE WalkEnds
  <2>0. offset = 0 /\ offset' = IF Downcast THEN 0 - offset ELSE offset
    BY <1>1, <1>9 DEF WalkEnds, WalkInv
  <2>1. UNCHANGED <<cur, ancestors, source, dest, at, goal>>
        /\ UNCHANGED layoutVars /\ verdict' = "done" /\ at = goal
        /\ verdict = "walking" /\ offset' = 0
    BY <1>9, <2>0 DEF WalkEnds, layoutVars
  <2>2. Lower' = Lower /\ Upper' = Upper
        /\ Lineage(Lower)' = Lineage(Lower) /\ Lineage(at)' = Lineage(at)
    BY <1>4, <2>1 DEF Lineage
  <2> QED BY <1>1, <2>1, <2>2 DEF WalkInv
<1>10. CASE UNCHANGED castState
  <2>1. UNCHANGED <<cur, ancestors, source, dest, at, goal, offset, verdict>>
        /\ UNCHANGED layoutVars
    BY <1>10 DEF castState, layoutVars, castVars
  <2>2. Lower' = Lower /\ Upper' = Upper
        /\ Lineage(Lower)' = Lineage(Lower) /\ Lineage(at)' = Lineage(at)
    BY <1>4, <2>1 DEF Lineage
  <2> QED BY <1>1, <2>1, <2>2 DEF WalkInv
<1> QED BY <1>5, <1>6, <1>7, <1>8, <1>9, <1>10 DEF CastNext, Walk

\* The leaves that two classes share have one offset in both.
LEMMA SharedLeaves ==
    ASSUME LayoutInv, NoBody, NEW c \in ClassName, NEW d \in ClassName,
           NEW l \in DOMAIN body[c] \cap DOMAIN body[d]
    PROVE  body[d][l] + 0 = body[c][l]
<1>1. c \in laid /\ d \in laid
  BY DEF NoBody
<1>2. body[c][l] = byteOffset[l] /\ body[d][l] = byteOffset[l]
  BY <1>1 DEF LayoutInv, BodyInv, LeafInv
<1>3. body[d][l] \in Nat
  BY DEF LayoutInv, LayoutTypeOK
<1> QED BY <1>2, <1>3

\* class.cc, GetCastOffset: a cast leads to the leaves that both classes have,
\* and is refused if and only if neither extends the other.
THEOREM CastsAlwaysCorrect == CastSpec => []CastCorrect
<1>1. CastInv => CastCorrect
  <2> SUFFICES ASSUME CastInv PROVE CastCorrect
    OBVIOUS
  <2> DEFINE related == \/ source = dest
                        \/ IsSubClassOf(source, dest)
                        \/ IsSubClassOf(dest, source)
  <2>1. LayoutInv /\ NoBody /\ WalkInv /\ LayoutTypeOK /\ LineageInv
    BY DEF CastInv, LayoutInv
  <2>2. ASSUME verdict # "none"
        PROVE  related <=> goal \in Lineage(Lower)
    <3>1. /\ cur = None /\ goal = Upper
          /\ source \in ClassName /\ dest \in ClassName
      BY <2>1, <2>2 DEF WalkInv
    <3>2. \A c \in ClassName : c \notin laid => ancestors[c] = {}
      BY <2>1, <3>1, LineageFacts
    <3> QED BY <3>1, <3>2 DEF Lineage, Lower, Upper, Downcast, IsSubClassOf
  <2>3. ASSUME verdict = "unrelated"
        PROVE  ~related
    BY <2>1, <2>2, <2>3 DEF WalkInv, Lineage
  <2>4. ASSUME verdict = "done"
        PROVE  related
    BY <2>1, <2>2, <2>4 DEF WalkInv, Lineage
  <2>5. ASSUME verdict = "done",
               NEW l \in DOMAIN body[source] \cap DOMAIN body[dest]
        PROVE  body[dest][l] + offset = body[source][l]
    <3>1. source \in ClassName /\ dest \in ClassName /\ offset = 0
      BY <2>1, <2>5 DEF WalkInv
    <3> QED BY <2>1, <2>5, <3>1, SharedLeaves
  <2> QED BY <2>3, <2>4, <2>5 DEF CastCorrect
<1> QED BY <1>1, CastInvInit, CastInvStep, PTL DEF CastSpec
=============================================================================
