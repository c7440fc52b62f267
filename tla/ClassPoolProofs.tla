--------------------------- MODULE ClassPoolProofs ---------------------------
(***************************************************************************)
(* Proofs about ClassPool, for any class path, any hierarchy (circular and *)
(* broken ones included) and any sequence of roots.                        *)
(***************************************************************************)
EXTENDS ClassPool, SequenceTheorems, TLAPS

-----------------------------------------------------------------------------
(* The operations on one vtable                                            *)

\* The vtable of a base class is well formed.
LEMMA EmptyVTableOK ==
    /\ IsVTable(EmptyVTable)
    /\ Coherent(EmptyVTable)
  BY DEF IsVTable, Coherent, EmptyVTable

\* Copying a vtable, as a subclass does, yields the same slots and the same
\* map: re-entering the keys one by one loses none and merges none.
LEMMA CopyVTableOK ==
    ASSUME NEW vt, IsVTable(vt), Coherent(vt)
    PROVE  CopyVTable(vt) = vt
<1>1. KeysOf(vt.entries) = DOMAIN vt.methods
  <2>1. ASSUME NEW k \in DOMAIN vt.methods
        PROVE  /\ vt.methods[k] + 1 \in DOMAIN vt.entries
               /\ vt.entries[vt.methods[k] + 1].key = k
    BY DEF Coherent, IsVTable
  <2>2. DOMAIN vt.methods \subseteq KeysOf(vt.entries)
    BY <2>1 DEF KeysOf
  <2>3. KeysOf(vt.entries) \subseteq DOMAIN vt.methods
    BY DEF KeysOf, Coherent
  <2> QED BY <2>2, <2>3
<1>2. ASSUME NEW k \in DOMAIN vt.methods
      PROVE  FirstOf(vt.entries, k) - 1 = vt.methods[k]
  <2> DEFINE First(i) == /\ vt.entries[i].key = k
                         /\ \A j \in DOMAIN vt.entries :
                               vt.entries[j].key = k => i <= j
             p == vt.methods[k] + 1
  <2>1. vt.methods[k] \in Nat /\ DOMAIN vt.entries = 1..Len(vt.entries)
        /\ Len(vt.entries) \in Nat
    BY DEF IsVTable
  <2>2. \A j \in DOMAIN vt.entries : vt.entries[j].key = k => j = p
    BY <2>1 DEF Coherent
  <2>3. p \in DOMAIN vt.entries /\ First(p)
    BY <2>1, <2>2 DEF Coherent
  <2>4. \A j \in DOMAIN vt.entries : First(j) => j = p
    BY <2>2
  <2>5. FirstOf(vt.entries, k) = CHOOSE i \in DOMAIN vt.entries : First(i)
    BY DEF FirstOf
  <2>6. p - 1 = vt.methods[k]
    BY <2>1
  <2> HIDE DEF First, p
  <2>7. (CHOOSE i \in DOMAIN vt.entries : First(i)) = p
    BY <2>3, <2>4
  <2> QED BY <2>5, <2>6, <2>7
<1>3. CopyVTable(vt).methods = vt.methods
  BY <1>1, <1>2 DEF CopyVTable, IsVTable
<1> QED BY <1>3 DEF CopyVTable, IsVTable

\* Every slot of base is a slot of vt, at the same place and for the same key.
Extends(vt, base) ==
    /\ Len(base.entries) <= Len(vt.entries)
    /\ \A i \in 1..Len(base.entries) : vt.entries[i].key = base.entries[i].key

\* Overriding a slot keeps the vtable well formed and moves no slot.
LEMMA ReplaceSlotOK ==
    ASSUME NEW vt, IsVTable(vt), Coherent(vt),
           NEW k \in MethodKey, HasMethod(vt, k), NEW c \in ClassName
    PROVE  LET w == ReplaceSlot(vt, k, c)
           IN IsVTable(w) /\ Coherent(w) /\ Extends(w, vt) 
              /\ w.methods = vt.methods
<1> DEFINE w == ReplaceSlot(vt, k, c)
           p == vt.methods[k] + 1
           s == [class |-> c, key |-> k]
<1>1. /\ w = [entries |-> [vt.entries EXCEPT ![p] = s],
              methods |-> vt.methods]
      /\ s \in Slot
  BY DEF ReplaceSlot, IsVTable, Slot
<1>2. p \in 1..Len(vt.entries) /\ vt.entries[p].key = k
  BY DEF IsVTable, Coherent, HasMethod
<1>3. /\ [vt.entries EXCEPT ![p] = s] \in Seq(Slot)
      /\ Len([vt.entries EXCEPT ![p] = s]) = Len(vt.entries)
      /\ \A i \in 1..Len(vt.entries) :
            [vt.entries EXCEPT ![p] = s][i].key = vt.entries[i].key
  BY <1>1, <1>2, ExceptSeq DEF IsVTable
<1> DEFINE e == [vt.entries EXCEPT ![p] = s]
<1>4. w.entries = e /\ w.methods = vt.methods
  BY <1>1
<1> HIDE DEF e, w
<1>5. IsVTable(w)
  BY <1>1, <1>3, <1>4 DEF IsVTable, e, w
<1>6. Coherent(w)
  BY <1>2, <1>3, <1>4 DEF IsVTable, Coherent, e
<1>7. Extends(w, vt)
  BY <1>3, <1>4 DEF Extends, e, IsVTable
<1> QED BY <1>4, <1>5, <1>6, <1>7 DEF w

\* A new slot goes behind the others, which stay where they are.
LEMMA AppendSlotOK ==
    ASSUME NEW vt, IsVTable(vt), Coherent(vt),
           NEW k \in MethodKey, ~HasMethod(vt, k), NEW c \in ClassName
    PROVE  LET w == AppendSlot(vt, k, c)
           IN IsVTable(w) /\ Coherent(w) /\ Extends(w, vt)
              /\ DOMAIN w.methods = DOMAIN vt.methods \cup {k}
<1> DEFINE w == AppendSlot(vt, k, c)
           s == [class |-> c, key |-> k]
           e == Append(vt.entries, s)
           f == Put(vt.methods, k, Len(vt.entries))
<1>1. w.entries = e /\ w.methods = f /\ w = [entries |-> e, methods |-> f]
  BY DEF AppendSlot
<1>2. s \in Slot /\ s.key = k
  BY DEF Slot
<1>3. /\ e \in Seq(Slot)
      /\ Len(e) = Len(vt.entries) + 1
      /\ e[Len(vt.entries) + 1] = s
      /\ \A i \in 1..Len(vt.entries) : e[i] = vt.entries[i]
      /\ Len(vt.entries) \in Nat
      /\ DOMAIN e = 1..Len(vt.entries) + 1
      /\ DOMAIN vt.entries = 1..Len(vt.entries)
  BY <1>2, AppendProperties DEF IsVTable
<1>4. /\ DOMAIN f = DOMAIN vt.methods \cup {k}
      /\ f[k] = Len(vt.entries)
      /\ \A x \in DOMAIN vt.methods : f[x] = vt.methods[x]
      /\ f \in [DOMAIN f -> Nat]
  BY <1>3 DEF Put, HasMethod, IsVTable
<1> HIDE DEF e, f, w, s
<1>5. IsVTable(w)
  BY <1>1, <1>3, <1>4 DEF IsVTable
<1>6. Extends(w, vt)
  BY <1>1, <1>3 DEF Extends
<1>7. Coherent(w)
  <2>1. \A x \in DOMAIN f : f[x] < Len(e) /\ e[f[x] + 1].key = x
    <3>1. f[k] < Len(e) /\ e[f[k] + 1].key = k
      BY <1>2, <1>3, <1>4
    <3>2. ASSUME NEW x \in DOMAIN vt.methods
          PROVE  f[x] < Len(e) /\ e[f[x] + 1].key = x
      <4>1. f[x] = vt.methods[x] /\ vt.methods[x] \in Nat
        BY <1>4 DEF IsVTable
      <4>2. vt.methods[x] < Len(vt.entries)
            /\ vt.entries[vt.methods[x] + 1].key = x
        BY DEF Coherent
      <4>3. f[x] + 1 \in 1..Len(vt.entries)
        BY <1>3, <4>1, <4>2
      <4> QED BY <1>3, <4>1, <4>2, <4>3
    <3> QED BY <3>1, <3>2, <1>4
  <2>2. ASSUME NEW i \in DOMAIN e
        PROVE  e[i].key \in DOMAIN f /\ f[e[i].key] = i - 1
    <3>1. CASE i \in DOMAIN vt.entries
      BY <3>1, <1>3, <1>4 DEF Coherent
    <3>2. CASE i = Len(vt.entries) + 1
      BY <3>2, <1>2, <1>3, <1>4
    <3> QED BY <3>1, <3>2, <1>3
  <2> QED BY <2>1, <2>2, <1>1 DEF Coherent
<1> QED BY <1>1, <1>4, <1>5, <1>6, <1>7 DEF w

-----------------------------------------------------------------------------
(* Types                                                                   *)

\* What the pool holds came from the class path, and every frame is one of a
\* class in the pool; a class at "link" has a super class, in the pool too.
PoolKnown ==
    /\ \A c \in ClassName : InPool(c) => c \in DOMAIN files
    /\ \A i \in DOMAIN calls : InPool(calls[i])
    /\ \A c \in ClassName : phase[c] = "link" =>
          files[c].super # None /\ InPool(files[c].super)

\* A class has a vtable, and an emitted table, exactly from the step of its
\* definition that makes one.
StageHasTables ==
    /\ \A c \in ClassName : c \in DOMAIN vtable <=> Linked(c)
    /\ \A c \in ClassName :
          c \in DOMAIN table <=> phase[c] \in {"bodies", "complete"}

\* TypeOK is inductive only with the shape of the vtables (a copy has the type
\* of a vtable because the original was coherent) and with the stage each class
\* has reached.
TypeInv == TypeOK /\ VTableCoherent /\ PoolKnown /\ StageHasTables

\* The innermost frame belongs to a class of the class path.
LEMMA TopFacts ==
    ASSUME TypeInv, calls # <<>>
    PROVE  /\ Len(calls) \in Nat \ {0}
           /\ Len(calls) \in DOMAIN calls
           /\ Top \in ClassName
           /\ Top \in DOMAIN files
           /\ InPool(Top)
           /\ files[Top] \in ClassFile
           /\ TopSuper \in ClassName \cup {None}
           /\ TopMethods \in Seq(Method)
           /\ Len(TopMethods) \in Nat
           /\ DOMAIN TopMethods = 1..Len(TopMethods)
           /\ \A i \in DOMAIN TopMethods : TopMethods[i] \in Method
<1>1. Len(calls) \in Nat \ {0} /\ Len(calls) \in DOMAIN calls
  BY DEF TypeInv, TypeOK
<1>2. Top \in ClassName /\ InPool(Top)
  BY <1>1 DEF TypeInv, TypeOK, PoolKnown, Top
<1>3. Top \in DOMAIN files /\ files[Top] \in ClassFile
  BY <1>2 DEF TypeInv, TypeOK, PoolKnown
<1>4. TopSuper \in ClassName \cup {None} /\ TopMethods \in Seq(Method)
  BY <1>3 DEF TopSuper, TopMethods, ClassFile
<1> QED BY <1>1, <1>2, <1>3, <1>4

\* Returning from EmitDefinition drops the innermost frame and no other.
LEMMA PopFrame ==
    ASSUME TypeInv, calls # <<>>
    PROVE  LET below == SubSeq(calls, 1, Len(calls) - 1)
           IN /\ below \in Seq(ClassName)
              /\ Len(below) = Len(calls) - 1
              /\ DOMAIN below = 1..(Len(calls) - 1)
              /\ \A i \in DOMAIN below : below[i] = calls[i]
<1>1. Len(calls) \in Nat \ {0} /\ calls \in Seq(ClassName)
  BY TopFacts DEF TypeInv, TypeOK
<1> DEFINE n == Len(calls) - 1
           below == SubSeq(calls, 1, n)
<1>2. n \in Int /\ 1 \in Int /\ \A i \in 1..n : calls[i] \in ClassName
  BY <1>1
<1> HIDE DEF n
<1>3. /\ below \in Seq(ClassName)
      /\ Len(below) = IF 1 <= n THEN n - 1 + 1 ELSE 0
      /\ \A i \in 1..(n - 1 + 1) : below[i] = calls[1 + i - 1]
  BY <1>2
<1>4. n \in Nat
  BY <1>1 DEF n
<1>5. Len(below) = n /\ DOMAIN below = 1..n
  BY <1>3, <1>4
<1>6. \A i \in 1..n : below[i] = calls[i]
  BY <1>3, <1>4
<1> QED BY <1>3, <1>5, <1>6 DEF n

\* Init establishes TypeInv.
LEMMA TypeInit == Init => TypeInv
<1> SUFFICES ASSUME Init PROVE TypeInv
  OBVIOUS
<1>1. DOMAIN files \subseteq ClassName /\ files \in [DOMAIN files -> ClassFile]
  BY ClassPathAssumption DEF Init
<1>2. requests \in Seq(ClassName)
  BY DriverAssumption DEF Init
<1>3. TypeOK
  BY <1>1, <1>2 DEF Init, TypeOK, Phases, Outcomes
<1>4. VTableCoherent
  BY DEF Init, VTableCoherent
<1>5. PoolKnown
  BY DEF Init, PoolKnown, InPool
<1>6. StageHasTables
  BY DEF Init, StageHasTables, Linked
<1> QED BY <1>3, <1>4, <1>5, <1>6 DEF TypeInv

\* Giving one class a well formed vtable keeps all of them well formed.
LEMMA VTablePut ==
    ASSUME TypeInv, NEW c \in ClassName, NEW w, IsVTable(w), Coherent(w),
           vtable' = Put(vtable, c, w)
    PROVE  /\ DOMAIN vtable' = DOMAIN vtable \cup {c}
           /\ DOMAIN vtable' \subseteq ClassName
           /\ vtable'[c] = w
           /\ \A d \in DOMAIN vtable : d # c => vtable'[d] = vtable[d]
           /\ \A d \in DOMAIN vtable' : IsVTable(vtable'[d])
           /\ VTableCoherent'
<1>1. /\ DOMAIN vtable' = DOMAIN vtable \cup {c}
      /\ vtable'[c] = w
      /\ \A d \in DOMAIN vtable : d # c => vtable'[d] = vtable[d]
  BY DEF Put
<1>2. DOMAIN vtable \subseteq ClassName
      /\ \A d \in DOMAIN vtable : IsVTable(vtable[d]) /\ Coherent(vtable[d])
  BY DEF TypeInv, TypeOK, VTableCoherent
<1>3. \A d \in DOMAIN vtable' : IsVTable(vtable'[d]) /\ Coherent(vtable'[d])
  BY <1>1, <1>2
<1> QED BY <1>1, <1>2, <1>3 DEF VTableCoherent

\* Every step keeps TypeInv.
LEMMA TypeStep == TypeInv /\ [Next]_vars => TypeInv'
<1> SUFFICES ASSUME TypeInv, [Next]_vars PROVE TypeInv'
  OBVIOUS
<1>1. CASE RequestAnswered
  BY <1>1 DEF TypeInv, RequestAnswered, TypeOK, VTableCoherent, PoolKnown,
         InPool, StageHasTables, Linked
<1>2. CASE RequestCreates
  BY <1>2 DEF TypeInv, RequestCreates, TypeOK, Phases, VTableCoherent,
         PoolKnown, InPool, StageHasTables, Linked
<1>3. CASE SuperInPool
  BY <1>3, TopFacts DEF TypeInv, SuperInPool, At, TypeOK, Phases,
         VTableCoherent,
     PoolKnown, InPool, StageHasTables, Linked, TopSuper
<1>4. CASE SuperCreated
  <2>1. /\ Top \in ClassName /\ TopSuper \in ClassName
        /\ TopSuper \in DOMAIN files /\ TopSuper # None
        /\ calls' = Append(calls, TopSuper)
        /\ phase' = [phase EXCEPT ![Top] = "link", ![TopSuper] = "super"]
        /\ UNCHANGED <<files, requests, next, vtable, ancestors, table, thunks,
                       outcome>>
        /\ phase[Top] = "super" /\ phase[TopSuper] = "absent"
    BY <1>4, TopFacts DEF SuperCreated, At, InPool
  <2>2. /\ calls' \in Seq(ClassName)
        /\ \A i \in DOMAIN calls' :
              \/ calls'[i] = TopSuper
              \/ i \in DOMAIN calls /\ calls'[i] = calls[i]
    <3>1. calls \in Seq(ClassName)
      BY DEF TypeInv, TypeOK
    <3>2. /\ calls' \in Seq(ClassName)
          /\ Len(calls') = Len(calls) + 1
          /\ calls'[Len(calls) + 1] = TopSuper
          /\ \A i \in 1..Len(calls) : calls'[i] = calls[i]
      BY <2>1, <3>1, AppendProperties
    <3>3. DOMAIN calls = 1..Len(calls) /\ Len(calls) \in Nat
          /\ DOMAIN calls' = 1..Len(calls')
      BY <3>1, <3>2
    <3> QED BY <3>2, <3>3
  <2>3. /\ phase' \in [ClassName -> Phases]
        /\ phase'[TopSuper] = "super"
        /\ Top # TopSuper => phase'[Top] = "link"
        /\ \A c \in ClassName : c # Top /\ c # TopSuper => phase'[c] = phase[c]
    BY <2>1 DEF TypeInv, TypeOK, Phases
  <2>4. TypeOK' /\ VTableCoherent'
    BY <2>1, <2>2, <2>3 DEF TypeInv, TypeOK, VTableCoherent
  <2>5. PoolKnown'
    <3>1. \A c \in ClassName :
             phase'[c] # "absent" <=> phase[c] # "absent" \/ c = TopSuper
      BY <2>1, <2>3
    <3>2. \A c \in ClassName : phase'[c] # "absent" => c \in DOMAIN files'
      BY <2>1, <3>1 DEF TypeInv, PoolKnown, InPool
    <3>3. \A i \in DOMAIN calls' : phase'[calls'[i]] # "absent"
      <4>1. \A i \in DOMAIN calls :
               calls[i] \in ClassName /\ phase[calls[i]] # "absent"
        BY DEF TypeInv, TypeOK, PoolKnown, InPool
      <4> QED BY <4>1, <2>1, <2>2, <3>1
    <3>4. ASSUME NEW c \in ClassName, phase'[c] = "link"
          PROVE  files'[c].super # None /\ phase'[files'[c].super] # "absent"
      <4>1. CASE c = Top
        BY <4>1, <2>1, <3>1 DEF TopSuper
      <4>2. CASE c # Top
        <5>1. phase[c] = "link"
          BY <4>2, <3>4, <2>3
        <5>2. files[c].super # None /\ phase[files[c].super] # "absent"
              /\ c \in DOMAIN files
          BY <5>1 DEF TypeInv, PoolKnown, InPool
        <5>3. files[c].super \in ClassName
          <6>1. files[c] \in ClassFile
            BY <5>2 DEF TypeInv, TypeOK
          <6> QED BY <6>1, <5>2 DEF ClassFile
        <5> QED BY <5>2, <5>3, <3>1, <2>1
      <4> QED BY <4>1, <4>2
    <3> QED BY <3>2, <3>3, <3>4 DEF PoolKnown, InPool
  <2>6. StageHasTables'
    BY <2>1, <2>3 DEF TypeInv, StageHasTables, Linked, InPool
  <2> QED BY <2>4, <2>5, <2>6 DEF TypeInv
<1>5. CASE SuperMissing
  BY <1>5 DEF TypeInv, SuperMissing, TypeOK, Outcomes, Failures, VTableCoherent,
     PoolKnown, InPool, StageHasTables, Linked
<1>6. CASE LinkBase
  <2>1. /\ Top \in ClassName
        /\ vtable' = Put(vtable, Top, EmptyVTable)
        /\ ancestors' = Put(ancestors, Top, {Top})
        /\ phase' = [phase EXCEPT ![Top] = "methods"]
        /\ next' = 1
        /\ phase[Top] = "super"
        /\ UNCHANGED <<files, requests, calls, table, thunks, outcome>>
    BY <1>6, TopFacts DEF LinkBase, At
  <2>2. /\ DOMAIN ancestors' = DOMAIN vtable'
        /\ \A c \in DOMAIN ancestors' : ancestors'[c] \subseteq ClassName
    BY <2>1 DEF TypeInv, Put, TypeOK
  <2>5. /\ DOMAIN vtable' = DOMAIN vtable \cup {Top}
        /\ DOMAIN vtable' \subseteq ClassName
        /\ \A d \in DOMAIN vtable' : IsVTable(vtable'[d])
        /\ VTableCoherent'
    BY <2>1, EmptyVTableOK, VTablePut
  <2>3. TypeOK' /\ VTableCoherent'
    <3>1. phase' \in [ClassName -> Phases]
      BY <2>1 DEF TypeInv, TypeOK, Phases
    <3>2. DOMAIN table' \subseteq DOMAIN vtable'
      BY <2>1, <2>5 DEF TypeInv, TypeOK
    <3>3. next' \in Nat \ {0}
      BY <2>1
    <3>4. UNCHANGED <<files, requests, calls, table, thunks, outcome>>
      BY <2>1
    <3> QED BY <3>1, <3>2, <3>3, <3>4, <2>2, <2>5 DEF TypeInv, TypeOK
  <2>4. PoolKnown' /\ StageHasTables'
    BY <2>1, <2>5 DEF TypeInv, PoolKnown, InPool, StageHasTables, Linked, TypeOK
  <2> QED BY <2>3, <2>4 DEF TypeInv
<1>7. CASE LinkSuper
  <2>1. /\ Top \in ClassName
        /\ TopSuper \in DOMAIN vtable
        /\ vtable' = Put(vtable, Top, CopyVTable(vtable[TopSuper]))
        /\ ancestors' = Put(ancestors, Top, ancestors[TopSuper] \cup {Top})
        /\ phase' = [phase EXCEPT ![Top] = "methods"]
        /\ next' = 1
        /\ phase[Top] = "link"
        /\ UNCHANGED <<files, requests, calls, table, thunks, outcome>>
    BY <1>7, TopFacts DEF LinkSuper, At
  <2>2. /\ DOMAIN ancestors' = DOMAIN vtable'
        /\ \A c \in DOMAIN ancestors' : ancestors'[c] \subseteq ClassName
    BY <2>1 DEF TypeInv, Put, TypeOK
  <2>3. IsVTable(CopyVTable(vtable[TopSuper]))
        /\ Coherent(CopyVTable(vtable[TopSuper]))
    BY <2>1, CopyVTableOK DEF TypeInv, TypeOK, VTableCoherent
  <2>6. /\ DOMAIN vtable' = DOMAIN vtable \cup {Top}
        /\ DOMAIN vtable' \subseteq ClassName
        /\ \A d \in DOMAIN vtable' : IsVTable(vtable'[d])
        /\ VTableCoherent'
    BY <2>1, <2>3, VTablePut
  <2>4. TypeOK' /\ VTableCoherent'
    <3>1. phase' \in [ClassName -> Phases]
      BY <2>1 DEF TypeInv, TypeOK, Phases
    <3>2. DOMAIN table' \subseteq DOMAIN vtable'
      BY <2>1, <2>6 DEF TypeInv, TypeOK
    <3>3. next' \in Nat \ {0}
      BY <2>1
    <3>4. UNCHANGED <<files, requests, calls, table, thunks, outcome>>
      BY <2>1
    <3> QED BY <3>1, <3>2, <3>3, <3>4, <2>2, <2>6 DEF TypeInv, TypeOK
  <2>5. PoolKnown' /\ StageHasTables'
    BY <2>1, <2>6 DEF TypeInv, PoolKnown, InPool, StageHasTables, Linked, TypeOK
  <2> QED BY <2>4, <2>5 DEF TypeInv
<1>8. CASE SuperUnfinished
  BY <1>8 DEF TypeInv, SuperUnfinished, TypeOK, Outcomes, Failures,
         VTableCoherent,
     PoolKnown, InPool, StageHasTables, Linked
<1>9. CASE DeclareNonVirtual
  BY <1>9 DEF TypeInv, DeclareNonVirtual, TypeOK, VTableCoherent, PoolKnown,
         InPool, StageHasTables, Linked
<1>10. CASE DeclareOverride
  <2> DEFINE k == TopMethods[next].key
             w == ReplaceSlot(vtable[Top], k, Top)
  <2>1. /\ Top \in ClassName
        /\ k \in MethodKey
        /\ HasMethod(vtable[Top], k)
        /\ vtable' = Put(vtable, Top, w)
        /\ phase[Top] = "methods"
        /\ next' = next + 1
        /\ UNCHANGED <<files, requests, calls, phase, ancestors, table, thunks,
                       outcome>>
    BY <1>10, TopFacts DEF DeclareOverride, AtMethod, At, Method
  <2>2. Top \in DOMAIN vtable
    BY <2>1 DEF TypeInv, StageHasTables, Linked
  <2>3. IsVTable(w) /\ Coherent(w)
    BY <2>1, <2>2, ReplaceSlotOK DEF TypeInv, TypeOK, VTableCoherent
  <2> HIDE DEF w
  <2>6. /\ DOMAIN vtable' = DOMAIN vtable \cup {Top}
        /\ DOMAIN vtable' \subseteq ClassName
        /\ \A d \in DOMAIN vtable' : IsVTable(vtable'[d])
        /\ VTableCoherent'
    BY <2>1, <2>3, VTablePut
  <2>4. TypeOK' /\ VTableCoherent'
    <3>1. DOMAIN vtable' = DOMAIN vtable
      BY <2>2, <2>6
    <3>2. next' \in Nat \ {0}
      BY <2>1 DEF TypeInv, TypeOK
    <3>3. UNCHANGED <<files, requests, calls, phase, ancestors, table, thunks,
                      outcome>>
      BY <2>1
    <3> QED BY <3>1, <3>2, <3>3, <2>6 DEF TypeInv, TypeOK
  <2>5. PoolKnown' /\ StageHasTables'
    BY <2>1, <2>2, <2>6 DEF TypeInv, PoolKnown, InPool, StageHasTables, Linked
  <2> QED BY <2>4, <2>5 DEF TypeInv
<1>11. CASE DeclareNewSlot
  <2> DEFINE k == TopMethods[next].key
             w == AppendSlot(vtable[Top], k, Top)
  <2>1. /\ Top \in ClassName
        /\ k \in MethodKey
        /\ ~HasMethod(vtable[Top], k)
        /\ vtable' = Put(vtable, Top, w)
        /\ phase[Top] = "methods"
        /\ next' = next + 1
        /\ UNCHANGED <<files, requests, calls, phase, ancestors, table, thunks,
                       outcome>>
    BY <1>11, TopFacts DEF DeclareNewSlot, AtMethod, At, Method
  <2>2. Top \in DOMAIN vtable
    BY <2>1 DEF TypeInv, StageHasTables, Linked
  <2>3. IsVTable(w) /\ Coherent(w)
    BY <2>1, <2>2, AppendSlotOK DEF TypeInv, TypeOK, VTableCoherent
  <2> HIDE DEF w
  <2>6. /\ DOMAIN vtable' = DOMAIN vtable \cup {Top}
        /\ DOMAIN vtable' \subseteq ClassName
        /\ \A d \in DOMAIN vtable' : IsVTable(vtable'[d])
        /\ VTableCoherent'
    BY <2>1, <2>3, VTablePut
  <2>4. TypeOK' /\ VTableCoherent'
    <3>1. DOMAIN vtable' = DOMAIN vtable
      BY <2>2, <2>6
    <3>2. next' \in Nat \ {0}
      BY <2>1 DEF TypeInv, TypeOK
    <3>3. UNCHANGED <<files, requests, calls, phase, ancestors, table, thunks,
                      outcome>>
      BY <2>1
    <3> QED BY <3>1, <3>2, <3>3, <2>6 DEF TypeInv, TypeOK
  <2>5. PoolKnown' /\ StageHasTables'
    BY <2>1, <2>2, <2>6 DEF TypeInv, PoolKnown, InPool, StageHasTables, Linked
  <2> QED BY <2>4, <2>5 DEF TypeInv
<1>12. CASE EmitVTable
  <2>1. /\ Top \in ClassName
        /\ table' = Put(table, Top, vtable[Top].entries)
        /\ phase[Top] = "methods"
        /\ phase' = [phase EXCEPT ![Top] = "bodies"]
        /\ next' = 1
        /\ UNCHANGED <<files, requests, calls, vtable, ancestors, thunks,
                       outcome>>
    BY <1>12, TopFacts DEF EmitVTable, At
  <2>2. Top \in DOMAIN vtable
    BY <2>1 DEF TypeInv, StageHasTables, Linked
  <2>3. /\ DOMAIN table' = DOMAIN table \cup {Top}
        /\ \A c \in DOMAIN table' : table'[c] \in Seq(Slot)
    BY <2>1, <2>2 DEF TypeInv, Put, TypeOK, IsVTable
  <2>4. TypeOK' /\ VTableCoherent'
    BY <2>1, <2>2, <2>3 DEF TypeInv, TypeOK, Phases, VTableCoherent
  <2>5. PoolKnown' /\ StageHasTables'
    BY <2>1, <2>3 DEF TypeInv, PoolKnown, InPool, StageHasTables, Linked, TypeOK
  <2> QED BY <2>4, <2>5 DEF TypeInv
<1>13. CASE EmitNative
  BY <1>13 DEF TypeInv, EmitNative, TypeOK, VTableCoherent, PoolKnown, InPool,
         StageHasTables, Linked
<1>14. CASE EmitAbstract
  BY <1>14 DEF TypeInv, EmitAbstract, TypeOK, Outcomes, Failures,
         VTableCoherent, PoolKnown, InPool, StageHasTables, Linked
<1>15. CASE EmitDirectMethod
  BY <1>15 DEF TypeInv, EmitDirectMethod, TypeOK, VTableCoherent, PoolKnown,
         InPool, StageHasTables, Linked
<1>16. CASE EmitVirtualMethod
  <2> DEFINE k == TopMethods[next].key
  <2>1. /\ Top \in ClassName
        /\ phase[Top] = "bodies"
        /\ k \in MethodKey
        /\ next' = next + 1
        /\ thunks' \subseteq thunks \cup
              {[class |-> Top, key |-> k, index |-> vtable[Top].methods[k]]}
        /\ thunks' = thunks \/ k \in DOMAIN vtable[Top].methods
        /\ outcome' \in {outcome, "no_virtual_method"}
        /\ UNCHANGED <<files, requests, calls, phase, vtable, ancestors, table>>
    BY <1>16, TopFacts DEF EmitVirtualMethod, AtCode, AtBody, At, Method
  <2>2. Top \in DOMAIN vtable
    BY <2>1 DEF TypeInv, StageHasTables, Linked
  <2>3. thunks' \subseteq [class : ClassName, key : MethodKey, index : Nat]
    <3>1. CASE thunks' = thunks
      BY <3>1 DEF TypeInv, TypeOK
    <3>2. CASE k \in DOMAIN vtable[Top].methods
      <4>1. vtable[Top].methods[k] \in Nat
        BY <2>2, <3>2 DEF TypeInv, TypeOK, IsVTable
      <4> QED BY <2>1, <4>1 DEF TypeInv, TypeOK
    <3> QED BY <2>1, <3>1, <3>2
  <2>4. TypeOK' /\ VTableCoherent'
    BY <2>1, <2>3 DEF TypeInv, TypeOK, VTableCoherent, Outcomes, Failures
  <2>5. PoolKnown' /\ StageHasTables'
    BY <2>1 DEF TypeInv, PoolKnown, InPool, StageHasTables, Linked
  <2> QED BY <2>4, <2>5 DEF TypeInv
<1>17. CASE FinishDefinition
  BY <1>17, TopFacts, PopFrame DEF TypeInv, FinishDefinition, At, TypeOK,
         Phases, VTableCoherent, PoolKnown, InPool, StageHasTables, Linked
<1>18. CASE Finish
  BY <1>18 DEF TypeInv, Finish, TypeOK, Outcomes, Failures, VTableCoherent,
         PoolKnown, InPool, StageHasTables, Linked
<1>19. CASE UNCHANGED vars
  BY <1>19 DEF TypeInv, vars, TypeOK, VTableCoherent, PoolKnown, InPool,
         StageHasTables, Linked
<1> QED
  BY <1>1, <1>2, <1>3, <1>4, <1>5, <1>6, <1>7, <1>8, <1>9, <1>10, <1>11, <1>12,
     <1>13, <1>14, <1>15, <1>16, <1>17, <1>18, <1>19 DEF Next, Terminated

\* Type correctness, for any class path and any roots.
THEOREM TypeCorrect == Spec => []TypeOK
<1>1. Spec => []TypeInv
  BY TypeInit, TypeStep, PTL DEF Spec
<1>2. TypeInv => TypeOK
  BY DEF TypeInv
<1> QED BY <1>1, <1>2, PTL

\* Every vtable stays coherent, whatever it was copied from.
THEOREM VTablesCoherent == Spec => []VTableCoherent
<1>1. Spec => []TypeInv
  BY TypeInit, TypeStep, PTL DEF Spec
<1>2. TypeInv => VTableCoherent
  BY DEF TypeInv
<1> QED BY <1>1, <1>2, PTL

-----------------------------------------------------------------------------
(* The frames of EmitDefinition                                            *)

\* A class whose definition is running its own code, and not waiting for that
\* of its super class, is the one in the innermost frame.
LEMMA OnlyTopRuns ==
    ASSUME TypeInv, FramesAreAChain, NEW c \in ClassName,
           phase[c] \in {"super", "methods", "bodies"}
    PROVE  calls # <<>> /\ c = Top
<1>1. PICK i \in DOMAIN calls : calls[i] = c
  BY DEF FramesAreAChain
<1>2. Len(calls) \in Nat /\ DOMAIN calls = 1..Len(calls)
  BY DEF TypeInv, TypeOK
<1>3. i \notin 1..(Len(calls) - 1)
  BY <1>1 DEF FramesAreAChain
<1>4. i = Len(calls)
  BY <1>2, <1>3
<1> QED BY <1>1, <1>2, <1>4 DEF Top

\* Moving the class of the innermost frame on, within its definition, leaves the
\* chain of frames as it is.
LEMMA TopMovesOn ==
    ASSUME TypeInv, FramesAreAChain, calls # <<>>,
           NEW p \in {"super", "link", "methods", "bodies"},
           phase' = [phase EXCEPT ![Top] = p],
           UNCHANGED <<files, calls>>
    PROVE  FramesAreAChain'
<1>1. Len(calls) \in Nat \ {0} /\ DOMAIN calls = 1..Len(calls)
      /\ Top \in ClassName /\ Top = calls[Len(calls)]
  BY TopFacts DEF TypeInv, TypeOK, Top
<1>2. \A i \in 1..(Len(calls) - 1) : calls[i] # Top
  BY <1>1 DEF FramesAreAChain
<1>3. \A c \in ClassName : phase'[c] = IF c = Top THEN p ELSE phase[c]
  BY <1>1 DEF TypeInv, TypeOK
<1>4. \A i \in DOMAIN calls : calls[i] \in ClassName
  BY DEF TypeInv, TypeOK
<1>5. \A i \in 1..(Len(calls) - 1) :
         phase'[calls'[i]] = "link" /\ files'[calls'[i]].super = calls'[i + 1]
  BY <1>1, <1>2, <1>3, <1>4 DEF FramesAreAChain
<1>6. \A c \in ClassName : phase'[c] \notin {"absent", "complete"} <=>
                              \E i \in DOMAIN calls' : calls'[i] = c
  BY <1>1, <1>3 DEF FramesAreAChain
<1> QED BY <1>5, <1>6 DEF FramesAreAChain

\* Init leaves no frame and no class.
LEMMA FramesInit == Init => FramesAreAChain
  BY DEF Init, FramesAreAChain

\* Every step keeps the frames a chain: one is pushed for the super class of the
\* innermost, or the innermost returns.
LEMMA FramesStep ==
    TypeInv /\ FramesAreAChain /\ [Next]_vars => FramesAreAChain'
<1> SUFFICES ASSUME TypeInv, FramesAreAChain, [Next]_vars
             PROVE  FramesAreAChain'
  OBVIOUS
<1>1. CASE UNCHANGED <<files, calls, phase>>
  BY <1>1 DEF FramesAreAChain
<1>2. CASE RequestCreates
  <2> DEFINE c == Head(requests)
  <2>1. /\ c \in ClassName
        /\ calls = <<>> /\ calls' = <<c>>
        /\ phase' = [phase EXCEPT ![c] = "super"]
    BY <1>2 DEF RequestCreates, TypeInv, TypeOK
  <2>2. \A d \in ClassName : phase[d] \in {"absent", "complete"}
    BY <2>1 DEF FramesAreAChain
  <2>3. \A d \in ClassName :
           phase'[d] \notin {"absent", "complete"} <=> d = c
    BY <2>1, <2>2 DEF TypeInv, TypeOK
  <2>4. DOMAIN calls' = {1} /\ calls'[1] = c /\ Len(calls') = 1
    BY <2>1
  <2> QED BY <2>3, <2>4 DEF FramesAreAChain
<1>3. CASE SuperInPool
  BY <1>3, TopMovesOn DEF SuperInPool, At
<1>4. CASE SuperCreated
  <2> DEFINE s == TopSuper
             n == Len(calls)
  <2>1. /\ Top \in ClassName /\ s \in ClassName
        /\ phase[Top] = "super" /\ phase[s] = "absent"
        /\ calls' = Append(calls, s)
        /\ phase' = [phase EXCEPT ![Top] = "link", ![s] = "super"]
        /\ calls \in Seq(ClassName)
        /\ n \in Nat \ {0} /\ DOMAIN calls = 1..n
        /\ calls[n] = Top
        /\ UNCHANGED files
    BY <1>4, TopFacts DEF SuperCreated, At, InPool, TypeInv, TypeOK, Top
  <2>9. n \in Nat \ {0}
    BY <2>1
  <2>2. /\ Len(calls') = n + 1
        /\ DOMAIN calls' = 1..(n + 1)
        /\ calls'[n + 1] = s
        /\ \A i \in 1..n : calls'[i] = calls[i]
    BY <2>1
  <2>3. \A c \in ClassName :
           phase'[c] = IF c = s THEN "super"
                       ELSE IF c = Top THEN "link" ELSE phase[c]
    BY <2>1 DEF TypeInv, TypeOK
  <2>4. \A i \in 1..n : calls[i] \in ClassName /\ calls[i] # s
    BY <2>1 DEF FramesAreAChain
  <2>5. \A i, j \in DOMAIN calls' : calls'[i] = calls'[j] => i = j
    BY <2>1, <2>2, <2>4 DEF FramesAreAChain
  <2>6. ASSUME NEW i \in 1..Len(calls)
        PROVE  /\ phase'[calls'[i]] = "link"
               /\ files'[calls'[i]].super = calls'[i + 1]
    <3>1. CASE i = n
      BY <3>1, <2>1, <2>2, <2>3, <2>4 DEF TopSuper
    <3>2. CASE i # n
      <4>1. i \in 1..(n - 1) /\ calls[i] # Top
        <5>1. i \in 1..(n - 1)
          BY <3>2, <2>9
        <5>2. calls[i] # calls[n]
          <6>1. i \in DOMAIN calls /\ n \in DOMAIN calls
            BY <2>1
          <6> QED BY <3>2, <6>1 DEF FramesAreAChain
        <5> QED BY <5>1, <5>2, <2>1
      <4>2. phase[calls[i]] = "link" /\ files[calls[i]].super = calls[i + 1]
        BY <4>1 DEF FramesAreAChain
      <4>3. calls'[i] = calls[i] /\ calls'[i + 1] = calls[i + 1]
        BY <4>1, <2>1, <2>2
      <4>4. phase'[calls[i]] = phase[calls[i]]
        BY <4>1, <2>3, <2>4
      <4> QED BY <4>2, <4>3, <4>4, <2>1
    <3> QED BY <3>1, <3>2
  <2>7. ASSUME NEW c \in ClassName
        PROVE  phase'[c] \notin {"absent", "complete"} <=>
                  \E i \in DOMAIN calls' : calls'[i] = c
    <3>1. (\E i \in DOMAIN calls' : calls'[i] = c) <=>
             c = s \/ \E i \in 1..n : calls[i] = c
      BY <2>1, <2>2
    <3>2. (\E i \in 1..n : calls[i] = c) <=>
             phase[c] \notin {"absent", "complete"}
      BY <2>1 DEF FramesAreAChain
    <3>3. CASE c = s
      BY <3>1, <3>3, <2>3
    <3>4. CASE c = Top /\ c # s
      <4>1. phase[c] \notin {"absent", "complete"}
        BY <3>4, <2>1
      <4> QED BY <3>1, <3>2, <3>4, <4>1, <2>3
    <3>5. CASE c # Top /\ c # s
      BY <3>1, <3>2, <3>5, <2>3
    <3> QED BY <3>3, <3>4, <3>5
  <2>8. \A i \in 1..(Len(calls') - 1) :
           /\ phase'[calls'[i]] = "link"
           /\ files'[calls'[i]].super = calls'[i + 1]
    <3>1. Len(calls') - 1 = n
      BY <2>1, <2>2
    <3> QED BY <3>1, <2>6
  <2> QED BY <2>5, <2>7, <2>8 DEF FramesAreAChain
<1>5. CASE LinkBase
  BY <1>5, TopMovesOn DEF LinkBase, At
<1>6. CASE LinkSuper
  BY <1>6, TopMovesOn DEF LinkSuper, At
<1>7. CASE EmitVTable
  BY <1>7, TopMovesOn DEF EmitVTable, At
<1>8. CASE FinishDefinition
  <2> DEFINE n == Len(calls)
  <2>1. /\ Top \in ClassName /\ calls[n] = Top
        /\ n \in Nat \ {0} /\ DOMAIN calls = 1..n
        /\ phase' = [phase EXCEPT ![Top] = "complete"]
        /\ UNCHANGED files
    BY <1>8, TopFacts DEF FinishDefinition, At, TypeInv, TypeOK, Top
  <2>2. /\ Len(calls') = n - 1
        /\ DOMAIN calls' = 1..(n - 1)
        /\ \A i \in 1..(n - 1) : calls'[i] = calls[i]
    BY <1>8, PopFrame DEF FinishDefinition, At
  <2>3. \A i \in 1..(n - 1) : calls[i] # Top /\ calls[i] \in ClassName
    BY <2>1 DEF FramesAreAChain, TypeInv, TypeOK
  <2>4. \A c \in ClassName :
           phase'[c] = IF c = Top THEN "complete" ELSE phase[c]
    BY <2>1 DEF TypeInv, TypeOK
  <2>5. \A i, j \in DOMAIN calls' : calls'[i] = calls'[j] => i = j
    BY <2>1, <2>2 DEF FramesAreAChain
  <2>6. \A i \in 1..(Len(calls') - 1) :
           /\ phase'[calls'[i]] = "link"
           /\ files'[calls'[i]].super = calls'[i + 1]
    BY <2>1, <2>2, <2>3, <2>4 DEF FramesAreAChain
  <2>7. ASSUME NEW c \in ClassName
        PROVE  phase'[c] \notin {"absent", "complete"} <=>
                  \E i \in DOMAIN calls' : calls'[i] = c
    <3>1. (\E i \in DOMAIN calls' : calls'[i] = c) <=>
             c # Top /\ \E i \in 1..n : calls[i] = c
      BY <2>1, <2>2, <2>3
    <3>2. (\E i \in 1..n : calls[i] = c) <=>
             phase[c] \notin {"absent", "complete"}
      BY <2>1 DEF FramesAreAChain
    <3> QED BY <3>1, <3>2, <2>4
  <2> QED BY <2>5, <2>6, <2>7 DEF FramesAreAChain
<1> QED
  BY <1>1, <1>2, <1>3, <1>4, <1>5, <1>6, <1>7, <1>8
     DEF Next, vars, Terminated, RequestAnswered, SuperMissing,
         SuperUnfinished, DeclareNonVirtual, DeclareOverride, DeclareNewSlot,
         EmitNative, EmitAbstract, EmitDirectMethod, EmitVirtualMethod, Finish

\* The recursion through Get is a chain up one hierarchy: no class is defined
\* twice, or while its definition already waits further out.
THEOREM FramesCorrect == Spec => []FramesAreAChain
<1>1. Init => TypeInv /\ FramesAreAChain
  BY TypeInit, FramesInit
<1>2. TypeInv /\ FramesAreAChain /\ [Next]_vars =>
         TypeInv' /\ FramesAreAChain'
  BY TypeStep, FramesStep
<1> QED BY <1>1, <1>2, PTL DEF Spec

-----------------------------------------------------------------------------
(* Slots along a hierarchy                                                 *)

\* All ancestors of a class but itself are complete, so they cannot change.
AncestorsDone ==
    \A c \in DOMAIN vtable :
        /\ c \in ancestors[c]
        /\ \A a \in ancestors[c] : a = c \/ phase[a] = "complete"

\* A vtable starts with the slots of each of its ancestors.
AncestorsPrefix ==
    \A c \in DOMAIN vtable : \A a \in ancestors[c] :
        Extends(vtable[c], vtable[a])

\* A thunk holds the slot its own class has for the method, and was emitted
\* after the array of that class.
ThunksCurrent ==
    \A t \in thunks :
        /\ t.class \in DOMAIN table
        /\ t.key \in DOMAIN vtable[t.class].methods
        /\ t.index = vtable[t.class].methods[t.key]

HierarchyInv == /\ SuperCompleteFirst
                /\ AncestorsDone
                /\ AncestorsPrefix
                /\ TableCurrent
                /\ ThunksCurrent

\* A vtable extends itself.
LEMMA ExtendsReflexive ==
    ASSUME NEW vt, IsVTable(vt)
    PROVE  Extends(vt, vt)
<1>1. Len(vt.entries) \in Nat
  BY DEF IsVTable
<1> QED BY <1>1 DEF Extends

\* What extends an extension of a vtable extends the vtable.
LEMMA ExtendsTransitive ==
    ASSUME NEW u, NEW v, NEW w,
           IsVTable(u), IsVTable(v), IsVTable(w), Extends(w, v), Extends(v, u)
    PROVE  Extends(w, u)
<1>1. Len(u.entries) \in Nat /\ Len(v.entries) \in Nat /\ Len(w.entries) \in Nat
  BY DEF IsVTable
<1>2. Len(u.entries) <= Len(w.entries)
  BY <1>1 DEF Extends
<1>3. ASSUME NEW i \in 1..Len(u.entries)
      PROVE  w.entries[i].key = u.entries[i].key
  <2>1. i \in 1..Len(v.entries)
    BY <1>1 DEF Extends
  <2> QED BY <2>1 DEF Extends
<1> QED BY <1>2, <1>3 DEF Extends

\* What the parts of the invariant say of the classes they name.
LEMMA LinkedFacts ==
    ASSUME TypeInv, HierarchyInv, NEW c \in DOMAIN vtable
    PROVE  /\ c \in ClassName
           /\ Linked(c)
           /\ IsVTable(vtable[c])
           /\ Coherent(vtable[c])
           /\ c \in ancestors[c]
           /\ ancestors[c] \subseteq DOMAIN vtable
<1>1. c \in ClassName /\ Linked(c) /\ IsVTable(vtable[c]) /\ Coherent(vtable[c])
  BY DEF TypeInv, TypeOK, StageHasTables, VTableCoherent
<1>2. c \in ancestors[c]
  BY DEF HierarchyInv, AncestorsDone
<1>3. ASSUME NEW a \in ancestors[c]
      PROVE  a \in DOMAIN vtable
  <2>1. a \in ClassName
    BY DEF TypeInv, TypeOK
  <2>2. a = c \/ phase[a] = "complete"
    BY DEF HierarchyInv, AncestorsDone
  <2> QED BY <2>1, <2>2 DEF TypeInv, StageHasTables, Linked
<1> QED BY <1>1, <1>2, <1>3

\* The super class of a linked class is a class of the pool.
LEMMA SuperFacts ==
    ASSUME TypeInv, SuperCompleteFirst, NEW c \in ClassName, Linked(c),
           files[c].super # None
    PROVE  /\ files[c].super \in ClassName
           /\ phase[files[c].super] = "complete"
           /\ files[c].super \in DOMAIN vtable
<1>1. files[c] \in ClassFile
  BY DEF TypeInv, TypeOK, PoolKnown, InPool, Linked
<1>2. files[c].super \in ClassName
  BY <1>1 DEF ClassFile
<1>3. phase[files[c].super] = "complete"
  BY DEF SuperCompleteFirst
<1> QED BY <1>2, <1>3 DEF TypeInv, StageHasTables, Linked

\* Init has no vtable, table or thunk to speak of.
LEMMA HierarchyInit == Init => HierarchyInv
  BY DEF Init, HierarchyInv, SuperCompleteFirst, Linked, AncestorsDone,
         AncestorsPrefix, TableCurrent, ThunksCurrent

\* Steps that touch no vtable and complete classes only forwards.
LEMMA StagesOnly ==
    ASSUME TypeInv, HierarchyInv,
           UNCHANGED <<files, vtable, ancestors, table, thunks>>,
           \A c \in ClassName : Linked(c)' => Linked(c),
           \A c \in ClassName : phase[c] = "complete" => phase'[c] = "complete"
    PROVE  HierarchyInv'
<1>1. SuperCompleteFirst'
  <2> SUFFICES ASSUME NEW c \in ClassName, Linked(c)'
               PROVE  IF files[c].super = None THEN ancestors[c] = {c}
                      ELSE /\ phase'[files[c].super] = "complete"
                           /\ ancestors[c] = ancestors[files[c].super] \cup {c}
                           /\ c \notin ancestors[files[c].super]
    BY DEF SuperCompleteFirst
  <2>1. Linked(c)
    OBVIOUS
  <2>2. CASE files[c].super = None
    BY <2>1, <2>2 DEF HierarchyInv, SuperCompleteFirst
  <2>3. CASE files[c].super # None
    BY <2>1, <2>3, SuperFacts DEF HierarchyInv, SuperCompleteFirst
  <2> QED BY <2>2, <2>3
<1>2. AncestorsDone'
  <2>1. \A c \in DOMAIN vtable : ancestors[c] \subseteq ClassName
    BY DEF TypeInv, TypeOK
  <2> QED BY <2>1 DEF HierarchyInv, AncestorsDone
<1>3. AncestorsPrefix' /\ TableCurrent' /\ ThunksCurrent'
  BY DEF HierarchyInv, AncestorsPrefix, TableCurrent, ThunksCurrent
<1> QED BY <1>1, <1>2, <1>3 DEF HierarchyInv

\* Declaring a method grows or changes the vtable of the innermost class only,
\* which no other class has copied yet.
LEMMA DeclareGrowsTop ==
    ASSUME TypeInv, HierarchyInv,
           Top \in ClassName, phase[Top] = "methods",
           NEW w, IsVTable(w), Extends(w, vtable[Top]),
           vtable' = Put(vtable, Top, w),
           UNCHANGED <<files, phase, ancestors, table, thunks>>
    PROVE  HierarchyInv'
<1>1. Top \in DOMAIN vtable /\ Top \notin DOMAIN table
  BY DEF TypeInv, StageHasTables, Linked
<1>2. /\ DOMAIN vtable' = DOMAIN vtable
      /\ vtable'[Top] = w
      /\ \A c \in DOMAIN vtable : c # Top => vtable'[c] = vtable[c]
  BY <1>1 DEF Put
<1>3. SuperCompleteFirst'
  BY DEF HierarchyInv, SuperCompleteFirst, Linked
<1>4. AncestorsDone'
  BY <1>2 DEF HierarchyInv, AncestorsDone
<1>5. ASSUME NEW c \in DOMAIN vtable, NEW a \in ancestors[c]
      PROVE  Extends(vtable'[c], vtable'[a])
  <2>1. /\ a \in DOMAIN vtable
        /\ a = c \/ phase[a] = "complete"
        /\ Extends(vtable[c], vtable[a])
        /\ IsVTable(vtable[c]) /\ IsVTable(vtable[a])
    BY LinkedFacts DEF HierarchyInv, AncestorsDone, AncestorsPrefix
  <2>2. CASE c # Top
    BY <2>1, <2>2, <1>2
  <2>3. CASE c = Top /\ a = Top
    BY <2>3, <1>2, ExtendsReflexive
  <2>4. CASE c = Top /\ a # Top
    <3>1. vtable'[c] = w /\ vtable'[a] = vtable[a] /\ Extends(w, vtable[c])
      BY <2>1, <2>4, <1>2
    <3> QED BY <3>1, <2>1, ExtendsTransitive
  <2> QED BY <2>2, <2>3, <2>4
<1>6. AncestorsPrefix'
  BY <1>2, <1>5 DEF AncestorsPrefix
<1>7. TableCurrent'
  BY <1>1, <1>2 DEF HierarchyInv, TableCurrent, TypeInv, TypeOK
<1>8. ThunksCurrent'
  BY <1>1, <1>2 DEF HierarchyInv, ThunksCurrent, TypeInv, TypeOK
<1> QED BY <1>3, <1>4, <1>6, <1>7, <1>8 DEF HierarchyInv

\* A class without a super class starts a hierarchy of its own.
LEMMA LinkBaseHierarchy ==
    ASSUME TypeInv, HierarchyInv, LinkBase
    PROVE  HierarchyInv'
<1>1. /\ Top \in ClassName /\ phase[Top] = "super"
      /\ files[Top].super = None
      /\ vtable' = Put(vtable, Top, EmptyVTable)
      /\ ancestors' = Put(ancestors, Top, {Top})
      /\ phase' = [phase EXCEPT ![Top] = "methods"]
      /\ UNCHANGED <<files, table, thunks>>
  BY TopFacts DEF LinkBase, At, TopSuper
<1>2. Top \notin DOMAIN vtable /\ Top \notin DOMAIN table
  BY <1>1 DEF TypeInv, StageHasTables, Linked
<1>3. /\ DOMAIN vtable' = DOMAIN vtable \cup {Top}
      /\ vtable'[Top] = EmptyVTable /\ ancestors'[Top] = {Top}
      /\ \A c \in DOMAIN vtable :
            vtable'[c] = vtable[c] /\ ancestors'[c] = ancestors[c]
  BY <1>1, <1>2 DEF Put, TypeInv, TypeOK
<1>4. \A c \in ClassName :
         phase'[c] = IF c = Top THEN "methods" ELSE phase[c]
  BY <1>1 DEF TypeInv, TypeOK
<1>5. SuperCompleteFirst'
  <2> SUFFICES ASSUME NEW c \in ClassName, Linked(c)'
               PROVE  IF files[c].super = None THEN ancestors'[c] = {c}
                      ELSE /\ phase'[files[c].super] = "complete"
                           /\ ancestors'[c] =
                                 ancestors'[files[c].super] \cup {c}
                           /\ c \notin ancestors'[files[c].super]
    BY <1>1 DEF SuperCompleteFirst
  <2>1. CASE c = Top
    BY <2>1, <1>1, <1>3
  <2>2. CASE c # Top
    <3>1. Linked(c) /\ c \in DOMAIN vtable
      BY <2>2, <1>4 DEF Linked, TypeInv, StageHasTables
    <3>2. CASE files[c].super = None
      BY <3>1, <3>2, <1>3 DEF HierarchyInv, SuperCompleteFirst
    <3>3. CASE files[c].super # None
      <4>1. files[c].super \in DOMAIN vtable
            /\ files[c].super \in ClassName
            /\ phase[files[c].super] = "complete"
        BY <3>1, <3>3, SuperFacts DEF HierarchyInv
      <4>2. phase'[files[c].super] = "complete"
        BY <4>1, <1>1, <1>4
      <4> QED BY <4>1, <4>2, <3>1, <3>3, <1>3
                 DEF HierarchyInv, SuperCompleteFirst
    <3> QED BY <3>2, <3>3
  <2> QED BY <2>1, <2>2
<1>6. AncestorsDone'
  <2>1. ASSUME NEW c \in DOMAIN vtable, NEW a \in ancestors[c]
        PROVE  a = c \/ phase'[a] = "complete"
    <3>1. a \in ClassName /\ (a = c \/ phase[a] = "complete")
      BY DEF HierarchyInv, AncestorsDone, TypeInv, TypeOK
    <3> QED BY <3>1, <1>1, <1>4
  <2> QED BY <2>1, <1>3 DEF HierarchyInv, AncestorsDone
<1>7. AncestorsPrefix'
  <2>1. ASSUME NEW c \in DOMAIN vtable, NEW a \in ancestors[c]
        PROVE  Extends(vtable'[c], vtable'[a])
    <3>1. a \in DOMAIN vtable
      BY LinkedFacts
    <3> QED BY <3>1, <1>3 DEF HierarchyInv, AncestorsPrefix
  <2>2. Extends(EmptyVTable, EmptyVTable)
    BY EmptyVTableOK, ExtendsReflexive
  <2> QED BY <2>1, <2>2, <1>3 DEF AncestorsPrefix
<1>8. TableCurrent'
  BY <1>1, <1>2, <1>3 DEF HierarchyInv, TableCurrent, TypeInv, TypeOK
<1>9. ThunksCurrent'
  BY <1>1, <1>2, <1>3 DEF HierarchyInv, ThunksCurrent, TypeInv, TypeOK
<1> QED BY <1>5, <1>6, <1>7, <1>8, <1>9 DEF HierarchyInv

\* A super class that has a vtable when it is linked is complete: if it were
\* still being defined it would be in the innermost frame.
LEMMA LinkedSuperComplete ==
    ASSUME TypeInv, FramesAreAChain, LinkSuper
    PROVE  /\ TopSuper \in ClassName
           /\ phase[TopSuper] = "complete"
<1>1. TopSuper \in DOMAIN vtable /\ phase[Top] = "link"
  BY DEF LinkSuper, At
<1>2. TopSuper \in ClassName /\ Linked(TopSuper)
  BY <1>1 DEF TypeInv, TypeOK, StageHasTables
<1>3. phase[TopSuper] \notin {"methods", "bodies"}
  <2> SUFFICES ASSUME phase[TopSuper] \in {"methods", "bodies"} PROVE FALSE
    OBVIOUS
  <2>1. TopSuper = Top
    BY <1>2, OnlyTopRuns
  <2> QED BY <2>1, <1>1
<1> QED BY <1>2, <1>3 DEF Linked

\* A subclass starts with the slots of its super class.
LEMMA LinkSuperHierarchy ==
    ASSUME TypeInv, FramesAreAChain, HierarchyInv, LinkSuper
    PROVE  HierarchyInv'
<1> DEFINE s == TopSuper
<1>1. /\ Top \in ClassName /\ phase[Top] = "link"
      /\ files[Top].super = s
      /\ s \in DOMAIN vtable
      /\ vtable' = Put(vtable, Top, CopyVTable(vtable[s]))
      /\ ancestors' = Put(ancestors, Top, ancestors[s] \cup {Top})
      /\ phase' = [phase EXCEPT ![Top] = "methods"]
      /\ UNCHANGED <<files, table, thunks>>
  BY TopFacts DEF LinkSuper, At, TopSuper
<1>2. s \in ClassName /\ phase[s] = "complete" /\ s # None
  BY LinkedSuperComplete, NoneAssumption
<1>3. CopyVTable(vtable[s]) = vtable[s]
  BY <1>1, CopyVTableOK, LinkedFacts
<1>4. Top \notin DOMAIN vtable /\ Top \notin DOMAIN table
  BY <1>1 DEF TypeInv, StageHasTables, Linked
<1>5. /\ DOMAIN vtable' = DOMAIN vtable \cup {Top}
      /\ vtable'[Top] = vtable[s]
      /\ ancestors'[Top] = ancestors[s] \cup {Top}
      /\ \A c \in DOMAIN vtable :
            vtable'[c] = vtable[c] /\ ancestors'[c] = ancestors[c]
  BY <1>1, <1>3, <1>4 DEF Put, TypeInv, TypeOK
<1>6. \A c \in ClassName :
         phase'[c] = IF c = Top THEN "methods" ELSE phase[c]
  BY <1>1 DEF TypeInv, TypeOK
<1>7. ancestors[s] \subseteq DOMAIN vtable /\ Top \notin ancestors[s]
  BY <1>1, <1>4, LinkedFacts
<1>8. SuperCompleteFirst'
  <2> SUFFICES ASSUME NEW c \in ClassName, Linked(c)'
               PROVE  IF files[c].super = None THEN ancestors'[c] = {c}
                      ELSE /\ phase'[files[c].super] = "complete"
                           /\ ancestors'[c] =
                                 ancestors'[files[c].super] \cup {c}
                           /\ c \notin ancestors'[files[c].super]
    BY <1>1 DEF SuperCompleteFirst
  <2>1. CASE c = Top
    BY <2>1, <1>1, <1>2, <1>4, <1>5, <1>6, <1>7
  <2>2. CASE c # Top
    <3>1. Linked(c) /\ c \in DOMAIN vtable
      BY <2>2, <1>6 DEF Linked, TypeInv, StageHasTables
    <3>2. CASE files[c].super = None
      BY <3>1, <3>2, <1>5 DEF HierarchyInv, SuperCompleteFirst
    <3>3. CASE files[c].super # None
      <4>1. files[c].super \in DOMAIN vtable
            /\ files[c].super \in ClassName
            /\ phase[files[c].super] = "complete"
        BY <3>1, <3>3, SuperFacts DEF HierarchyInv
      <4>2. phase'[files[c].super] = "complete"
        BY <4>1, <1>1, <1>6
      <4> QED BY <4>1, <4>2, <3>1, <3>3, <1>5
                 DEF HierarchyInv, SuperCompleteFirst
    <3> QED BY <3>2, <3>3
  <2> QED BY <2>1, <2>2
<1>9. AncestorsDone'
  <2>1. ASSUME NEW c \in DOMAIN vtable, NEW a \in ancestors[c]
        PROVE  a = c \/ phase'[a] = "complete"
    <3>1. a \in ClassName /\ (a = c \/ phase[a] = "complete")
      BY DEF HierarchyInv, AncestorsDone, TypeInv, TypeOK
    <3> QED BY <3>1, <1>1, <1>6
  <2>2. ASSUME NEW a \in ancestors[s]
        PROVE  phase'[a] = "complete"
    <3>1. a \in ClassName /\ (a = s \/ phase[a] = "complete")
      BY <1>1 DEF HierarchyInv, AncestorsDone, TypeInv, TypeOK
    <3> QED BY <3>1, <1>1, <1>2, <1>6
  <2> QED BY <2>1, <2>2, <1>5 DEF HierarchyInv, AncestorsDone
<1>10. AncestorsPrefix'
  <2>1. ASSUME NEW c \in DOMAIN vtable, NEW a \in ancestors[c]
        PROVE  Extends(vtable'[c], vtable'[a])
    <3>1. a \in DOMAIN vtable
      BY LinkedFacts
    <3> QED BY <3>1, <1>5 DEF HierarchyInv, AncestorsPrefix
  <2>2. Extends(vtable[s], vtable[s])
    BY <1>1, LinkedFacts, ExtendsReflexive
  <2>3. \A a \in ancestors[s] : Extends(vtable'[Top], vtable'[a])
    BY <2>1, <1>1, <1>5
  <2> QED BY <2>1, <2>2, <2>3, <1>5 DEF AncestorsPrefix
<1>11. TableCurrent'
  BY <1>1, <1>4, <1>5 DEF HierarchyInv, TableCurrent, TypeInv, TypeOK
<1>12. ThunksCurrent'
  BY <1>1, <1>4, <1>5 DEF HierarchyInv, ThunksCurrent, TypeInv, TypeOK
<1> QED BY <1>8, <1>9, <1>10, <1>11, <1>12 DEF HierarchyInv

\* The emitted array is the vtable of a class whose methods are all declared.
LEMMA EmitVTableHierarchy ==
    ASSUME TypeInv, HierarchyInv, EmitVTable
    PROVE  HierarchyInv'
<1>1. /\ Top \in ClassName /\ phase[Top] = "methods"
      /\ table' = Put(table, Top, vtable[Top].entries)
      /\ phase' = [phase EXCEPT ![Top] = "bodies"]
      /\ UNCHANGED <<files, vtable, ancestors, thunks>>
  BY TopFacts DEF EmitVTable, At
<1>2. Top \notin DOMAIN table /\ Top \in DOMAIN vtable
  BY <1>1 DEF TypeInv, StageHasTables, Linked
<1>3. /\ DOMAIN table' = DOMAIN table \cup {Top}
      /\ table'[Top] = vtable[Top].entries
      /\ \A c \in DOMAIN table : table'[c] = table[c]
  BY <1>1, <1>2 DEF Put
<1>4. \A c \in ClassName :
         phase'[c] = IF c = Top THEN "bodies" ELSE phase[c]
  BY <1>1 DEF TypeInv, TypeOK
<1>5. /\ \A c \in ClassName : Linked(c)' => Linked(c)
      /\ \A c \in ClassName :
            phase[c] = "complete" => phase'[c] = "complete"
  BY <1>1, <1>4 DEF Linked
<1>6. SuperCompleteFirst'
  <2> SUFFICES ASSUME NEW c \in ClassName, Linked(c)'
               PROVE  IF files[c].super = None THEN ancestors[c] = {c}
                      ELSE /\ phase'[files[c].super] = "complete"
                           /\ ancestors[c] = ancestors[files[c].super] \cup {c}
                           /\ c \notin ancestors[files[c].super]
    BY <1>1 DEF SuperCompleteFirst
  <2>1. Linked(c)
    BY <1>5
  <2>2. CASE files[c].super = None
    BY <2>1, <2>2 DEF HierarchyInv, SuperCompleteFirst
  <2>3. CASE files[c].super # None
    BY <2>1, <2>3, <1>5, SuperFacts DEF HierarchyInv, SuperCompleteFirst
  <2> QED BY <2>2, <2>3
<1>7. AncestorsDone'
  <2>1. \A c \in DOMAIN vtable : ancestors[c] \subseteq ClassName
    BY DEF TypeInv, TypeOK
  <2> QED BY <2>1, <1>1, <1>5 DEF HierarchyInv, AncestorsDone
<1>8. AncestorsPrefix'
  BY <1>1 DEF HierarchyInv, AncestorsPrefix
<1>9. TableCurrent'
  BY <1>1, <1>3 DEF HierarchyInv, TableCurrent
<1>10. ThunksCurrent'
  BY <1>1, <1>3 DEF HierarchyInv, ThunksCurrent
<1> QED BY <1>6, <1>7, <1>8, <1>9, <1>10 DEF HierarchyInv

\* Every step keeps the hierarchy as described.
LEMMA HierarchyStep ==
    TypeInv /\ FramesAreAChain /\ HierarchyInv /\ [Next]_vars => HierarchyInv'
<1> SUFFICES ASSUME TypeInv, FramesAreAChain, HierarchyInv, [Next]_vars
             PROVE  HierarchyInv'
  OBVIOUS
<1>1. CASE UNCHANGED <<files, phase, vtable, ancestors, table, thunks>>
  BY <1>1, StagesOnly DEF Linked
<1>2. CASE RequestCreates
  <2>1. /\ Head(requests) \in ClassName /\ phase[Head(requests)] = "absent"
        /\ phase' = [phase EXCEPT ![Head(requests)] = "super"]
        /\ UNCHANGED <<files, vtable, ancestors, table, thunks>>
    BY <1>2 DEF RequestCreates, InPool, TypeInv, TypeOK
  <2>2. /\ \A c \in ClassName : Linked(c)' => Linked(c)
        /\ \A c \in ClassName :
              phase[c] = "complete" => phase'[c] = "complete"
    BY <2>1 DEF Linked, TypeInv, TypeOK
  <2> QED BY <2>1, <2>2, StagesOnly
<1>3. CASE SuperInPool
  <2>1. /\ Top \in ClassName /\ phase[Top] = "super"
        /\ phase' = [phase EXCEPT ![Top] = "link"]
        /\ UNCHANGED <<files, vtable, ancestors, table, thunks>>
    BY <1>3, TopFacts DEF SuperInPool, At
  <2>2. /\ \A c \in ClassName : Linked(c)' => Linked(c)
        /\ \A c \in ClassName :
              phase[c] = "complete" => phase'[c] = "complete"
    BY <2>1 DEF Linked, TypeInv, TypeOK
  <2> QED BY <2>1, <2>2, StagesOnly
<1>4. CASE SuperCreated
  <2>1. /\ Top \in ClassName /\ phase[Top] = "super"
        /\ TopSuper \in ClassName /\ phase[TopSuper] = "absent"
        /\ phase' = [phase EXCEPT ![Top] = "link", ![TopSuper] = "super"]
        /\ UNCHANGED <<files, vtable, ancestors, table, thunks>>
    BY <1>4, TopFacts DEF SuperCreated, At, InPool
  <2>2. /\ \A c \in ClassName : Linked(c)' => Linked(c)
        /\ \A c \in ClassName :
              phase[c] = "complete" => phase'[c] = "complete"
    BY <2>1 DEF Linked, TypeInv, TypeOK
  <2> QED BY <2>1, <2>2, StagesOnly
<1>5. CASE LinkBase
  BY <1>5, LinkBaseHierarchy
<1>6. CASE LinkSuper
  BY <1>6, LinkSuperHierarchy
<1>7. CASE DeclareOverride
  <2> DEFINE k == TopMethods[next].key
             w == ReplaceSlot(vtable[Top], k, Top)
  <2>1. /\ Top \in ClassName /\ phase[Top] = "methods"
        /\ k \in MethodKey /\ HasMethod(vtable[Top], k)
        /\ vtable' = Put(vtable, Top, w)
        /\ UNCHANGED <<files, phase, ancestors, table, thunks>>
    BY <1>7, TopFacts DEF DeclareOverride, AtMethod, At, Method
  <2>2. Top \in DOMAIN vtable
    BY <2>1 DEF TypeInv, StageHasTables, Linked
  <2>3. IsVTable(w) /\ Extends(w, vtable[Top])
    BY <2>1, <2>2, ReplaceSlotOK, LinkedFacts
  <2> HIDE DEF w
  <2> QED BY <2>1, <2>3, DeclareGrowsTop
<1>8. CASE DeclareNewSlot
  <2> DEFINE k == TopMethods[next].key
             w == AppendSlot(vtable[Top], k, Top)
  <2>1. /\ Top \in ClassName /\ phase[Top] = "methods"
        /\ k \in MethodKey /\ ~HasMethod(vtable[Top], k)
        /\ vtable' = Put(vtable, Top, w)
        /\ UNCHANGED <<files, phase, ancestors, table, thunks>>
    BY <1>8, TopFacts DEF DeclareNewSlot, AtMethod, At, Method
  <2>2. Top \in DOMAIN vtable
    BY <2>1 DEF TypeInv, StageHasTables, Linked
  <2>3. IsVTable(w) /\ Extends(w, vtable[Top])
    BY <2>1, <2>2, AppendSlotOK, LinkedFacts
  <2> HIDE DEF w
  <2> QED BY <2>1, <2>3, DeclareGrowsTop
<1>9. CASE EmitVTable
  BY <1>9, EmitVTableHierarchy
<1>10. CASE EmitVirtualMethod
  <2> DEFINE k == TopMethods[next].key
  <2>1. /\ Top \in ClassName /\ phase[Top] = "bodies"
        /\ thunks' \subseteq thunks \cup
              {[class |-> Top, key |-> k, index |-> vtable[Top].methods[k]]}
        /\ thunks' = thunks \/ k \in DOMAIN vtable[Top].methods
        /\ UNCHANGED <<files, phase, vtable, ancestors, table>>
    BY <1>10, TopFacts DEF EmitVirtualMethod, AtCode, AtBody, At
  <2>2. Top \in DOMAIN table
    BY <2>1 DEF TypeInv, StageHasTables
  <2>3. ThunksCurrent'
    BY <2>1, <2>2 DEF HierarchyInv, ThunksCurrent
  <2>4. /\ SuperCompleteFirst' /\ AncestorsDone'
        /\ AncestorsPrefix' /\ TableCurrent'
    BY <2>1 DEF HierarchyInv, SuperCompleteFirst, Linked, AncestorsDone,
                AncestorsPrefix, TableCurrent
  <2> QED BY <2>3, <2>4 DEF HierarchyInv
<1>11. CASE FinishDefinition
  <2>1. /\ Top \in ClassName /\ phase[Top] = "bodies"
        /\ phase' = [phase EXCEPT ![Top] = "complete"]
        /\ UNCHANGED <<files, vtable, ancestors, table, thunks>>
    BY <1>11, TopFacts DEF FinishDefinition, At
  <2>2. /\ \A c \in ClassName : Linked(c)' => Linked(c)
        /\ \A c \in ClassName :
              phase[c] = "complete" => phase'[c] = "complete"
    BY <2>1 DEF Linked, TypeInv, TypeOK
  <2> QED BY <2>1, <2>2, StagesOnly
<1> QED
  BY <1>1, <1>2, <1>3, <1>4, <1>5, <1>6, <1>7, <1>8, <1>9, <1>10, <1>11
     DEF Next, vars, Terminated, RequestAnswered, SuperMissing,
         SuperUnfinished, DeclareNonVirtual, EmitNative, EmitAbstract,
         EmitDirectMethod, Finish

\* A slot that a thunk of an ancestor uses holds the same key in the tables of
\* all classes below it.
LEMMA HierarchyGivesSlots == TypeInv /\ HierarchyInv => SlotsAgree
<1> SUFFICES ASSUME TypeInv, HierarchyInv,
                    NEW t \in thunks, NEW d \in DOMAIN table,
                    t.class \in ancestors[d]
             PROVE  /\ t.index < Len(table[d])
                    /\ table[d][t.index + 1].key = t.key
  BY DEF SlotsAgree
<1> DEFINE a == vtable[t.class]
<1>1. /\ t.class \in DOMAIN vtable
      /\ d \in DOMAIN vtable
      /\ t.key \in DOMAIN a.methods
      /\ t.index = a.methods[t.key]
      /\ table[d] = vtable[d].entries
  BY DEF HierarchyInv, ThunksCurrent, TableCurrent, TypeInv, TypeOK
<1>2. IsVTable(a) /\ Coherent(a) /\ IsVTable(vtable[d])
  BY <1>1, LinkedFacts
<1>3. Extends(vtable[d], a)
  BY <1>1 DEF HierarchyInv, AncestorsPrefix
<1>4. /\ t.index \in Nat
      /\ Len(a.entries) \in Nat
      /\ Len(vtable[d].entries) \in Nat
  BY <1>1, <1>2 DEF IsVTable
<1>5. t.index < Len(a.entries) /\ a.entries[t.index + 1].key = t.key
  BY <1>1, <1>2 DEF Coherent
<1>6. t.index + 1 \in 1..Len(a.entries)
  BY <1>4, <1>5
<1> HIDE DEF a
<1> QED BY <1>1, <1>3, <1>4, <1>5, <1>6 DEF Extends

\* The inductive invariant of the hierarchy, with those it rests on.
LEMMA HierarchyAlways == Spec => [](TypeInv /\ FramesAreAChain /\ HierarchyInv)
<1> DEFINE Inv == TypeInv /\ FramesAreAChain /\ HierarchyInv
<1>1. Init => Inv
  BY TypeInit, FramesInit, HierarchyInit
<1>2. Inv /\ [Next]_vars => Inv'
  BY TypeStep, FramesStep, HierarchyStep
<1> HIDE DEF Inv
<1>3. Spec => []Inv
  BY <1>1, <1>2, PTL DEF Spec
<1> QED BY <1>3 DEF Inv

\* The core result: virtual calls compiled against a class are right for every
\* subclass, loaded before or after, for hierarchies of any depth.
THEOREM SlotsAlwaysAgree == Spec => []SlotsAgree
BY HierarchyAlways, HierarchyGivesSlots, PTL

\* No class is linked to a super class that is not wholly defined.
THEOREM SuperAlwaysComplete == Spec => []SuperCompleteFirst
<1>1. HierarchyInv => SuperCompleteFirst
  BY DEF HierarchyInv
<1> QED BY HierarchyAlways, <1>1, PTL

\* The emitted array of a class never falls behind its vtable.
THEOREM TableAlwaysCurrent == Spec => []TableCurrent
<1>1. HierarchyInv => TableCurrent
  BY DEF HierarchyInv
<1> QED BY HierarchyAlways, <1>1, PTL

-----------------------------------------------------------------------------
(* Complete classes                                                        *)

\* No step touches what a complete class holds.
LEMMA FrozenStep ==
    ASSUME TypeInv, [Next]_vars, NEW c \in ClassName, phase[c] = "complete"
    PROVE  /\ phase'[c] = "complete"
           /\ vtable'[c] = vtable[c]
           /\ ancestors'[c] = ancestors[c]
           /\ table'[c] = table[c]
<1>1. c \in DOMAIN vtable /\ c \in DOMAIN ancestors /\ c \in DOMAIN table
  BY DEF TypeInv, TypeOK, StageHasTables, Linked
<1>2. phase \in [ClassName -> Phases]
  BY DEF TypeInv, TypeOK
<1>3. CASE UNCHANGED <<phase, vtable, ancestors, table>>
  BY <1>3
<1>4. CASE RequestCreates
  BY <1>2, <1>4 DEF RequestCreates, InPool
<1>5. CASE SuperInPool
  BY <1>2, <1>5 DEF SuperInPool, At
<1>6. CASE SuperCreated
  BY <1>2, <1>6 DEF SuperCreated, At, InPool
<1>7. CASE LinkBase
  BY <1>1, <1>2, <1>7 DEF LinkBase, At, Put
<1>8. CASE LinkSuper
  BY <1>1, <1>2, <1>8 DEF LinkSuper, At, Put
<1>9. CASE DeclareOverride
  BY <1>1, <1>2, <1>9 DEF DeclareOverride, AtMethod, At, Put
<1>10. CASE DeclareNewSlot
  BY <1>1, <1>2, <1>10 DEF DeclareNewSlot, AtMethod, At, Put
<1>11. CASE EmitVTable
  BY <1>1, <1>2, <1>11 DEF EmitVTable, At, Put
<1>12. CASE FinishDefinition
  BY <1>2, <1>12 DEF FinishDefinition, At
<1> QED
  BY <1>3, <1>4, <1>5, <1>6, <1>7, <1>8, <1>9, <1>10, <1>11, <1>12
     DEF Next, vars, Terminated, RequestAnswered, SuperMissing,
         SuperUnfinished, DeclareNonVirtual, EmitNative, EmitAbstract,
         EmitDirectMethod, EmitVirtualMethod, Finish

\* Defining further classes never changes a complete one.
THEOREM CompleteStaysFrozen == Spec => CompleteIsFrozen
<1>1. TypeInv /\ [Next]_vars =>
         [\A c \in ClassName : phase[c] = "complete" =>
            /\ phase'[c] = "complete"
            /\ vtable'[c] = vtable[c]
            /\ ancestors'[c] = ancestors[c]
            /\ table'[c] = table[c]]_vars
  BY FrozenStep
<1> QED BY <1>1, TypeInit, TypeStep, PTL DEF Spec, CompleteIsFrozen

-----------------------------------------------------------------------------
(* Virtual lookups                                                         *)

\* Every virtual method the loop over the methods of c has passed has a slot.
VirtualsOf(c) ==
    Linked(c) =>
        \A i \in DOMAIN files[c].methods :
            /\ phase[c] = "methods" => i < next
            /\ IsVirtual(c, files[c].methods[i])
            => HasMethod(vtable[c], files[c].methods[i].key)

VirtualsDeclared == \A c \in ClassName : VirtualsOf(c)

LookupInv == VirtualsDeclared /\ LookupNeverFails

\* The class path is never written.
LEMMA FilesFixed == [Next]_vars => files' = files
  BY DEF Next, vars, Terminated, RequestAnswered, RequestCreates, SuperInPool,
         SuperCreated, SuperMissing, LinkBase, LinkSuper, SuperUnfinished,
         DeclareNonVirtual, DeclareOverride, DeclareNewSlot, EmitVTable,
         EmitNative, EmitAbstract, EmitDirectMethod, EmitVirtualMethod,
         FinishDefinition, Finish

\* Whether a method is virtual is settled when its class is linked: the answer
\* given when it was offered to the vtable is the one given at its thunk.
LEMMA IsVirtualStable ==
    ASSUME TypeInv, SuperCompleteFirst, [Next]_vars,
           NEW c \in ClassName, Linked(c), NEW i
    PROVE  IsVirtual(c, files[c].methods[i])' <=>
              IsVirtual(c, files[c].methods[i])
<1>1. files' = files
  BY FilesFixed
<1>2. CASE files[c].super = None
  BY <1>1, <1>2 DEF IsVirtual, CanBeOverridden, InheritsSlot
<1>3. CASE files[c].super # None
  <2>1. vtable'[files[c].super] = vtable[files[c].super]
    BY <1>3, SuperFacts, FrozenStep
  <2> QED BY <1>1, <2>1 DEF IsVirtual, CanBeOverridden, InheritsSlot, HasMethod
<1> QED BY <1>2, <1>3

\* A class whose loop does not move and whose vtable loses nothing keeps it.
LEMMA VirtualsCarry ==
    ASSUME TypeInv, SuperCompleteFirst, [Next]_vars, NEW c \in ClassName,
           VirtualsOf(c), Linked(c)' => Linked(c),
           Linked(c) /\ phase[c] = "methods" =>
              phase'[c] = "methods" /\ next' = next,
           Linked(c) => DOMAIN vtable[c].methods \subseteq
                           DOMAIN vtable'[c].methods
    PROVE  VirtualsOf(c)'
<1> SUFFICES ASSUME Linked(c)', NEW i \in DOMAIN files'[c].methods,
                    phase'[c] = "methods" => i < next',
                    IsVirtual(c, files[c].methods[i])'
             PROVE  HasMethod(vtable'[c], files'[c].methods[i].key)
  BY DEF VirtualsOf
<1>1. files' = files /\ Linked(c)
  BY FilesFixed
<1>2. IsVirtual(c, files[c].methods[i])
  BY <1>1, IsVirtualStable
<1>3. HasMethod(vtable[c], files[c].methods[i].key)
  BY <1>1, <1>2 DEF VirtualsOf
<1> QED BY <1>1, <1>3 DEF HasMethod

\* Every step keeps LookupInv; the step that emits a thunk needs it.
LEMMA LookupStep ==
    TypeInv /\ FramesAreAChain /\ HierarchyInv /\ LookupInv /\ [Next]_vars
        => LookupInv'
<1> SUFFICES ASSUME TypeInv, FramesAreAChain, HierarchyInv, LookupInv,
                    [Next]_vars
             PROVE  LookupInv'
  OBVIOUS
<1>1. SuperCompleteFirst /\ \A c \in ClassName : VirtualsOf(c)
  BY DEF HierarchyInv, LookupInv, VirtualsDeclared
<1>2. phase \in [ClassName -> Phases] /\ next \in Nat
  BY DEF TypeInv, TypeOK
<1>3. ASSUME NEW c \in ClassName, Linked(c), c # Top
      PROVE  phase[c] = "complete"
  BY <1>3, OnlyTopRuns DEF Linked
<1>4. SUFFICES VirtualsDeclared' /\ outcome' # "no_virtual_method"
  BY DEF LookupInv, LookupNeverFails
<1>5. outcome # "no_virtual_method"
  BY DEF LookupInv, LookupNeverFails
<1>6. CASE UNCHANGED <<phase, next, vtable>> /\ outcome' # "no_virtual_method"
  BY <1>1, <1>6, VirtualsCarry DEF VirtualsDeclared, Linked
<1>7. CASE RequestCreates
  BY <1>1, <1>2, <1>5, <1>7, VirtualsCarry
     DEF RequestCreates, InPool, VirtualsDeclared, Linked
<1>8. CASE SuperInPool
  BY <1>1, <1>2, <1>5, <1>8, VirtualsCarry
     DEF SuperInPool, At, VirtualsDeclared, Linked
<1>9. CASE SuperCreated
  BY <1>1, <1>2, <1>5, <1>9, VirtualsCarry
     DEF SuperCreated, At, InPool, VirtualsDeclared, Linked
<1>10. CASE FinishDefinition
  BY <1>1, <1>2, <1>5, <1>10, VirtualsCarry
     DEF FinishDefinition, At, VirtualsDeclared, Linked
<1>11. ASSUME LinkBase \/ LinkSuper
       PROVE  VirtualsDeclared' /\ outcome' # "no_virtual_method"
  <2>1. /\ Top \in ClassName
        /\ phase' = [phase EXCEPT ![Top] = "methods"]
        /\ next' = 1 /\ outcome' = outcome
        /\ \A c \in DOMAIN vtable : c # Top => vtable'[c] = vtable[c]
    BY <1>11, TopFacts DEF LinkBase, LinkSuper, At, Put
  <2>2. ASSUME NEW c \in ClassName
        PROVE  VirtualsOf(c)'
    <3>1. CASE c = Top
      <4>1. phase'[c] = "methods"
        BY <3>1, <2>1, <1>2
      <4>2. \A i \in DOMAIN files'[c].methods : ~(i < next')
        <5>1. DOMAIN files'[c].methods = 1..Len(files[c].methods)
          BY <3>1, <1>11, TopFacts, FilesFixed
             DEF LinkBase, LinkSuper, At, TopMethods
        <5> QED BY <5>1, <2>1
      <4> QED BY <4>1, <4>2 DEF VirtualsOf
    <3>2. CASE c # Top
      <4>1. Linked(c)' => Linked(c) /\ c \in DOMAIN vtable
        BY <3>2, <2>1, <1>2 DEF Linked, TypeInv, StageHasTables
      <4>2. Linked(c) => phase[c] = "complete" /\ vtable'[c] = vtable[c]
        BY <3>2, <2>1, <1>3 DEF TypeInv, StageHasTables
      <4> QED BY <4>1, <4>2, <1>1, VirtualsCarry
    <3> QED BY <3>1, <3>2
  <2> QED BY <2>1, <2>2, <1>5 DEF VirtualsDeclared
<1>12. ASSUME DeclareNonVirtual \/ DeclareOverride \/ DeclareNewSlot
       PROVE  VirtualsDeclared' /\ outcome' # "no_virtual_method"
  <2> DEFINE k == TopMethods[next].key
  <2>1. /\ Top \in ClassName /\ Top \in DOMAIN vtable
        /\ phase[Top] = "methods" /\ phase' = phase
        /\ k \in MethodKey
        /\ next' = next + 1 /\ outcome' = outcome
        /\ \A i \in DOMAIN TopMethods : i \in Nat
    BY <1>12, TopFacts
       DEF DeclareNonVirtual, DeclareOverride, DeclareNewSlot, AtMethod, At,
           Method, TypeInv, StageHasTables, Linked
  <2>2. \A c \in DOMAIN vtable : c # Top => vtable'[c] = vtable[c]
    BY <1>12 DEF DeclareNonVirtual, DeclareOverride, DeclareNewSlot, Put
  <2>3. DOMAIN vtable[Top].methods \subseteq DOMAIN vtable'[Top].methods
    <3>1. CASE DeclareNonVirtual
      BY <3>1 DEF DeclareNonVirtual
    <3>2. CASE DeclareOverride
      BY <3>2, <2>1 DEF DeclareOverride, Put, ReplaceSlot
    <3>3. CASE DeclareNewSlot
      BY <3>3, <2>1 DEF DeclareNewSlot, Put, AppendSlot
    <3> QED BY <1>12, <3>1, <3>2, <3>3
  <2>4. IsVirtual(Top, TopMethods[next]) => HasMethod(vtable'[Top], k)
    <3>1. CASE DeclareNonVirtual
      BY <3>1 DEF DeclareNonVirtual
    <3>2. CASE DeclareOverride
      BY <3>2, <2>1 DEF DeclareOverride, Put, ReplaceSlot, HasMethod
    <3>3. CASE DeclareNewSlot
      BY <3>3, <2>1 DEF DeclareNewSlot, Put, AppendSlot, HasMethod
    <3> QED BY <1>12, <3>1, <3>2, <3>3
  <2>5. ASSUME NEW c \in ClassName, c # Top
        PROVE  VirtualsOf(c)'
    <3>1. Linked(c)' => Linked(c)
      BY <2>1 DEF Linked
    <3>2. Linked(c) => phase[c] = "complete" /\ vtable'[c] = vtable[c]
      BY <2>2, <2>5, <1>3 DEF TypeInv, StageHasTables
    <3> QED BY <3>1, <3>2, <1>1, VirtualsCarry
  <2>6. ASSUME NEW c \in ClassName, c = Top
        PROVE  VirtualsOf(c)'
    <3> SUFFICES ASSUME NEW i \in DOMAIN files[c].methods, i < next',
                        IsVirtual(c, files[c].methods[i])'
                 PROVE  HasMethod(vtable'[c], files[c].methods[i].key)
      BY <2>1, <2>6, FilesFixed DEF VirtualsOf
    <3>1. IsVirtual(c, files[c].methods[i])
      BY <2>1, <2>6, <1>1, IsVirtualStable DEF Linked
    <3>2. i < next \/ i = next
      BY <2>1, <2>6, <1>2 DEF TopMethods
    <3>3. CASE i = next
      BY <3>1, <3>3, <2>4, <2>6 DEF TopMethods
    <3>4. CASE i < next
      <4>1. HasMethod(vtable[c], files[c].methods[i].key)
        BY <3>1, <3>4, <2>1, <2>6, <1>1 DEF VirtualsOf, Linked
      <4> QED BY <4>1, <2>3, <2>6 DEF HasMethod
    <3> QED BY <3>2, <3>3, <3>4
  <2> QED BY <2>1, <2>5, <2>6, <1>5 DEF VirtualsDeclared
<1>13. CASE EmitVTable
  <2>1. /\ Top \in ClassName /\ phase[Top] = "methods"
        /\ phase' = [phase EXCEPT ![Top] = "bodies"]
        /\ vtable' = vtable /\ outcome' = outcome
        /\ \A i \in DOMAIN TopMethods : i < next
    BY <1>2, <1>13, TopFacts DEF EmitVTable, At
  <2>2. ASSUME NEW c \in ClassName, c # Top
        PROVE  VirtualsOf(c)'
    <3>1. Linked(c)' => Linked(c)
      BY <2>1, <2>2, <1>2 DEF Linked
    <3>2. Linked(c) => phase[c] = "complete"
      BY <2>2, <1>3
    <3> QED BY <3>1, <3>2, <2>1, <1>1, VirtualsCarry
  <2>3. ASSUME NEW c \in ClassName, c = Top
        PROVE  VirtualsOf(c)'
    <3> SUFFICES ASSUME NEW i \in DOMAIN files[c].methods,
                        IsVirtual(c, files[c].methods[i])'
                 PROVE  HasMethod(vtable[c], files[c].methods[i].key)
      BY <2>1, FilesFixed DEF VirtualsOf
    <3>1. Linked(c) /\ i < next
      BY <2>1, <2>3 DEF Linked, TopMethods
    <3>2. IsVirtual(c, files[c].methods[i])
      BY <3>1, <1>1, IsVirtualStable
    <3> QED BY <3>1, <3>2, <1>1 DEF VirtualsOf
  <2> QED BY <2>1, <2>2, <2>3, <1>5 DEF VirtualsDeclared
<1>14. ASSUME EmitNative \/ EmitDirectMethod \/ EmitVirtualMethod
       PROVE  VirtualsDeclared' /\ outcome' # "no_virtual_method"
  <2>1. /\ Top \in ClassName /\ phase[Top] = "bodies"
        /\ phase' = phase /\ vtable' = vtable
        /\ next \in DOMAIN TopMethods
    BY <1>14, TopFacts
       DEF EmitNative, EmitDirectMethod, EmitVirtualMethod, AtCode, AtBody, At
  <2>2. ASSUME NEW c \in ClassName
        PROVE  VirtualsOf(c)'
    <3>1. Linked(c) => phase[c] # "methods"
      BY <2>1, <1>3
    <3>2. Linked(c)' => Linked(c)
      BY <2>1 DEF Linked
    <3> QED BY <3>1, <3>2, <2>1, <1>1, VirtualsCarry
  <2>3. IsVirtual(Top, TopMethods[next]) =>
           HasMethod(vtable[Top], TopMethods[next].key)
    BY <2>1, <1>1 DEF VirtualsOf, Linked, TopMethods
  <2>4. outcome' # "no_virtual_method"
    BY <2>3, <1>5, <1>14
       DEF EmitNative, EmitDirectMethod, EmitVirtualMethod, HasMethod
  <2> QED BY <2>2, <2>4 DEF VirtualsDeclared
<1> QED
  BY <1>5, <1>6, <1>7, <1>8, <1>9, <1>10, <1>11, <1>12, <1>13, <1>14
     DEF Next, vars, Terminated, RequestAnswered, SuperMissing,
         SuperUnfinished, EmitAbstract, Finish

\* Init has no linked class.
LEMMA LookupInit == Init => LookupInv
  BY DEF Init, LookupInv, VirtualsDeclared, VirtualsOf, Linked,
         LookupNeverFails

\* EmitVirtualLookup finds every method it is asked for: its exception for a
\* missing virtual method cannot be raised by any class file.
THEOREM LookupAlwaysSucceeds == Spec => []LookupNeverFails
<1> DEFINE Inv == TypeInv /\ FramesAreAChain /\ HierarchyInv /\ LookupInv
<1>1. Init => Inv
  BY TypeInit, FramesInit, HierarchyInit, LookupInit
<1>2. Inv /\ [Next]_vars => Inv'
  BY TypeStep, FramesStep, HierarchyStep, LookupStep
<1>3. Inv => LookupNeverFails
  BY DEF LookupInv
<1> HIDE DEF Inv
<1> QED BY <1>1, <1>2, <1>3, PTL DEF Spec
-----------------------------------------------------------------------------
(* Thunks                                                                  *)

Emitting(c) == phase[c] \in {"bodies", "complete"}

\* The method m of c has its thunk, at the slot it has in the vtable of c.
HasThunk(c, m) ==
    \E t \in thunks : /\ t.class = c
                      /\ t.key = m.key
                      /\ t.index = vtable[c].methods[m.key]

\* Every virtual method the loop over the bodies of c has passed has a thunk.
ThunksOf(c) ==
    Emitting(c) =>
        \A i \in DOMAIN files[c].methods :
            LET m == files[c].methods[i]
            IN (/\ phase[c] = "bodies" => i < next
                /\ IsVirtual(c, m)
                /\ ~m.native) => HasThunk(c, m)

ThunkInv == \A c \in ClassName : ThunksOf(c)

\* A class whose loop does not move, and whose vtable stays, keeps its thunks.
LEMMA ThunksCarry ==
    ASSUME TypeInv, SuperCompleteFirst, [Next]_vars, NEW c \in ClassName,
           ThunksOf(c), Emitting(c)' => Emitting(c),
           Emitting(c) /\ phase[c] = "bodies" =>
              \/ phase'[c] = "complete"
                 /\ \A i \in DOMAIN files[c].methods : i < next
              \/ phase'[c] = "bodies" /\ next' = next,
           Emitting(c) => vtable'[c] = vtable[c],
           thunks \subseteq thunks'
    PROVE  ThunksOf(c)'
<1> SUFFICES ASSUME Emitting(c)', NEW i \in DOMAIN files'[c].methods,
                    phase'[c] = "bodies" => i < next',
                    IsVirtual(c, files[c].methods[i])',
                    ~files'[c].methods[i].native
             PROVE  HasThunk(c, files[c].methods[i])'
  BY DEF ThunksOf
<1>1. files' = files /\ Emitting(c) /\ Linked(c)
  BY FilesFixed DEF Emitting, Linked
<1>2. IsVirtual(c, files[c].methods[i])
  BY <1>1, IsVirtualStable
<1>3. phase[c] = "bodies" => i < next
  BY <1>1
<1>4. HasThunk(c, files[c].methods[i])
  BY <1>1, <1>2, <1>3 DEF ThunksOf
<1>5. vtable'[c] = vtable[c]
  BY <1>1
<1> QED BY <1>1, <1>4, <1>5 DEF HasThunk

\* A step that leaves every class that emits its bodies where it is, or lets it
\* return behind its last method, keeps ThunkInv.
LEMMA ThunksKept ==
    ASSUME TypeInv, SuperCompleteFirst, ThunkInv, [Next]_vars,
           \A c \in ClassName :
              /\ Emitting(c)' => Emitting(c)
              /\ phase[c] = "bodies" =>
                    \/ phase'[c] = "complete"
                       /\ \A i \in DOMAIN files[c].methods : i < next
                    \/ phase'[c] = "bodies" /\ next' = next
              /\ Emitting(c) => vtable'[c] = vtable[c],
           thunks \subseteq thunks'
    PROVE  ThunkInv'
BY ThunksCarry DEF ThunkInv

\* Every step keeps ThunkInv: only the steps over the bodies move the loop, and
\* the one over a virtual method emits its thunk.
LEMMA ThunkStep ==
    TypeInv /\ FramesAreAChain /\ HierarchyInv /\ LookupInv /\ ThunkInv
        /\ [Next]_vars => ThunkInv'
<1> SUFFICES ASSUME TypeInv, FramesAreAChain, HierarchyInv, LookupInv, ThunkInv,
                    [Next]_vars
             PROVE  ThunkInv'
  OBVIOUS
<1>1. SuperCompleteFirst /\ \A c \in ClassName : ThunksOf(c) /\ VirtualsOf(c)
  BY DEF HierarchyInv, LookupInv, VirtualsDeclared, ThunkInv
<1>2. phase \in [ClassName -> Phases] /\ next \in Nat /\ files' = files
  BY FilesFixed DEF TypeInv, TypeOK
<1>3. ASSUME NEW c \in ClassName, Emitting(c), c # Top
      PROVE  phase[c] = "complete"
  BY <1>3, OnlyTopRuns DEF Emitting
<1>4. \A c \in ClassName : Emitting(c) => c \in DOMAIN vtable
  BY DEF Emitting, Linked, TypeInv, StageHasTables
<1>5. CASE UNCHANGED <<phase, next, vtable, thunks>>
  BY <1>1, <1>5, ThunksKept DEF Emitting
<1>6. CASE RequestCreates
  BY <1>1, <1>2, <1>6, ThunksKept DEF RequestCreates, InPool, Emitting
<1>7. CASE SuperInPool
  BY <1>1, <1>2, <1>7, ThunksKept DEF SuperInPool, At, Emitting
<1>8. CASE SuperCreated
  BY <1>1, <1>2, <1>8, ThunksKept DEF SuperCreated, At, InPool, Emitting
<1>9. CASE LinkBase \/ LinkSuper
  <2>1. /\ Top \in ClassName /\ ~Emitting(Top)
        /\ phase' = [phase EXCEPT ![Top] = "methods"]
        /\ thunks' = thunks
        /\ \A c \in DOMAIN vtable : c # Top => vtable'[c] = vtable[c]
    BY <1>9, TopFacts DEF LinkBase, LinkSuper, At, Put, Emitting
  <2>2. \A c \in ClassName : phase[c] = "bodies" => c = Top
    BY <1>3 DEF Emitting
  <2>3. \A c \in ClassName : Emitting(c)' => Emitting(c)
    BY <2>1, <1>2 DEF Emitting
  <2>4. \A c \in ClassName : phase[c] # "bodies"
    BY <2>1, <2>2 DEF Emitting
  <2>5. \A c \in ClassName : Emitting(c) => vtable'[c] = vtable[c]
    BY <2>1, <1>4
  <2> QED BY <1>1, <2>1, <2>3, <2>4, <2>5, ThunksKept
<1>10. CASE DeclareNonVirtual \/ DeclareOverride \/ DeclareNewSlot
  <2>1. /\ Top \in ClassName /\ phase[Top] = "methods"
        /\ phase' = phase /\ thunks' = thunks
        /\ \A c \in DOMAIN vtable : c # Top => vtable'[c] = vtable[c]
    BY <1>10, TopFacts DEF DeclareNonVirtual, DeclareOverride, DeclareNewSlot,
       AtMethod, At, Put
  <2>2. \A c \in ClassName : phase[c] # "bodies"
    BY <2>1, <1>3 DEF Emitting
  <2>3. \A c \in ClassName : Emitting(c)' => Emitting(c)
    BY <2>1 DEF Emitting
  <2>4. \A c \in ClassName : Emitting(c) => vtable'[c] = vtable[c]
    BY <2>1, <1>4 DEF Emitting
  <2> QED BY <1>1, <2>1, <2>2, <2>3, <2>4, ThunksKept
<1>11. CASE EmitVTable
  <2>1. /\ Top \in ClassName /\ phase[Top] = "methods"
        /\ phase' = [phase EXCEPT ![Top] = "bodies"]
        /\ next' = 1 /\ vtable' = vtable /\ thunks' = thunks
        /\ DOMAIN files[Top].methods = 1..Len(files[Top].methods)
    BY <1>11, TopFacts DEF EmitVTable, At, TopMethods
  <2>2. ASSUME NEW c \in ClassName, c # Top
        PROVE  ThunksOf(c)'
    <3>1. Emitting(c)' => Emitting(c)
      BY <2>1, <2>2, <1>2 DEF Emitting
    <3>2. Emitting(c) => phase[c] = "complete"
      BY <2>2, <1>3
    <3> QED BY <1>1, <2>1, <3>1, <3>2, ThunksCarry
  <2>3. ASSUME NEW c \in ClassName, c = Top
        PROVE  ThunksOf(c)'
    <3>1. phase'[c] = "bodies" /\ files'[c] = files[c]
      BY <2>1, <2>3, <1>2
    <3>2. \A i \in DOMAIN files'[c].methods : ~(i < next')
      BY <2>1, <2>3, <3>1
    <3> QED BY <3>1, <3>2 DEF ThunksOf
  <2> QED BY <2>2, <2>3 DEF ThunkInv
<1>12. CASE EmitNative \/ EmitDirectMethod \/ EmitVirtualMethod
  <2>1. /\ Top \in ClassName /\ phase[Top] = "bodies"
        /\ phase' = phase /\ vtable' = vtable /\ next' = next + 1
        /\ next \in DOMAIN TopMethods /\ thunks \subseteq thunks'
        /\ \A i \in DOMAIN TopMethods : i \in Nat
    BY <1>12, TopFacts
       DEF EmitNative, EmitDirectMethod, EmitVirtualMethod, AtCode, AtBody, At
  <2>2. ASSUME NEW c \in ClassName, c = Top,
               NEW m, m = files[c].methods[next],
               IsVirtual(c, m), ~m.native
        PROVE  HasThunk(c, m)'
    <3>1. EmitVirtualMethod
      BY <1>12, <2>2 DEF EmitNative, EmitDirectMethod, TopMethods
    <3>2. m.key \in DOMAIN vtable[c].methods
      BY <2>1, <2>2, <1>1 DEF VirtualsOf, Linked, TopMethods, HasMethod
    <3>3. [class |-> c, key |-> m.key, index |-> vtable[c].methods[m.key]]
             \in thunks'
      BY <2>2, <3>1, <3>2 DEF EmitVirtualMethod, TopMethods
    <3>4. vtable' = vtable
      BY <2>1
    <3> QED BY <3>3, <3>4 DEF HasThunk
  <2>3. ASSUME NEW c \in ClassName, c # Top
        PROVE  ThunksOf(c)'
    <3>1. Emitting(c)' => Emitting(c)
      BY <2>1 DEF Emitting
    <3>2. Emitting(c) => phase[c] = "complete"
      BY <2>3, <1>3
    <3> QED BY <1>1, <2>1, <3>1, <3>2, ThunksCarry
  <2>4. ASSUME NEW c \in ClassName, c = Top
        PROVE  ThunksOf(c)'
    <3> SUFFICES ASSUME NEW i \in DOMAIN files[c].methods, i < next',
                        IsVirtual(c, files[c].methods[i])',
                        ~files[c].methods[i].native
                 PROVE  HasThunk(c, files[c].methods[i])'
      BY <1>2, <2>1, <2>4 DEF ThunksOf
    <3>1. IsVirtual(c, files[c].methods[i])
      BY <1>1, <2>1, <2>4, IsVirtualStable DEF Linked
    <3>2. i < next \/ i = next
      BY <2>1, <2>4, <1>2 DEF TopMethods
    <3>3. CASE i = next
      <4>1. PICK m : m = files[c].methods[i]
        OBVIOUS
      <4>2. IsVirtual(c, m) /\ ~m.native /\ m = files[c].methods[next]
        BY <4>1, <3>1, <3>3
      <4>3. HasThunk(c, m)'
        BY <4>2, <2>2, <2>4
      <4> QED BY <4>1, <4>3, <1>2 DEF HasThunk
    <3>4. CASE i < next
      <4>1. HasThunk(c, files[c].methods[i])
        BY <3>1, <3>4, <2>1, <2>4, <1>1 DEF ThunksOf, Emitting
      <4> QED BY <4>1, <2>1, <1>2 DEF HasThunk
    <3> QED BY <3>2, <3>3, <3>4
  <2> QED BY <2>3, <2>4 DEF ThunkInv
<1>13. CASE FinishDefinition
  <2>1. /\ Top \in ClassName /\ phase[Top] = "bodies"
        /\ phase' = [phase EXCEPT ![Top] = "complete"]
        /\ vtable' = vtable /\ thunks' = thunks /\ next' = next
        /\ \A i \in DOMAIN files[Top].methods : i < next
    BY <1>2, <1>13, TopFacts DEF FinishDefinition, At, TopMethods
  <2>2. \A c \in ClassName : phase[c] = "bodies" => c = Top
    BY <1>3 DEF Emitting
  <2>3. \A c \in ClassName : Emitting(c)' => Emitting(c)
    BY <2>1, <1>2 DEF Emitting
  <2> QED BY <1>1, <1>2, <2>1, <2>2, <2>3, ThunksKept
<1> QED
  BY <1>5, <1>6, <1>7, <1>8, <1>9, <1>10, <1>11, <1>12, <1>13
     DEF Next, vars, Terminated, RequestAnswered, SuperMissing,
         SuperUnfinished, EmitAbstract, Finish

\* A call that was compiled to the thunk of a method finds one, once the class
\* of the method is complete: no method is virtual for its callers, or for the
\* vtable, and not when its body is emitted.
THEOREM ThunksAlwaysEmitted == Spec => []ThunkForEveryVirtual
<1> DEFINE Inv == /\ TypeInv /\ FramesAreAChain /\ HierarchyInv
                  /\ LookupInv /\ ThunkInv
<1>1. Init => Inv
  <2>1. Init => ThunkInv
    BY DEF Init, ThunkInv, ThunksOf, Emitting
  <2> QED BY <2>1, TypeInit, FramesInit, HierarchyInit, LookupInit
<1>2. Inv /\ [Next]_vars => Inv'
  BY TypeStep, FramesStep, HierarchyStep, LookupStep, ThunkStep
<1>3. Inv => ThunkForEveryVirtual
  BY DEF ThunkInv, ThunksOf, Emitting, HasThunk, ThunkForEveryVirtual
<1> HIDE DEF Inv
<1> QED BY <1>1, <1>2, <1>3, PTL DEF Spec

-----------------------------------------------------------------------------
(* Outcomes                                                                *)

\* Once the compilation has ended nothing changes.
LEMMA EndedStays == ~Running /\ [Next]_vars => UNCHANGED vars
  BY DEF Next, Terminated, RequestAnswered, RequestCreates, SuperInPool,
         SuperCreated, SuperMissing, LinkBase, LinkSuper, SuperUnfinished,
         DeclareNonVirtual, DeclareOverride, DeclareNewSlot, EmitVTable,
         EmitNative, EmitAbstract, EmitDirectMethod, EmitVirtualMethod,
         FinishDefinition, Finish, At, AtMethod, AtBody, AtCode

\* Every step keeps OutcomeExplained, given the chain of frames: a super class
\* in the pool that has no vtable waits in a frame of its own, and when there
\* is no frame nothing is half defined.
LEMMA OutcomeStep ==
    TypeInv /\ FramesAreAChain /\ OutcomeExplained /\ [Next]_vars
        => OutcomeExplained'
<1> SUFFICES ASSUME TypeInv, FramesAreAChain, OutcomeExplained, [Next]_vars
             PROVE  OutcomeExplained'
  OBVIOUS
<1>1. CASE ~Running
  BY <1>1, EndedStays DEF vars, OutcomeExplained, TopSuper, Top
<1>2. CASE Running /\ outcome' \in {"running", "no_virtual_method", "null_code",
                                    "null_unit"}
  BY <1>2 DEF OutcomeExplained
<1>3. CASE SuperMissing
  BY <1>3, TopFacts DEF SuperMissing, At, OutcomeExplained, TopSuper, Top
<1>4. CASE SuperUnfinished
  <2>1. /\ Top \in ClassName /\ phase[Top] = "link"
        /\ TopSuper \notin DOMAIN vtable
        /\ UNCHANGED <<files, calls>>
        /\ outcome' = "bad_optional_access"
    BY <1>4, TopFacts DEF SuperUnfinished, At
  <2>2. TopSuper \in ClassName /\ InPool(TopSuper)
    BY <1>4, <2>1, TopFacts DEF SuperUnfinished, At, TypeInv, PoolKnown,
       TopSuper
  <2>3. phase[TopSuper] \notin {"absent", "complete"}
    BY <2>1, <2>2 DEF InPool, TypeInv, StageHasTables, Linked
  <2>4. \E i \in DOMAIN calls : calls[i] = TopSuper
    BY <2>2, <2>3 DEF FramesAreAChain
  <2> QED BY <2>1, <2>4 DEF OutcomeExplained, TopSuper, Top
<1>5. CASE Finish
  <2>1. calls = <<>> /\ phase' = phase
        /\ outcome' = IF \E c \in ClassName : InPool(c) THEN "emitted"
                                                        ELSE "null_unit"
    BY <1>5 DEF Finish
  <2>2. \A c \in ClassName : phase[c] \in {"absent", "complete"}
    BY <2>1 DEF FramesAreAChain
  <2> QED BY <2>1, <2>2 DEF OutcomeExplained, InPool
<1>6. CASE UNCHANGED vars
  BY <1>6 DEF vars, OutcomeExplained, TopSuper, Top
<1> QED
  BY <1>1, <1>2, <1>3, <1>4, <1>5, <1>6
     DEF Next, Running, Terminated, RequestAnswered, RequestCreates,
         SuperInPool, SuperCreated, LinkBase, LinkSuper, DeclareNonVirtual,
         DeclareOverride, DeclareNewSlot, EmitVTable, EmitNative, EmitAbstract,
         EmitDirectMethod, EmitVirtualMethod, FinishDefinition

\* A failure on a super class is the circle or the missing class file it is
\* reported for, and a unit that is handed on holds complete classes only, for
\* any hierarchy and any roots.
THEOREM OutcomeAlwaysExplained == Spec => []OutcomeExplained
<1> DEFINE Inv == TypeInv /\ FramesAreAChain /\ OutcomeExplained
<1>1. Init => Inv
  <2>1. Init => OutcomeExplained
    BY DEF Init, OutcomeExplained
  <2> QED BY <2>1, TypeInit, FramesInit
<1>2. Inv /\ [Next]_vars => Inv'
  BY TypeStep, FramesStep, OutcomeStep
<1>3. Inv => OutcomeExplained
  OBVIOUS
<1> HIDE DEF Inv
<1> QED BY <1>1, <1>2, <1>3, PTL DEF Spec

-----------------------------------------------------------------------------
(* Dispatch                                                                *)

\* The class whose method a call of each key runs, by the slots of a vtable.
Selects(vt) ==
    [k \in DOMAIN vt.methods |-> vt.entries[vt.methods[k] + 1].class]

\* The same, by an emitted table alone.
TableSelects(t) ==
    [k \in KeysOf(t) |->
        (CHOOSE s \in {t[i] : i \in DOMAIN t} : s.key = k).class]

Selection(own, c, base) ==
    [k \in own \cup DOMAIN base |-> IF k \in own THEN c ELSE base[k]]

Base(c) == IF files[c].super = None THEN [k \in {} |-> c]
           ELSE Selects(vtable[files[c].super])

\* The virtual methods that the loop over the methods of c has passed at n.
OwnBefore(c, n) ==
    {files[c].methods[i].key :
       i \in {j \in DOMAIN files[c].methods :
                j < n /\ IsVirtual(c, files[c].methods[j])}}

\* While its methods are offered, the vtable of a class selects what was
\* declared so far, and what the super class selects.
DispatchInv ==
    \A c \in ClassName : phase[c] = "methods" =>
        Selects(vtable[c]) = Selection(OwnBefore(c, next), c, Base(c))

\* The two readings agree on a coherent vtable.
LEMMA TableSelectsFacts ==
    ASSUME NEW vt, IsVTable(vt), Coherent(vt)
    PROVE  TableSelects(vt.entries) = Selects(vt)
<1>1. /\ vt.entries \in Seq(Slot) /\ DOMAIN vt.entries = 1..Len(vt.entries)
      /\ Len(vt.entries) \in Nat
      /\ \A k \in DOMAIN vt.methods : vt.methods[k] \in Nat
  BY DEF IsVTable
<1>2. \A k \in DOMAIN vt.methods :
         /\ vt.methods[k] + 1 \in DOMAIN vt.entries
         /\ vt.entries[vt.methods[k] + 1].key = k
  BY <1>1 DEF Coherent
<1>3. \A i \in DOMAIN vt.entries : /\ vt.entries[i].key \in DOMAIN vt.methods
                                   /\ vt.methods[vt.entries[i].key] + 1 = i
  BY <1>1 DEF Coherent
<1>4. KeysOf(vt.entries) = DOMAIN vt.methods
  BY <1>2, <1>3 DEF KeysOf
<1>5. ASSUME NEW k \in DOMAIN vt.methods
      PROVE  (CHOOSE s \in {vt.entries[i] : i \in DOMAIN vt.entries} :
                 s.key = k) = vt.entries[vt.methods[k] + 1]
  <2> DEFINE S == {vt.entries[i] : i \in DOMAIN vt.entries}
             e == vt.entries[vt.methods[k] + 1]
  <2>1. e \in S /\ e.key = k
    BY <1>2
  <2>2. \A s \in S : s.key = k => s = e
    BY <1>3
  <2> HIDE DEF S, e
  <2>3. (CHOOSE s \in S : s.key = k) = e
    BY <2>1, <2>2
  <2> QED BY <2>3 DEF S, e
<1>6. \A k \in DOMAIN vt.methods :
         TableSelects(vt.entries)[k] = vt.entries[vt.methods[k] + 1].class
  BY <1>4, <1>5 DEF TableSelects
<1>7. /\ DOMAIN TableSelects(vt.entries) = DOMAIN vt.methods
      /\ TableSelects(vt.entries) =
           [k \in DOMAIN TableSelects(vt.entries) |-> TableSelects(vt.entries)[k]]
  BY <1>4 DEF TableSelects
<1> QED BY <1>6, <1>7 DEF Selects

\* An override changes what one key selects, a new slot adds one.
LEMMA SelectsReplace ==
    ASSUME NEW vt, IsVTable(vt), Coherent(vt), NEW k \in MethodKey,
           HasMethod(vt, k), NEW c \in ClassName
    PROVE  Selects(ReplaceSlot(vt, k, c)) = [Selects(vt) EXCEPT ![k] = c]
<1> DEFINE p == vt.methods[k] + 1
           s == [class |-> c, key |-> k]
           e == [vt.entries EXCEPT ![p] = s]
           w == ReplaceSlot(vt, k, c)
<1>1. w.entries = e /\ w.methods = vt.methods
  BY DEF ReplaceSlot
<1>2. \A j \in DOMAIN vt.methods : /\ vt.methods[j] \in Nat
                                   /\ vt.methods[j] + 1 \in DOMAIN vt.entries
                                   /\ vt.entries[vt.methods[j] + 1].key = j
  BY DEF IsVTable, Coherent
<1>3. \A j \in DOMAIN vt.methods : vt.methods[j] + 1 = p => j = k
  BY <1>2 DEF HasMethod
<1>4. e[p] = s /\ s.class = c
  BY <1>2 DEF HasMethod
<1>5. \A j \in DOMAIN vt.methods : j # k =>
         e[vt.methods[j] + 1] = vt.entries[vt.methods[j] + 1]
  BY <1>2, <1>3
<1> HIDE DEF e, s, p, w
<1>6. \A j \in DOMAIN vt.methods :
         e[vt.methods[j] + 1].class =
            IF j = k THEN c ELSE vt.entries[vt.methods[j] + 1].class
  BY <1>4, <1>5 DEF p
<1>7. Selects(w) = [j \in DOMAIN vt.methods |-> e[vt.methods[j] + 1].class]
  BY <1>1 DEF Selects
<1> QED BY <1>6, <1>7 DEF Selects, w

LEMMA SelectsAppend ==
    ASSUME NEW vt, IsVTable(vt), Coherent(vt), NEW k \in MethodKey,
           ~HasMethod(vt, k), NEW c \in ClassName
    PROVE  Selects(AppendSlot(vt, k, c)) = Put(Selects(vt), k, c)
<1> DEFINE s == [class |-> c, key |-> k]
           e == Append(vt.entries, s)
           f == Put(vt.methods, k, Len(vt.entries))
           w == AppendSlot(vt, k, c)
<1>1. w.entries = e /\ w.methods = f
  BY DEF AppendSlot
<1>2. s \in Slot /\ s.class = c
  BY DEF Slot
<1>3. /\ e[Len(vt.entries) + 1] = s
      /\ \A i \in 1..Len(vt.entries) : e[i] = vt.entries[i]
      /\ Len(vt.entries) \in Nat
  BY <1>2, AppendProperties DEF IsVTable
<1>4. /\ DOMAIN f = DOMAIN vt.methods \cup {k} /\ f[k] = Len(vt.entries)
      /\ \A j \in DOMAIN vt.methods : f[j] = vt.methods[j] /\ j # k
  BY DEF Put, HasMethod
<1>5. \A j \in DOMAIN vt.methods :
         vt.methods[j] \in Nat /\ vt.methods[j] + 1 \in 1..Len(vt.entries)
  BY <1>3 DEF IsVTable, Coherent
<1> HIDE DEF e, f, s, w
<1>6. \A j \in DOMAIN vt.methods :
         e[f[j] + 1].class = vt.entries[vt.methods[j] + 1].class
  BY <1>3, <1>4, <1>5
<1>7. e[f[k] + 1].class = c
  BY <1>2, <1>3, <1>4
<1>8. Selects(w) = [j \in DOMAIN f |-> e[f[j] + 1].class]
  BY <1>1 DEF Selects
<1> QED BY <1>4, <1>6, <1>7, <1>8 DEF Selects, Put, w

LEMMA DispatchInit == Init => DispatchInv
  BY DEF Init, DispatchInv

\* What a class under way selects is known from its super class, its methods and
\* how many of them were offered.
LEMMA BaseStable ==
    ASSUME TypeInv, SuperCompleteFirst, [Next]_vars,
           NEW c \in ClassName, Linked(c)
    PROVE  /\ Base(c)' = Base(c)
           /\ \A n : OwnBefore(c, n)' = OwnBefore(c, n)
<1>1. files' = files
  BY FilesFixed
<1>2. \A i : IsVirtual(c, files[c].methods[i])' <=>
                IsVirtual(c, files[c].methods[i])
  BY IsVirtualStable
<1>3. \A n : OwnBefore(c, n)' = OwnBefore(c, n)
  BY <1>1, <1>2 DEF OwnBefore
<1>4. CASE files[c].super = None
  BY <1>1, <1>3, <1>4 DEF Base
<1>5. CASE files[c].super # None
  <2>1. vtable'[files[c].super] = vtable[files[c].super]
    BY <1>5, SuperFacts, FrozenStep
  <2>2. Base(c)' = Base(c)
    BY <1>1, <1>5, <2>1 DEF Base, Selects
  <2> QED BY <1>3, <2>2
<1> QED BY <1>4, <1>5

\* A class that is linked starts with what its super class selects.
LEMMA DispatchLink ==
    ASSUME TypeInv, FramesAreAChain, HierarchyInv, DispatchInv, [Next]_vars,
           LinkBase \/ LinkSuper
    PROVE  DispatchInv'
<1>1. /\ Top \in ClassName /\ Top \in DOMAIN files /\ calls' = calls
      /\ phase' = [phase EXCEPT ![Top] = "methods"] /\ next' = 1
      /\ files' = files /\ phase \in [ClassName -> Phases]
      /\ phase[Top] \in {"super", "link"}
      /\ TopMethods \in Seq(Method)
  BY TopFacts DEF LinkBase, LinkSuper, At, TypeInv, TypeOK
<1>2. \A c \in ClassName : phase'[c] = "methods" => c = Top
  <2> SUFFICES ASSUME NEW c \in ClassName, phase'[c] = "methods", c # Top
               PROVE  FALSE
    OBVIOUS
  <2>1. phase[c] = "methods"
    BY <1>1
  <2> QED BY <2>1, OnlyTopRuns
<1>3. ASSUME NEW c, c = Top
      PROVE  OwnBefore(c, next)' = {}
  <2>1. \A j \in DOMAIN files[c].methods : ~(j < 1)
    BY <1>1, <1>3 DEF TopMethods
  <2> QED BY <1>1, <2>1 DEF OwnBefore
<1>4. ASSUME NEW c, c = Top
      PROVE  Selects(vtable[c])' = Base(c)'
  <2>1. CASE LinkBase
    <3>1. vtable'[c] = EmptyVTable /\ files'[c].super = None
      BY <1>4, <2>1 DEF LinkBase, Put, TopSuper
    <3> QED BY <3>1 DEF Selects, Base, EmptyVTable
  <2>2. CASE LinkSuper
    <3> DEFINE s == files[c].super
    <3>1. /\ s \in DOMAIN vtable /\ s # c /\ s # None
          /\ vtable' = Put(vtable, c, CopyVTable(vtable[s]))
      BY <1>1, <1>4, <2>2, NoneAssumption
         DEF LinkSuper, At, TopSuper, TypeInv, TypeOK, StageHasTables, Linked
    <3>2. CopyVTable(vtable[s]) = vtable[s]
      BY <3>1, CopyVTableOK DEF TypeInv, TypeOK, VTableCoherent
    <3>3. vtable'[c] = vtable[s] /\ vtable'[s] = vtable[s]
      BY <3>1, <3>2 DEF Put
    <3> QED BY <1>1, <3>1, <3>3 DEF Selects, Base
  <2> QED BY <2>1, <2>2
<1>5. ASSUME NEW c, c = Top
      PROVE  Selection({}, c, Base(c)') = Base(c)'
  BY DEF Selection, Base, Selects
<1>6. ASSUME NEW c, c = Top
      PROVE  Selects(vtable[c])' = Selection(OwnBefore(c, next), c, Base(c))'
  BY <1>3, <1>4, <1>5, <1>6 DEF Selection
<1> QED BY <1>2, <1>6 DEF DispatchInv

\* A method that is offered selects its class if it is virtual, and nothing if
\* it is not.
LEMMA DispatchDeclare ==
    ASSUME TypeInv, FramesAreAChain, HierarchyInv, DispatchInv, [Next]_vars,
           DeclareNonVirtual \/ DeclareOverride \/ DeclareNewSlot
    PROVE  DispatchInv'
<1>0. /\ Top \in ClassName /\ phase[Top] = "methods" /\ phase' = phase
      /\ next \in DOMAIN TopMethods /\ next' = next + 1 /\ files' = files
      /\ DOMAIN TopMethods = 1..Len(TopMethods) /\ next \in Nat
      /\ TopMethods[next].key \in MethodKey /\ Len(TopMethods) \in Nat
      /\ SuperCompleteFirst /\ Linked(Top) /\ Top \in DOMAIN vtable
      /\ IsVTable(vtable[Top]) /\ Coherent(vtable[Top])
  <2>1. At("methods") /\ next \in DOMAIN TopMethods
        /\ phase' = phase /\ next' = next + 1 /\ files' = files
    BY DEF DeclareNonVirtual, DeclareOverride, DeclareNewSlot, AtMethod
  <2>2. /\ Top \in ClassName /\ phase[Top] = "methods"
        /\ DOMAIN TopMethods = 1..Len(TopMethods) /\ Len(TopMethods) \in Nat
        /\ TopMethods[next] \in Method
    BY <2>1, TopFacts DEF At
  <2>3. Top \in DOMAIN vtable /\ Linked(Top)
    BY <2>2 DEF TypeInv, StageHasTables, Linked
  <2> QED BY <2>1, <2>2, <2>3
          DEF Method, HierarchyInv, TypeInv, TypeOK, VTableCoherent
<1>1. \A c \in ClassName : phase[c] = "methods" => c = Top
  BY OnlyTopRuns
<1>2. PICK t \in ClassName : t = Top
  BY <1>0
<1> DEFINE m == TopMethods[next]
           k == m.key
           old == Selects(vtable[t])
           new == Selects(vtable'[t])
           own == OwnBefore(t, next)
           base == Base(t)
<1>3. old = Selection(own, t, base)
  BY <1>0, <1>2 DEF DispatchInv
<1>4. /\ Base(t)' = base
      /\ OwnBefore(t, next)' = OwnBefore(t, next + 1)
  <2>1. \A n : OwnBefore(t, n)' = OwnBefore(t, n)
    BY <1>0, <1>2, BaseStable
  <2>2. PICK n : n = next'
    OBVIOUS
  <2>3. OwnBefore(t, next)' = OwnBefore(t, n)'
    BY <2>2 DEF OwnBefore
  <2> QED BY <1>0, <1>2, <2>1, <2>2, <2>3, BaseStable
<1>5. OwnBefore(t, next + 1) = IF IsVirtual(t, m) THEN own \cup {k} ELSE own
  <2>1. files[t].methods = TopMethods
    BY <1>2 DEF TopMethods
  <2>2. \A j \in DOMAIN TopMethods : j < next + 1 <=> j < next \/ j = next
    BY <1>0
  <2> QED BY <1>0, <2>1, <2>2 DEF OwnBefore
<1>6. CASE DeclareNonVirtual
  <2>1. ~IsVirtual(t, m) /\ vtable' = vtable
    BY <1>2, <1>6 DEF DeclareNonVirtual
  <2> QED BY <1>0, <1>1, <1>2, <1>3, <1>4, <1>5, <2>1 DEF DispatchInv
<1>7. CASE DeclareOverride
  <2>1. /\ IsVirtual(t, m) /\ HasMethod(vtable[t], k)
        /\ vtable'[t] = ReplaceSlot(vtable[t], k, t)
    BY <1>2, <1>7 DEF DeclareOverride, Put
  <2>2. new = [old EXCEPT ![k] = t] /\ k \in DOMAIN old
    BY <1>0, <1>2, <2>1, SelectsReplace DEF Selects, HasMethod
  <2>3. new = Selection(own \cup {k}, t, base)
    BY <1>3, <2>2 DEF Selection
  <2> QED BY <1>0, <1>1, <1>2, <1>4, <1>5, <2>1, <2>3 DEF DispatchInv
<1>8. CASE DeclareNewSlot
  <2>1. /\ IsVirtual(t, m) /\ ~HasMethod(vtable[t], k)
        /\ vtable'[t] = AppendSlot(vtable[t], k, t)
    BY <1>2, <1>8 DEF DeclareNewSlot, Put
  <2>2. new = Put(old, k, t)
    BY <1>0, <1>2, <2>1, SelectsAppend
  <2>3. new = Selection(own \cup {k}, t, base)
    BY <1>3, <2>2 DEF Selection, Put
  <2> QED BY <1>0, <1>1, <1>2, <1>4, <1>5, <2>1, <2>3 DEF DispatchInv
<1> QED BY <1>6, <1>7, <1>8

LEMMA DispatchStep ==
    TypeInv /\ FramesAreAChain /\ HierarchyInv /\ DispatchInv /\ [Next]_vars
        => DispatchInv'
<1> SUFFICES ASSUME TypeInv, FramesAreAChain, HierarchyInv, DispatchInv,
                    [Next]_vars
             PROVE  DispatchInv'
  OBVIOUS
<1>1. phase \in [ClassName -> Phases] /\ SuperCompleteFirst
  BY DEF TypeInv, TypeOK, HierarchyInv
<1>2. ASSUME \A c \in ClassName : phase'[c] = "methods" => phase[c] = "methods",
             vtable' = vtable,
             next' = next \/ \A c \in ClassName : phase[c] # "methods"
      PROVE  DispatchInv'
  <2> SUFFICES ASSUME NEW c \in ClassName, phase'[c] = "methods"
               PROVE  (Selects(vtable[c]) =
                         Selection(OwnBefore(c, next), c, Base(c)))'
    BY DEF DispatchInv
  <2>1. /\ phase[c] = "methods" /\ Linked(c) /\ next' = next
        /\ Selects(vtable[c]) = Selection(OwnBefore(c, next), c, Base(c))
    BY <1>2 DEF Linked, DispatchInv
  <2>2. Base(c)' = Base(c) /\ \A n : OwnBefore(c, n)' = OwnBefore(c, n)
    BY <1>1, <2>1, BaseStable
  <2>3. OwnBefore(c, next)' = OwnBefore(c, next)
    BY <2>1, <2>2
  <2> QED BY <1>2, <2>1, <2>2, <2>3
<1>3. CASE LinkBase \/ LinkSuper
  BY <1>3, DispatchLink
<1>4. CASE DeclareNonVirtual \/ DeclareOverride \/ DeclareNewSlot
  BY <1>4, DispatchDeclare
<1>5. CASE EmitNative \/ EmitDirectMethod \/ EmitVirtualMethod
  <2>1. /\ phase' = phase /\ vtable' = vtable /\ phase[Top] = "bodies"
    BY <1>5 DEF EmitNative, EmitDirectMethod, EmitVirtualMethod, AtCode,
                AtBody, At
  <2>2. \A c \in ClassName : phase[c] # "methods"
    BY <2>1, OnlyTopRuns
  <2> QED BY <1>2, <2>1, <2>2
<1>6. CASE EmitVTable
  <2>1. /\ phase' = [phase EXCEPT ![Top] = "bodies"] /\ vtable' = vtable
        /\ Top \in ClassName
    BY <1>6, TopFacts DEF EmitVTable, At
  <2>2. \A c \in ClassName : phase'[c] # "methods"
    BY <1>1, <2>1, OnlyTopRuns
  <2> QED BY <2>2 DEF DispatchInv
<1>7. CASE UNCHANGED <<phase, vtable, next>>
  BY <1>2, <1>7
<1>8. CASE RequestCreates
  BY <1>1, <1>2, <1>8 DEF RequestCreates
<1>9. CASE SuperInPool
  BY <1>1, <1>2, <1>9 DEF SuperInPool
<1>10. CASE SuperCreated
  BY <1>1, <1>2, <1>10 DEF SuperCreated
<1>11. CASE FinishDefinition
  BY <1>1, <1>2, <1>11 DEF FinishDefinition
<1> QED
  BY <1>3, <1>4, <1>5, <1>6, <1>7, <1>8, <1>9, <1>10, <1>11
     DEF Next, vars, Terminated, RequestAnswered, SuperMissing,
         SuperUnfinished, EmitAbstract, Finish

Selected == [c \in DOMAIN table |-> TableSelects(table[c])]

LEMMA SelectedInit == Init => Dispatch!Init
<1> SUFFICES ASSUME Init PROVE Dispatch!Init
  OBVIOUS
<1>1. files \in ClassPaths /\ DOMAIN table = {}
  BY DEF Init
<1>2. Selected = [c \in {} |-> {}]
  BY <1>1 DEF Selected
<1> QED BY <1>1, <1>2 DEF Dispatch!Init, Selected, TableSelects

\* Freezing the vtable of a class defines what the class selects.
LEMMA EmitVTableDefines ==
    ASSUME TypeInv, FramesAreAChain, HierarchyInv, DispatchInv, EmitVTable
    PROVE  Dispatch!Next
<1>1. /\ Top \in ClassName /\ Top \in DOMAIN files
      /\ phase[Top] = "methods" /\ next > Len(TopMethods)
      /\ TopMethods \in Seq(Method)
      /\ table' = Put(table, Top, vtable[Top].entries) /\ files' = files
  BY TopFacts DEF EmitVTable, At
<1>2. PICK c \in ClassName : c = Top
  BY <1>1
<1>3. /\ Linked(c) /\ c \in DOMAIN vtable /\ c \notin DOMAIN table
      /\ SuperCompleteFirst /\ TableCurrent
      /\ IsVTable(vtable[c]) /\ Coherent(vtable[c])
  BY <1>1, <1>2 DEF TypeInv, TypeOK, StageHasTables, VTableCoherent, Linked,
                    HierarchyInv
<1> DEFINE s == files[c].super
           base == IF s = None THEN [k \in {} |-> c] ELSE Selected[s]
<1>4. s # None => /\ s \in DOMAIN table /\ s \in DOMAIN vtable
                  /\ table[s] = vtable[s].entries
                  /\ IsVTable(vtable[s]) /\ Coherent(vtable[s])
  BY <1>3, SuperFacts DEF TypeInv, TypeOK, StageHasTables, VTableCoherent,
                          TableCurrent
<1>5. base = Base(c)
  BY <1>4, TableSelectsFacts DEF Base, Selected
<1>6. OwnBefore(c, next) = Dispatch!Own(c)
  <2>1. \A i \in DOMAIN files[c].methods : i < next
    BY <1>1, <1>2 DEF TopMethods, TypeInv, TypeOK
  <2>2. s # None => DOMAIN Selected[s] = DOMAIN vtable[s].methods
    BY <1>4, TableSelectsFacts DEF Selected, Selects
  <2>3. DOMAIN Dispatch!Inherited(c) =
           IF s = None THEN {} ELSE DOMAIN vtable[s].methods
    BY <1>4, <2>2 DEF Dispatch!Inherited, Selected, TableSelects
  <2>4. \A i \in DOMAIN files[c].methods :
           Dispatch!Dispatched(c, files[c].methods[i]) <=>
              IsVirtual(c, files[c].methods[i])
    BY <2>3 DEF Dispatch!Dispatched, IsVirtual, CanBeOverridden, InheritsSlot,
                HasMethod
  <2> QED BY <2>1, <2>4 DEF OwnBefore, Dispatch!Own
<1>7. TableSelects(vtable[c].entries) = Selection(OwnBefore(c, next), c, base)
  BY <1>1, <1>2, <1>3, <1>5, TableSelectsFacts DEF DispatchInv
<1>8. Selected' = [d \in DOMAIN Selected \cup {c} |->
                     IF d # c THEN Selected[d]
                     ELSE Selection(Dispatch!Own(c), c, base)]
  <2>1. Selected' = [d \in DOMAIN table' |-> TableSelects(table'[d])]
    BY DEF Selected
  <2>2. /\ DOMAIN table' = DOMAIN table \cup {c}
        /\ \A d \in DOMAIN table' : table'[d] = IF d = c THEN vtable[c].entries
                                                ELSE table[d]
    BY <1>1, <1>2 DEF Put
  <2> QED BY <1>6, <1>7, <2>1, <2>2 DEF Selected
<1>9. Dispatch!Define(c)
  <2>1. Dispatch!Inherited(c) = base
    BY DEF Dispatch!Inherited, Selected, TableSelects
  <2>2. c \notin DOMAIN Selected /\ (s # None => s \in DOMAIN Selected)
    BY <1>3, <1>4 DEF Selected
  <2>3. Selected' =
          [d \in DOMAIN Selected \cup {c} |->
             IF d # c THEN Selected[d]
             ELSE [k \in Dispatch!Own(c) \cup DOMAIN Dispatch!Inherited(c) |->
                     IF k \in Dispatch!Own(c) THEN c
                     ELSE Dispatch!Inherited(c)[k]]]
    BY <1>8, <2>1 DEF Selection
  <2> DEFINE own == Dispatch!Own(c)
             inh == Dispatch!Inherited(c)
  <2>4. Dispatch!Define(c) <=>
          /\ c \notin DOMAIN Selected
          /\ s # None => s \in DOMAIN Selected
          /\ Selected' =
               [d \in DOMAIN Selected \cup {c} |->
                  IF d # c THEN Selected[d]
                  ELSE [k \in own \cup DOMAIN inh |->
                          IF k \in own THEN c ELSE inh[k]]]
          /\ UNCHANGED files
    BY DEF Dispatch!Define, Selected, TableSelects
  <2> HIDE DEF own, inh
  <2> QED BY <1>1, <2>2, <2>3, <2>4 DEF own, inh
<1> QED BY <1>1, <1>2, <1>9 DEF Dispatch!Next

\* No other step emits a table.
LEMMA TableOnlyEmitted ==
    [Next]_vars => EmitVTable \/ UNCHANGED <<files, table>>
  BY DEF Next, vars, Terminated, RequestAnswered, RequestCreates, SuperInPool,
         SuperCreated, SuperMissing, LinkBase, LinkSuper, SuperUnfinished,
         DeclareNonVirtual, DeclareOverride, DeclareNewSlot,
         EmitNative, EmitAbstract, EmitDirectMethod, EmitVirtualMethod,
         FinishDefinition, Finish

LEMMA DispatchAlways ==
    Spec => [](TypeInv /\ FramesAreAChain /\ HierarchyInv /\ DispatchInv)
<1> DEFINE Inv == TypeInv /\ FramesAreAChain /\ HierarchyInv /\ DispatchInv
<1>1. Init => Inv
  BY TypeInit, FramesInit, HierarchyInit, DispatchInit
<1>2. Inv /\ [Next]_vars => Inv'
  BY TypeStep, FramesStep, HierarchyStep, DispatchStep
<1> HIDE DEF Inv
<1>3. Spec => []Inv
  BY <1>1, <1>2, PTL DEF Spec
<1> QED BY <1>3 DEF Inv

\* The emitted tables implement dispatch by class and key: every run of the pool
\* is one of VirtualDispatch, for all class files, circular and incomplete ones
\* included, and in whatever order the classes are asked for.
THEOREM PoolImplementsDispatch == Spec => DispatchesAsDeclared
<1> DEFINE Inv == TypeInv /\ FramesAreAChain /\ HierarchyInv /\ DispatchInv
<1>1. Inv /\ [Next]_vars => [Dispatch!Next]_<<files, Selected>>
  <2> SUFFICES ASSUME Inv, [Next]_vars
               PROVE  [Dispatch!Next]_<<files, Selected>>
    OBVIOUS
  <2>1. CASE EmitVTable
    BY <2>1, EmitVTableDefines
  <2>2. CASE UNCHANGED <<files, table>>
    BY <2>2 DEF Selected
  <2> QED BY <2>1, <2>2, TableOnlyEmitted
<1>2. Dispatch!Spec <=> Dispatch!Init /\ [][Dispatch!Next]_<<files, Selected>>
  BY DEF Dispatch!Spec, Selected, TableSelects
<1>3. Spec => []Inv
  BY DispatchAlways
<1> HIDE DEF Inv
<1>4. Spec => Dispatch!Spec
  BY <1>1, <1>2, <1>3, SelectedInit, PTL DEF Spec
<1> QED BY <1>4 DEF DispatchesAsDeclared
=============================================================================
