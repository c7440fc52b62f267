------------------------ MODULE StringLiteralsProofs ------------------------
(* Proofs of the properties of StringLiterals, for any units and strings.  *)
EXTENDS StringLiterals, FiniteSetTheorems, TLAPS

\* The pool numbers its objects without repetition, up to heap.
PoolInjective ==
    /\ \A s \in DOMAIN pool : pool[s] \in Pointer
    /\ \A s, t \in DOMAIN pool : pool[s] = pool[t] => s = t

\* Every pointer that was handed out is the pool's, for no cache ever has one.
GotFromPool ==
    /\ \A g \in getters : cache[g] = Null
    /\ \A x \in got : /\ x[1][2] \in DOMAIN pool
                      /\ x[2] = pool[x[1][2]]

\* The first getter of a unit has the symbol that all of them ask for, and no
\* symbol of a program that was linked is defined twice.
SymbolsInv ==
    /\ IsFiniteSet(getters)
    /\ \A g \in getters : \E h \in getters : h[1] = g[1] /\ symbol[h] = 0
    /\ program = "linked" =>
          \A g, h \in getters : symbol[g] = symbol[h] => g = h

Inv == TypeOK /\ PoolInjective /\ GotFromPool /\ SymbolsInv

\* The invariant holds before anything is compiled.
LEMMA InvInit == Init => Inv
  <1> SUFFICES ASSUME Init
               PROVE  Inv
    OBVIOUS
  <1>1. DOMAIN pool = {} /\ DOMAIN cache = {} /\ getters = {} /\ got = {}
    BY DEF Init, getters
  <1>2. program = "compiling" /\ heap \in Nat
    BY DEF Init
  <1>3. TypeOK
    BY <1>1, <1>2 DEF TypeOK
  <1>4. SymbolsInv
    BY <1>1, <1>2, FS_EmptySet DEF SymbolsInv
  <1> QED  BY <1>1, <1>3, <1>4 DEF Inv, PoolInjective, GotFromPool

\* A lookup keeps the pool injective and every earlier pointer in it, and what
\* it answers is the object of the string.
LEMMA LookupKeepsPool ==
  ASSUME heap \in Nat, DOMAIN pool \subseteq String, PoolInjective,
         NEW s \in String, GetOrInsert(s)
  PROVE  /\ heap' \in Nat /\ heap' >= heap
         /\ DOMAIN pool \subseteq DOMAIN pool'
         /\ \A t \in DOMAIN pool : pool'[t] = pool[t]
         /\ DOMAIN pool' \subseteq String
         /\ PoolInjective'
         /\ s \in DOMAIN pool' /\ pool'[s] = Pooled(s)
  <1>1. CASE s \in DOMAIN pool
    BY <1>1 DEF GetOrInsert, Pooled, PoolInjective, Pointer
  <1>2. CASE s \notin DOMAIN pool
    <2>1. heap' = heap + 1 /\ pool' = Put(pool, s, heap + 1)
      BY <1>2 DEF GetOrInsert
    <2>2. /\ DOMAIN pool' = DOMAIN pool \cup {s}
          /\ pool'[s] = heap + 1
          /\ \A t \in DOMAIN pool : pool'[t] = pool[t]
      BY <1>2, <2>1 DEF Put
    <2>3. PoolInjective'
      <3>1. \A t \in DOMAIN pool : pool[t] \in 1..heap
        BY DEF PoolInjective, Pointer
      <3>2. \A t \in DOMAIN pool' : pool'[t] \in 1..(heap + 1)
        BY <2>2, <3>1
      <3>3. \A t, u \in DOMAIN pool' : pool'[t] = pool'[u] => t = u
        BY <2>2, <3>1 DEF PoolInjective
      <3> QED  BY <2>1, <3>2, <3>3 DEF PoolInjective, Pointer
    <2> QED  BY <1>2, <2>1, <2>2, <2>3 DEF Pooled
  <1> QED  BY <1>1, <1>2

\* A new getter keeps the symbols of a unit apart from one another, not from
\* those of other units.
LEMMA NewGetterKeeps ==
  ASSUME Inv, NEW u \in Unit, NEW s \in String, NewGetter(u, s)
  PROVE  Inv'
  <1> DEFINE new == <<u, s>>
             ofUnit == {g \in getters : g[1] = u}
  <1>1. /\ new \notin getters /\ getters' = getters \cup {new}
        /\ symbol'[new] = NextSymbol(u)
        /\ \A g \in getters : symbol'[g] = symbol[g]
        /\ cache' = Put(cache, new, Null) /\ program = "compiling"
        /\ UNCHANGED <<program, pool, heap, got>>
    BY DEF NewGetter, Put, getters
  <1>2. IsFiniteSet(getters) /\ IsFiniteSet(ofUnit)
    BY FS_Subset DEF Inv, SymbolsInv
  <1>3. NextSymbol(u) \in Nat /\ (NextSymbol(u) = 0 <=> ofUnit = {})
    BY <1>2, FS_CardinalityType, FS_EmptySet DEF NextSymbol
  <1>4. TypeOK'
    <2>1. /\ getters' \subseteq Unit \X String
          /\ \A g \in getters' : symbol'[g] \in Nat
      BY <1>1, <1>3 DEF Inv, TypeOK
    <2>2. /\ DOMAIN cache' = getters'
          /\ \A g \in getters' : cache'[g] \in Pointer' \cup {Null}
      BY <1>1 DEF Inv, TypeOK, Put, Pointer
    <2>3. Pointer' = Pointer /\ getters \subseteq getters'
      BY <1>1 DEF Pointer
    <2> QED  BY <1>1, <2>1, <2>2, <2>3 DEF Inv, TypeOK
  <1>5. PoolInjective'
    BY <1>1 DEF Inv, PoolInjective, Pointer
  <1>6. GotFromPool'
    BY <1>1 DEF Inv, TypeOK, GotFromPool, Put
  <1>7. SymbolsInv'
    <2>1. IsFiniteSet(getters')
      BY <1>1, <1>2, FS_AddElement
    <2>2. ASSUME NEW g \in getters'
          PROVE  \E h \in getters' : h[1] = g[1] /\ symbol'[h] = 0
      <3>1. CASE g \in getters
        BY <1>1, <3>1 DEF Inv, SymbolsInv
      <3>2. CASE g = new /\ ofUnit = {}
        BY <1>1, <1>3, <3>2
      <3>3. CASE g = new /\ ofUnit # {}
        <4>1. PICK f \in getters : f[1] = u
          BY <3>3
        <4>2. g[1] = u
          BY <3>3
        <4> QED  BY <1>1, <4>1, <4>2 DEF Inv, SymbolsInv
      <3> QED  BY <1>1, <2>2, <3>1, <3>2, <3>3
    <2> QED  BY <1>1, <2>1, <2>2 DEF SymbolsInv
  <1> QED  BY <1>4, <1>5, <1>6, <1>7 DEF Inv

\* Every step keeps the invariant.
LEMMA InvStep == Inv /\ [Next]_vars => Inv'
  <1> SUFFICES ASSUME Inv, [Next]_vars
               PROVE  Inv'
    OBVIOUS
  <1> USE DEF Inv
  <1>1. ASSUME NEW u \in Unit, NEW s \in String, NewGetter(u, s)
        PROVE  Inv'
    BY <1>1, NewGetterKeeps
  <1>2. CASE LinkUnits
    BY <1>2 DEF LinkUnits, TypeOK, PoolInjective, GotFromPool, Pointer,
                SymbolsInv, getters
  <1>3. ASSUME NEW g \in getters, CallGetter(g)
        PROVE  Inv'
    <2>1. g[2] \in String /\ cache[g] = Null
      BY DEF TypeOK, GotFromPool
    <2>2. /\ GetOrInsert(g[2])
          /\ got' = got \cup {<<g, Pooled(g[2])>>}
          /\ UNCHANGED <<program, symbol, cache>>
      BY <1>3, <2>1 DEF CallGetter
    <2>3. /\ heap' \in Nat /\ heap' >= heap
          /\ DOMAIN pool \subseteq DOMAIN pool'
          /\ \A t \in DOMAIN pool : pool'[t] = pool[t]
          /\ DOMAIN pool' \subseteq String
          /\ PoolInjective'
          /\ g[2] \in DOMAIN pool' /\ pool'[g[2]] = Pooled(g[2])
      BY <2>1, <2>2, LookupKeepsPool DEF TypeOK
    <2>4. Pooled(g[2]) \in Pointer'
      BY <2>3 DEF PoolInjective
    <2>5. GotFromPool'
      BY <2>1, <2>2, <2>3 DEF GotFromPool, getters
    <2>7. SymbolsInv'
      BY <2>2 DEF SymbolsInv, getters
    <2>6. TypeOK'
      <3>1. got' \subseteq getters' \X Pointer'
        <4>1. Pointer \subseteq Pointer'
          BY <2>3 DEF Pointer, TypeOK
        <4> QED  BY <2>2, <2>4, <4>1 DEF TypeOK, getters
      <3>2. \A h \in getters' : cache'[h] \in Pointer' \cup {Null}
        BY <2>2 DEF GotFromPool, getters
      <3>3. \A s \in DOMAIN pool' : pool'[s] \in Pointer'
        BY <2>3 DEF PoolInjective
      <3> QED  BY <2>2, <2>3, <3>1, <3>2, <3>3 DEF TypeOK, getters
    <2> QED  BY <2>3, <2>5, <2>6, <2>7
  <1>4. CASE UNCHANGED vars
    BY <1>4 DEF vars, TypeOK, PoolInjective, GotFromPool, Pointer,
                SymbolsInv, getters
  <1> QED  BY <1>1, <1>2, <1>3, <1>4 DEF Next

\* The inductive invariant gives the property.
LEMMA InvGivesSamePointer == Inv => SameValueSamePointer
  BY DEF Inv, PoolInjective, GotFromPool, SameValueSamePointer

\* The variables keep their types (StringLiterals!TypeOK).
THEOREM LiteralTypesCorrect == Spec => []TypeOK
  <1>1. Inv => TypeOK
    BY DEF Inv
  <1> QED  BY InvInit, InvStep, <1>1, PTL DEF Spec

\* In a program that was linked all literals are in one unit, for the getters of
\* two units define one symbol twice.
THEOREM LiteralsInOneUnit ==
  Spec => [](program = "linked" => \A g, h \in getters : g[1] = h[1])
  <1>1. Inv => (program = "linked" => \A g, h \in getters : g[1] = h[1])
    BY DEF Inv, SymbolsInv
  <1> QED  BY InvInit, InvStep, <1>1, PTL DEF Spec

\* Loads of equal strings give one pointer, in whatever order and however often
\* the getters are called, and loads of different strings give different ones:
\* the pool sees to it (StringPool::GetOrInsert), as no getter keeps anything.
THEOREM LiteralsShared == Spec => []SameValueSamePointer
  BY InvInit, InvStep, InvGivesSamePointer, PTL DEF Spec
=============================================================================
