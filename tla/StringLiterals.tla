--------------------------- MODULE StringLiterals ---------------------------
(***************************************************************************)
(* String literals: what the compiler makes of an ldc of a string, and     *)
(* what the compiled program and its run time do with it.                  *)
(*                                                                         *)
(* The compiler gives each compilation unit a getter, with a cache of its  *)
(* own, for each string its code loads.  Every getter is an external       *)
(* function that asks for the same name, which LLVM makes unique inside a  *)
(* unit and nobody does across units.  Caches are private to their unit.   *)
(* The units are then linked with one run time, which has the pool.        *)
(***************************************************************************)
EXTENDS Naturals, FiniteSets

CONSTANTS
    Unit,       \* compilation units (modules) of the program
    String      \* the values of literals

Null == 0       \* the null pointer; an object is known by its number

VARIABLES
    program,    \* "compiling", then "linked" or "clash"
    symbol,     \* (unit, string) with a getter -> which symbol its name became
    cache,      \* getter -> the pointer in its cache
    pool,       \* StringPool::strings_: string -> its object
    heap,       \* how many java.lang.String objects were made
    got         \* (getter, pointer) of each call that has returned

vars == <<program, symbol, cache, pool, heap, got>>

getters == DOMAIN symbol

Put(f, k, v) == [x \in DOMAIN f \cup {k} |-> IF x = k THEN v ELSE f[x]]

Init ==
    /\ program = "compiling"
    /\ symbol = [g \in {} |-> 0]
    /\ cache = [g \in {} |-> Null]
    /\ pool = [s \in {} |-> Null]
    /\ heap = 0
    /\ got = {}

-----------------------------------------------------------------------------
(* The compiler                                                            *)

\* ".str.get" is the symbol of the first getter of a unit; the names of the
\* others depend on how many there were before.
NextSymbol(u) == Cardinality({g \in getters : g[1] = u})

\* The first ldc of a string in a unit makes its getter and its cache; the next
\* ones call the same getter.
NewGetter(u, s) ==
    /\ program = "compiling"
    /\ <<u, s>> \notin getters
    /\ symbol' = Put(symbol, <<u, s>>, NextSymbol(u))
    /\ cache' = Put(cache, <<u, s>>, Null)
    /\ UNCHANGED <<program, pool, heap, got>>

\* Two definitions of one external symbol are an error.
LinkUnits ==
    /\ program = "compiling"
    /\ program' = IF \E g, h \in getters : g # h /\ symbol[g] = symbol[h]
                  THEN "clash" ELSE "linked"
    /\ UNCHANGED <<symbol, cache, pool, heap, got>>

-----------------------------------------------------------------------------
(* The program                                                             *)

\* StringPool::GetOrInsert.
GetOrInsert(s) ==
    IF s \in DOMAIN pool
    THEN UNCHANGED <<pool, heap>>
    ELSE heap' = heap + 1 /\ pool' = Put(pool, s, heap + 1)

Pooled(s) == IF s \in DOMAIN pool THEN pool[s] ELSE heap + 1

\* A getter answers with what its cache holds, and asks the pool when that is
\* null.  None of its instructions stores to the cache.
CallGetter(g) ==
    /\ program = "linked"
    /\ IF cache[g] = Null
       THEN GetOrInsert(g[2]) /\ got' = got \cup {<<g, Pooled(g[2])>>}
       ELSE got' = got \cup {<<g, cache[g]>>} /\ UNCHANGED <<pool, heap>>
    /\ UNCHANGED <<program, symbol, cache>>

Next ==
    \/ \E u \in Unit, s \in String : NewGetter(u, s)
    \/ LinkUnits
    \/ \E g \in getters : CallGetter(g)

Spec == Init /\ [][Next]_vars

-----------------------------------------------------------------------------
(* Properties                                                              *)

Pointer == 1..heap

\* Every variable holds a value of its type.
TypeOK ==
    /\ program \in {"compiling", "linked", "clash"}
    /\ getters \subseteq Unit \X String
    /\ \A g \in getters : symbol[g] \in Nat
    /\ DOMAIN cache = getters
    /\ \A g \in getters : cache[g] \in Pointer \cup {Null}
    /\ DOMAIN pool \subseteq String
    /\ \A s \in DOMAIN pool : pool[s] \in Pointer
    /\ heap \in Nat
    /\ got \subseteq getters \X Pointer

\* runtime-abi.cc: string literals with the same value have the same pointer,
\* however often their getters are called, and those with different values have
\* different ones.
SameValueSamePointer ==
    \A x, y \in got : x[2] = y[2] <=> x[1][2] = y[1][2]

\* runtime-abi.cc: a getter that had to look the string up caches it, so that
\* later calls need no lookup.
CachedAfterLookup ==
    \A x \in got : cache[x[1]] # Null
=============================================================================
