----------------------------- MODULE NamesProofs -----------------------------
(***************************************************************************)
(* Proofs about the names of class files: descriptors are parsed into the  *)
(* types that were written, whatever they are, and the units of a program  *)
(* agree on its symbols.                                                   *)
(***************************************************************************)
EXTENDS Descriptors, NameMangling, TLAPS,
        SequenceTheorems, FiniteSetTheorems, WellFoundedInduction

-----------------------------------------------------------------------------
(* Sequences that are put together                                         *)

LEMMA Prepending ==
    ASSUME NEW S, NEW c \in S, NEW a \in Seq(S)
    PROVE  /\ <<c>> \o a \in Seq(S) /\ Len(a) \in Nat
           /\ Len(<<c>> \o a) = Len(a) + 1
           /\ (<<c>> \o a)[1] = c
           /\ \A k \in 1..Len(a) : (<<c>> \o a)[1 + k] = a[k]
OBVIOUS

LEMMA Appending ==
    ASSUME NEW S, NEW a \in Seq(S), NEW c \in S
    PROVE  /\ a \o <<c>> \in Seq(S) /\ Len(a) \in Nat
           /\ Len(a \o <<c>>) = Len(a) + 1
           /\ (a \o <<c>>)[Len(a) + 1] = c
           /\ \A k \in 1..Len(a) : (a \o <<c>>)[k] = a[k]
OBVIOUS

LEMMA Concatenation ==
    ASSUME NEW S, NEW a \in Seq(S), NEW b \in Seq(S)
    PROVE  /\ a \o b \in Seq(S)
           /\ Len(a) \in Nat /\ Len(b) \in Nat
           /\ Len(a \o b) = Len(a) + Len(b)
           /\ \A k \in 1..Len(a) : (a \o b)[k] = a[k]
           /\ \A k \in 1..Len(b) : (a \o b)[Len(a) + k] = b[k]
OBVIOUS

\* A set of numbers has a least one: induction without an operator parameter.
LEMMA LeastOf ==
    ASSUME NEW S, S \subseteq Nat, S # {}
    PROVE  \E x \in S : \A y \in S : x <= y
<1> DEFINE T == {0..n : n \in S}
           R == StrictSubsetOrdering(Nat)
<1>1. IsWellFoundedOn(R, FiniteSubsetsOf(Nat))
  BY FS_StrictSubsetOrderingWellFounded
<1>2. \A n \in S : 0..n \subseteq Nat /\ IsFiniteSet(0..n)
  BY FS_Interval
<1>3. T \subseteq FiniteSubsetsOf(Nat) /\ T # {}
  BY <1>2 DEF FiniteSubsetsOf
<1> HIDE DEF T, R
<1>4. PICK t \in T : \A u \in T : <<u, t>> \notin R
  BY <1>1, <1>3, WFMin
<1>5. PICK x \in S : t = 0..x
  BY DEF T
<1>6. ASSUME NEW y \in S, ~(x <= y) PROVE FALSE
  <2>1. 0..y \in T
    BY DEF T
  <2>2. 0..y \subseteq 0..x /\ x \notin 0..y /\ x \in 0..x
    BY <1>6
  <2>3. <<0..y, t>> \in R
    BY <1>2, <1>5, <2>2 DEF R, StrictSubsetOrdering
  <2> QED BY <1>4, <2>1, <2>3
<1> QED BY <1>5, <1>6

\* The prefixes that FlattenSeq puts together, one after the other.
Joined(f, ss, n) ==
    f = [i \in 1..n |-> IF i = 1 THEN ss[i] ELSE f[i - 1] \o ss[i]]

LEMMA JoinedExists ==
    ASSUME NEW ss, NEW n \in Nat
    PROVE  \E f : Joined(f, ss, n)
<1> DEFINE Bad == {k \in Nat : ~\E f : Joined(f, ss, k)}
<1>1. SUFFICES ASSUME Bad # {} PROVE FALSE
  OBVIOUS
<1>2. PICK k \in Bad : \A j \in Bad : k <= j
  BY <1>1, LeastOf
<1>3. CASE k = 0
  <2>1. Joined([i \in 1..0 |-> 0], ss, 0)
    BY DEF Joined
  <2> QED BY <1>2, <1>3, <2>1
<1>4. CASE k # 0
  <2>1. k - 1 \in Nat /\ k - 1 \notin Bad
    BY <1>2, <1>4
  <2>2. PICK f : Joined(f, ss, k - 1)
    BY <2>1
  <2> DEFINE next == IF k = 1 THEN ss[k] ELSE f[k - 1] \o ss[k]
             g == [i \in 1..k |-> IF i = k THEN next ELSE f[i]]
  <2>3. \A i \in 1..k :
            g[i] = IF i = 1 THEN ss[i] ELSE g[i - 1] \o ss[i]
    <3> SUFFICES ASSUME NEW i \in 1..k
                 PROVE  g[i] = IF i = 1 THEN ss[i] ELSE g[i - 1] \o ss[i]
      OBVIOUS
    <3>1. i # k => i \in 1..(k - 1)
      BY <2>1
    <3>2. i # k => f[i] = IF i = 1 THEN ss[i] ELSE f[i - 1] \o ss[i]
      BY <2>2, <3>1 DEF Joined
    <3>3. i # 1 => i - 1 \in 1..k /\ i - 1 # k
      BY <2>1
    <3> QED BY <3>2, <3>3
  <2>4. Joined(g, ss, k)
    BY <2>3 DEF Joined
  <2> QED BY <1>2, <2>4
<1> QED BY <1>3, <1>4

\* What FlattenSeq is, without its recursion: the prefixes f of the whole, each
\* the one before it with the next sequence behind it.
LEMMA FlattenFacts ==
    ASSUME NEW S, NEW ss \in Seq(Seq(S)), ss # <<>>
    PROVE  \E f \in [1..Len(ss) -> Seq(S)] :
              /\ FlattenSeq(ss) = f[Len(ss)]
              /\ f[1] = ss[1]
              /\ \A i \in 2..Len(ss) : f[i] = f[i - 1] \o ss[i]
<1> DEFINE N == Len(ss)
           F == CHOOSE f : Joined(f, ss, N)
<1>1. N \in Nat \ {0}
  OBVIOUS
<1>2. Joined(F, ss, N)
  BY <1>1, JoinedExists
<1>3. FlattenSeq(ss) = F[N]
  BY <1>1 DEF FlattenSeq, Joined
<1> HIDE DEF F
<1>4. F = [i \in 1..N |-> F[i]] /\ DOMAIN F = 1..N
  BY <1>2 DEF Joined
<1>5. \A i \in 1..N : F[i] = IF i = 1 THEN ss[i] ELSE F[i - 1] \o ss[i]
  BY <1>2 DEF Joined
<1>6. F[1] = ss[1] /\ \A i \in 2..N : F[i] = F[i - 1] \o ss[i]
  <2>1. 1 \in 1..N /\ \A i \in 2..N : i \in 1..N /\ i # 1
    BY <1>1
  <2> HIDE DEF N
  <2> QED BY <1>5, <2>1
<1>7. \A i \in 1..N : F[i] \in Seq(S)
  <2> DEFINE Bad == {k \in 1..N : F[k] \notin Seq(S)}
  <2> SUFFICES ASSUME Bad # {} PROVE FALSE
    OBVIOUS
  <2>1. PICK k \in Bad : \A j \in Bad : k <= j
    BY LeastOf, Bad \subseteq Nat
  <2>2. k # 1 => k - 1 \in 1..N /\ k - 1 \notin Bad /\ k \in 2..N
    BY <2>1
  <2>3. \A i \in 1..N : ss[i] \in Seq(S)
    OBVIOUS
  <2>4. k \in 1..N /\ ss[k] \in Seq(S)
    BY <2>1, <2>3
  <2>5. k # 1 => F[k - 1] \in Seq(S) /\ F[k] = F[k - 1] \o ss[k]
    BY <1>6, <2>2
  <2> HIDE DEF N
  <2>6. F[k] \in Seq(S)
    <3>1. CASE k = 1
      BY <1>6, <2>4, <3>1
    <3>2. CASE k # 1
      <4>1. \A a, b \in Seq(S) : a \o b \in Seq(S)
        OBVIOUS
      <4> QED BY <2>4, <2>5, <3>2, <4>1
    <3> QED BY <3>1, <3>2
  <2> QED BY <2>1, <2>6
<1> QED BY <1>3, <1>4, <1>6, <1>7

\* A prefix stays where it is.
Leads(a, b) == Len(a) <= Len(b) /\ \A k \in 1..Len(a) : b[k] = a[k]

LEMMA LeadsOn ==
    ASSUME NEW S, NEW a \in Seq(S), NEW b \in Seq(S), NEW c \in Seq(S),
           Leads(a, b), Leads(b, c)
    PROVE  Leads(a, c)
<1>1. Len(a) \in Nat /\ Len(b) \in Nat /\ Len(c) \in Nat
  OBVIOUS
<1>2. Len(a) <= Len(b) /\ Len(b) <= Len(c)
  BY DEF Leads
<1>3. ASSUME NEW k \in 1..Len(a) PROVE c[k] = a[k]
  <2>1. k \in 1..Len(b)
    BY <1>1, <1>2
  <2> QED BY <2>1 DEF Leads
<1> QED BY <1>1, <1>2, <1>3 DEF Leads

LEMMA PrefixesLead ==
    ASSUME NEW S, NEW N \in Nat \ {0}, NEW f \in [1..N -> Seq(S)],
           NEW ss \in [1..N -> Seq(S)],
           \A i \in 2..N : f[i] = f[i - 1] \o ss[i]
    PROVE  \A j \in 1..N : \A i \in 1..j : Leads(f[i], f[j])
<1> DEFINE Bad == {j \in 1..N : ~\A i \in 1..j : Leads(f[i], f[j])}
<1> SUFFICES ASSUME Bad # {} PROVE FALSE
  OBVIOUS
<1>1. PICK j \in Bad : \A k \in Bad : j <= k
  BY LeastOf, Bad \subseteq Nat
<1>2. \A a, b \in Seq(S) : Leads(a, a \o b) /\ Leads(a, a)
  BY DEF Leads
<1>3. ASSUME NEW i \in 1..j PROVE Leads(f[i], f[j])
  <2>0. i \in 1..N /\ f[i] \in Seq(S) /\ f[j] \in Seq(S)
    <3>1. j \in 1..N
      OBVIOUS
    <3>2. i \in 1..N
      BY <3>1
    <3> QED BY <3>1, <3>2
  <2>1. CASE i = j
    BY <1>2, <2>0, <2>1
  <2>2. CASE i # j
    <3>1. j - 1 \in 1..N /\ i \in 1..(j - 1) /\ j \in 2..N
      BY <1>1, <2>2
    <3>2. j - 1 \notin Bad
      BY <1>1
    <3>3. Leads(f[i], f[j - 1])
      BY <3>1, <3>2
    <3>4. /\ f[j - 1] \in Seq(S) /\ ss[j] \in Seq(S)
          /\ f[j] = f[j - 1] \o ss[j]
      BY <3>1
    <3>5. Leads(f[j - 1], f[j])
      BY <1>2, <3>4
    <3> QED BY <2>0, <3>3, <3>4, <3>5, LeadsOn
  <2> QED BY <2>1, <2>2
<1> QED BY <1>1, <1>3

\* Behind how many elements each of the sequences ss begins in s.
Places(st, ss, s) ==
    /\ st \in [1..(Len(ss) + 1) -> Nat]
    /\ st[1] = 0
    /\ Len(s) = st[Len(ss) + 1]
    /\ \A i \in DOMAIN ss :
         /\ st[i + 1] = st[i] + Len(ss[i])
         /\ st[i + 1] <= Len(s)
         /\ \A k \in DOMAIN ss[i] : s[st[i] + k] = ss[i][k]

LEMMA FlattenPlaces ==
    ASSUME NEW S, NEW ss \in Seq(Seq(S))
    PROVE  /\ FlattenSeq(ss) \in Seq(S)
           /\ \E st : Places(st, ss, FlattenSeq(ss))
<1>1. CASE ss = <<>>
  <2>1. FlattenSeq(ss) = <<>> /\ DOMAIN ss = {} /\ Len(ss) = 0
    BY <1>1 DEF FlattenSeq
  <2>2. Places([i \in 1..1 |-> 0], ss, FlattenSeq(ss))
    BY <2>1 DEF Places
  <2> QED BY <2>1, <2>2
<1>2. CASE ss # <<>>
  <2> DEFINE N == Len(ss)
  <2>1. PICK f \in [1..N -> Seq(S)] :
            /\ FlattenSeq(ss) = f[N]
            /\ f[1] = ss[1]
            /\ \A i \in 2..N : f[i] = f[i - 1] \o ss[i]
    BY <1>2, FlattenFacts
  <2> DEFINE st == [i \in 1..(N + 1) |-> IF i = 1 THEN 0 ELSE Len(f[i - 1])]
  <2>2. N \in Nat \ {0} /\ ss \in [1..N -> Seq(S)] /\ DOMAIN ss = 1..N
    BY <1>2
  <2> HIDE DEF N
  <2>3. \A j \in 1..N : \A i \in 1..j : Leads(f[i], f[j])
    BY <2>1, <2>2, PrefixesLead
  <2>4. \A i \in 2..(N + 1) : i - 1 \in 1..N
    BY <2>2
  <2>5. st \in [1..(N + 1) -> Nat] /\ st[1] = 0 /\ st[N + 1] = Len(f[N])
    BY <2>2, <2>4
  <2>6. ASSUME NEW i \in 1..N
        PROVE  /\ st[i + 1] = st[i] + Len(ss[i])
               /\ st[i + 1] <= Len(f[N])
               /\ \A k \in 1..Len(ss[i]) : f[N][st[i] + k] = ss[i][k]
    <3>1. /\ st[i + 1] = Len(f[i])
          /\ st[i] = IF i = 1 THEN 0 ELSE Len(f[i - 1])
          /\ ss[i] \in Seq(S) /\ f[i] \in Seq(S)
      BY <2>2
    <3>2. Leads(f[i], f[N])
      BY <2>2, <2>3
    <3>3. /\ Len(f[i]) = st[i] + Len(ss[i])
          /\ \A k \in 1..Len(ss[i]) : f[i][st[i] + k] = ss[i][k]
      <4>1. CASE i = 1
        <5>1. st[i] = 0 /\ f[i] = ss[i] /\ Len(ss[i]) \in Nat
          BY <2>1, <3>1, <4>1
        <5> HIDE DEF st
        <5>2. \A k \in 1..Len(ss[i]) : st[i] + k = k
          BY <5>1
        <5> QED BY <5>1, <5>2
      <4>2. CASE i # 1
        <5>1. i \in 2..N /\ i - 1 \in 1..N
          BY <2>2, <4>2
        <5>2. f[i - 1] \in Seq(S) /\ f[i] = f[i - 1] \o ss[i]
          BY <2>1, <5>1
        <5>3. \A a, b \in Seq(S) :
                 /\ Len(a \o b) = Len(a) + Len(b)
                 /\ \A k \in 1..Len(b) : (a \o b)[Len(a) + k] = b[k]
          OBVIOUS
        <5>4. st[i] = Len(f[i - 1])
          BY <3>1, <4>2
        <5> HIDE DEF st
        <5>5. Len(f[i]) = st[i] + Len(ss[i])
          <6>1. /\ Len(f[i - 1] \o ss[i]) = Len(f[i - 1]) + Len(ss[i])
                /\ f[i] = f[i - 1] \o ss[i]
            BY <3>1, <5>2, <5>3
          <6> QED BY <5>4, <6>1
        <5>6. \A k \in 1..Len(ss[i]) :
                 (f[i - 1] \o ss[i])[Len(f[i - 1]) + k] = ss[i][k]
          BY <3>1, <5>2, <5>3
        <5> QED BY <5>2, <5>4, <5>5, <5>6
      <4> QED BY <4>1, <4>2
    <3>4. Len(ss[i]) \in Nat /\ st[i] \in Nat /\ Len(f[i]) \in Nat
      BY <2>5, <3>1
    <3> HIDE DEF st
    <3>5. \A k \in 1..Len(ss[i]) : st[i] + k \in 1..Len(f[i])
      BY <3>3, <3>4
    <3> QED BY <3>1, <3>2, <3>3, <3>5 DEF Leads
  <2>7. DOMAIN ss = 1..N /\ \A i \in 1..N : DOMAIN ss[i] = 1..Len(ss[i])
    BY <2>2
  <2> HIDE DEF st
  <2>8. Len(ss) = N
    BY DEF N
  <2>9. Places(st, ss, FlattenSeq(ss))
    <3>1. \A i \in DOMAIN ss : \A k \in DOMAIN ss[i] :
             FlattenSeq(ss)[st[i] + k] = ss[i][k]
      <4> SUFFICES ASSUME NEW i \in 1..N, NEW k \in 1..Len(ss[i])
                   PROVE  FlattenSeq(ss)[st[i] + k] = ss[i][k]
        BY <2>7
      <4> QED BY <2>1, <2>6
    <3>2. \A i \in DOMAIN ss : /\ st[i + 1] = st[i] + Len(ss[i])
                               /\ st[i + 1] <= Len(FlattenSeq(ss))
      BY <2>1, <2>6, <2>7
    <3> QED BY <2>1, <2>5, <2>8, <3>1, <3>2 DEF Places
  <2>10. FlattenSeq(ss) \in Seq(S)
    BY <2>1, <2>2
  <2> QED BY <2>9, <2>10
<1> QED BY <1>1, <1>2

-----------------------------------------------------------------------------
(* Descriptors: where the types are in the text                            *)

\* What a text is made of.
Character == Letters \cup {"L", Semicolon, "[", "(", ")"}
             \cup UNION {Range(n) : n \in ClassNames}

LEMMA CharacterFacts ==
    /\ Letters \subseteq Character
    /\ "L" \in Character /\ Semicolon \in Character /\ "[" \in Character
    /\ "(" \in Character /\ ")" \in Character
BY DEF Character

LEMMA NameFacts ==
    ASSUME NEW n \in ClassNames
    PROVE  n \in Seq(Character) /\ Len(n) \in Nat
           /\ \A k \in 1..Len(n) : n[k] # Semicolon
<1>1. n \in Seq(Range(n)) /\ \A k \in 1..Len(n) : n[k] # Semicolon
  BY DescriptorsAssumption DEF Contains
<1>2. Range(n) \subseteq Character
  BY DEF Character
<1>3. ASSUME NEW R, n \in Seq(R), R \subseteq Character
      PROVE  n \in Seq(Character) /\ Len(n) \in Nat
  BY <1>3
<1> QED BY <1>1, <1>2, <1>3

\* A base is one letter, or a name that ends at the first semicolon.
LEMMA BaseFacts ==
    ASSUME NEW b \in Bases
    PROVE  /\ b \in Seq(Character) /\ Len(b) \in Nat \ {0}
           /\ b[1] \in Letters \cup {"L"}
           /\ b[1] \in Letters => b = <<b[1]>> /\ Len(b) = 1
           /\ b[1] = "L" => /\ Len(b) > 1 /\ b[Len(b)] = Semicolon
                            /\ \A k \in 2..(Len(b) - 1) : b[k] # Semicolon
<1>1. CASE b \in {<<c>> : c \in Letters}
  <2>1. PICK c \in Letters : b = <<c>>
    BY <1>1
  <2>2. b \in Seq(Character) /\ Len(b) = 1 /\ b[1] = c /\ c # "L"
    BY <2>1, CharacterFacts DEF Letters
  <2> QED BY <2>1, <2>2
<1>2. CASE b \in {<<"L">> \o n \o <<Semicolon>> : n \in ClassNames}
  <2>1. PICK n \in ClassNames : b = <<"L">> \o n \o <<Semicolon>>
    BY <1>2
  <2>2. n \in Seq(Character) /\ \A k \in 1..Len(n) : n[k] # Semicolon
    BY NameFacts
  <2> DEFINE a == <<"L">> \o n
  <2>3. /\ a \in Seq(Character) /\ Len(a) = Len(n) + 1 /\ Len(n) \in Nat
        /\ a[1] = "L" /\ \A k \in 1..Len(n) : a[1 + k] = n[k]
    BY <2>2, CharacterFacts, Prepending
  <2> HIDE DEF a
  <2>4. /\ a \o <<Semicolon>> \in Seq(Character)
        /\ Len(a \o <<Semicolon>>) = Len(n) + 2
        /\ (a \o <<Semicolon>>)[Len(n) + 2] = Semicolon
        /\ \A k \in 1..Len(a) : (a \o <<Semicolon>>)[k] = a[k]
    <3>1. Len(a) + 1 = Len(n) + 2
      BY <2>3
    <3> QED BY <2>3, <3>1, CharacterFacts, Appending
  <2>5. b = a \o <<Semicolon>>
    BY <2>1 DEF a
  <2>6. b \in Seq(Character) /\ Len(b) = Len(n) + 2 /\ b[Len(n) + 2] = Semicolon
        /\ \A k \in 1..(Len(n) + 1) : b[k] = a[k]
    BY <2>3, <2>4, <2>5
  <2>7. b[1] = "L"
    BY <2>3, <2>6
  <2>8. ASSUME NEW k \in 2..(Len(n) + 1) PROVE b[k] # Semicolon
    <3>1. k - 1 \in 1..Len(n) /\ k \in 1..(Len(n) + 1)
      BY <2>3
    <3>2. a[1 + (k - 1)] = n[k - 1] /\ 1 + (k - 1) = k
      BY <2>3, <3>1
    <3> QED BY <2>2, <2>6, <3>1, <3>2
  <2>9. "L" \notin Letters
    BY DEF Letters
  <2>10. Len(b) > 1 /\ b[Len(b)] = Semicolon /\ Len(b) - 1 = Len(n) + 1
    BY <2>3, <2>6
  <2> QED BY <2>6, <2>7, <2>8, <2>9, <2>10
<1> QED BY <1>1, <1>2 DEF Bases

LEMMA SpellFacts ==
    ASSUME NEW t \in FieldType
    PROVE  /\ t.dimensions \in Nat /\ t.base \in Bases
           /\ Spell(t) \in Seq(Character)
           /\ Len(Spell(t)) = t.dimensions + Len(t.base)
           /\ \A k \in 1..t.dimensions : Spell(t)[k] = "["
           /\ \A k \in 1..Len(t.base) :
                 Spell(t)[t.dimensions + k] = t.base[k]
<1>1. t.dimensions \in Nat /\ t.base \in Bases
  BY DEF FieldType
<1>2. t.base \in Seq(Character)
  BY <1>1, BaseFacts
<1> DEFINE brackets == [i \in 1..t.dimensions |-> "["]
<1>3. brackets \in Seq(Character) /\ Len(brackets) = t.dimensions
  <2>1. brackets \in [1..t.dimensions -> Character]
    BY CharacterFacts
  <2> HIDE DEF brackets
  <2> QED BY <1>1, <2>1
<1>4. \A k \in 1..t.dimensions : brackets[k] = "["
  OBVIOUS
<1>5. Spell(t) = brackets \o t.base
  BY DEF Spell
<1> HIDE DEF brackets
<1>6. /\ brackets \o t.base \in Seq(Character)
      /\ Len(brackets \o t.base) = Len(brackets) + Len(t.base)
      /\ \A k \in 1..Len(brackets) : (brackets \o t.base)[k] = brackets[k]
      /\ \A k \in 1..Len(t.base) :
            (brackets \o t.base)[Len(brackets) + k] = t.base[k]
  <2>1. ASSUME NEW b \in Seq(Character), b = t.base
        PROVE  /\ brackets \o b \in Seq(Character)
               /\ Len(brackets \o b) = Len(brackets) + Len(b)
               /\ \A k \in 1..Len(brackets) : (brackets \o b)[k] = brackets[k]
               /\ \A k \in 1..Len(b) :
                     (brackets \o b)[Len(brackets) + k] = b[k]
    BY <1>3, Concatenation
  <2> QED BY <1>2, <2>1
<1> QED BY <1>1, <1>3, <1>4, <1>5, <1>6

\* The types of a descriptor in the order they are written; the last is the
\* result, or the type of the field.
Turns(d) == Len(d.params) + 1
Written(d, i) == IF i = Turns(d) THEN d.result ELSE d.params[i]

LEMMA WrittenFacts ==
    ASSUME NEW d \in Descriptors
    PROVE  /\ d.kind \in {"field", "static", "instance"}
           /\ d.params \in Seq(FieldType) /\ Len(d.params) \in Nat
           /\ d.kind = "field" => Len(d.params) = 0
           /\ \A i \in 1..Turns(d) : Written(d, i) \in FieldType
           /\ d.result \in FieldType
<1>1. /\ d.kind \in {"field", "static", "instance"}
      /\ d.params \in Seq(FieldType) /\ d.result \in FieldType
      /\ d.kind = "field" => d.params = <<>>
  BY DescriptorsAssumption DEF Descriptor
<1> QED BY <1>1 DEF Written, Turns

\* The type i of d begins at st[i] in the text x.  Between the last parameter
\* and the result there is a parenthesis.
Laid(st, d, x) ==
    /\ st \in [1..Turns(d) -> Nat \ {0}]
    /\ d.kind = "field" => st[1] = 1
    /\ d.kind # "field" => /\ x[st[Turns(d)] - 1] = ")"
                           /\ st[1] = IF Len(d.params) = 0 THEN 3 ELSE 2
    /\ \A i \in 1..Len(d.params) :
         st[i + 1] = st[i] + Len(Spell(d.params[i]))
                     + (IF i = Len(d.params) THEN 1 ELSE 0)
    /\ Len(x) + 1 = st[Turns(d)] + Len(Spell(d.result))
    /\ \A i \in 1..Turns(d) : \A k \in 1..Len(Spell(Written(d, i))) :
         x[st[i] + k - 1] = Spell(Written(d, i))[k]

LEMMA TextLaid ==
    ASSUME NEW d \in Descriptors
    PROVE  \E st : Laid(st, d, SpellDescriptor(d))
<1> DEFINE x == SpellDescriptor(d)
           N == Len(d.params)
           r == Spell(d.result)
<1>1. /\ d.kind \in {"field", "static", "instance"}
      /\ d.params \in Seq(FieldType) /\ N \in Nat
      /\ d.kind = "field" => N = 0
      /\ d.result \in FieldType
      /\ Turns(d) = N + 1
  BY WrittenFacts DEF Turns
<1>2. r \in Seq(Character) /\ Len(r) \in Nat
  BY <1>1, SpellFacts
<1>3. CASE d.kind = "field"
  <2>1. N = 0 /\ x = r /\ \A i \in 1..(N + 1) : i = 1 /\ Written(d, i) = d.result
    BY <1>1, <1>3 DEF SpellDescriptor, Written
  <2> HIDE DEF x, r, N
  <2>2. Laid([i \in 1..1 |-> 1], d, x)
    BY <1>1, <1>2, <1>3, <2>1 DEF Laid, r, N
  <2> QED BY <2>2 DEF x
<1>4. CASE d.kind # "field"
  <2> DEFINE ss == [i \in DOMAIN d.params |-> Spell(d.params[i])]
             all == SpellAll(d.params)
  <2>1. ss \in Seq(Seq(Character)) /\ Len(ss) = N /\ DOMAIN ss = 1..N
    <3>1. DOMAIN d.params = 1..N
      BY <1>1
    <3>2. \A i \in 1..N : d.params[i] \in FieldType
      BY <1>1
    <3>3. ss \in [1..N -> Seq(Character)]
      BY <3>1, <3>2, SpellFacts
    <3> HIDE DEF ss
    <3> QED BY <1>1, <3>3
  <2>2. all = FlattenSeq(ss)
    BY DEF SpellAll
  <2>3. all \in Seq(Character)
    BY <2>1, <2>2, FlattenPlaces
  <2>4. PICK pl : Places(pl, ss, all)
    BY <2>1, <2>2, FlattenPlaces
  <2> DEFINE st == [i \in 1..(N + 1) |->
                      IF i = N + 1 THEN pl[i] + 3 ELSE pl[i] + 2]
  <2>5. x = <<"(">> \o all \o <<")">> \o r
    BY <1>4 DEF SpellDescriptor
  <2>6. \A i \in 1..N : ss[i] = Spell(d.params[i])
    BY <2>1
  <2> HIDE DEF x, r, N, ss, all
  <2>7. /\ pl \in [1..(N + 1) -> Nat] /\ pl[1] = 0 /\ Len(all) = pl[N + 1]
        /\ \A i \in 1..N :
             /\ pl[i + 1] = pl[i] + Len(ss[i])
             /\ pl[i + 1] <= pl[N + 1]
             /\ \A k \in DOMAIN ss[i] : all[pl[i] + k] = ss[i][k]
    BY <2>1, <2>4 DEF Places
  <2> DEFINE y == <<"(">> \o all
             z == y \o <<")">>
  <2>8. /\ y \in Seq(Character) /\ Len(y) = pl[N + 1] + 1
        /\ \A k \in 1..pl[N + 1] : y[1 + k] = all[k]
    BY <2>3, <2>7, CharacterFacts, Prepending
  <2>9. pl[N + 1] \in Nat
    BY <1>1, <2>7
  <2> HIDE DEF y
  <2>10. /\ z \in Seq(Character) /\ Len(z) = pl[N + 1] + 2
         /\ z[pl[N + 1] + 2] = ")"
         /\ \A k \in 1..(pl[N + 1] + 1) : z[k] = y[k]
    <3>1. Len(y) + 1 = pl[N + 1] + 2
      BY <2>8, <2>9
    <3> QED BY <2>8, <3>1, CharacterFacts, Appending
  <2>11. x = z \o r
    BY <2>5 DEF y
  <2> HIDE DEF z
  <2>12. /\ Len(z \o r) = Len(z) + Len(r)
         /\ \A k \in 1..Len(z) : (z \o r)[k] = z[k]
         /\ \A k \in 1..Len(r) : (z \o r)[Len(z) + k] = r[k]
    <3>1. ASSUME NEW a \in Seq(Character), NEW b \in Seq(Character)
          PROVE  /\ Len(a \o b) = Len(a) + Len(b)
                 /\ \A k \in 1..Len(a) : (a \o b)[k] = a[k]
                 /\ \A k \in 1..Len(b) : (a \o b)[Len(a) + k] = b[k]
      BY Concatenation
    <3>2. z \in Seq(Character) /\ r \in Seq(Character)
      BY <1>2, <2>10
    <3> QED BY <3>1, <3>2
  <2>12b. /\ Len(x) = pl[N + 1] + 2 + Len(r)
          /\ \A k \in 1..(pl[N + 1] + 2) : x[k] = z[k]
          /\ \A k \in 1..Len(r) : x[pl[N + 1] + 2 + k] = r[k]
    BY <1>2, <2>10, <2>11, <2>12
  <2>13. x[pl[N + 1] + 2] = ")"
    <3>1. pl[N + 1] + 2 \in 1..(pl[N + 1] + 2)
      BY <2>9
    <3> QED BY <2>10, <2>12b, <3>1
  <2>14. \A k \in 1..pl[N + 1] : x[1 + k] = all[k]
    <3>1. \A k \in 1..pl[N + 1] : /\ 1 + k \in 1..(pl[N + 1] + 2)
                                  /\ 1 + k \in 1..(pl[N + 1] + 1)
      BY <2>9
    <3>2. \A k \in 1..pl[N + 1] : x[1 + k] = z[1 + k] /\ z[1 + k] = y[1 + k]
      BY <2>10, <2>12b, <3>1
    <3> QED BY <2>8, <3>2
  <2>15. \A i \in 1..N : /\ ss[i] \in Seq(Character)
                         /\ DOMAIN ss[i] = 1..Len(ss[i])
                         /\ Len(ss[i]) \in Nat
    BY <2>1
  <2>16. ASSUME NEW i \in 1..N, NEW k \in 1..Len(ss[i])
         PROVE  x[pl[i] + 2 + k - 1] = ss[i][k]
    <3>1. /\ pl[i] \in Nat /\ pl[i + 1] \in Nat
          /\ pl[i + 1] = pl[i] + Len(ss[i])
          /\ pl[i + 1] <= pl[N + 1]
          /\ all[pl[i] + k] = ss[i][k]
      BY <1>1, <2>7, <2>15
    <3>2. pl[i] + k \in 1..pl[N + 1] /\ 1 + (pl[i] + k) = pl[i] + 2 + k - 1
      <4> DEFINE a == pl[i]
                 c == pl[N + 1]
                 l == Len(ss[i])
      <4>1. a \in Nat /\ c \in Nat /\ l \in Nat /\ k \in 1..l
        BY <2>9, <2>15, <3>1
      <4>2. a + l <= c
        BY <3>1
      <4> HIDE DEF a, c, l
      <4>3. a + k \in 1..c /\ 1 + (a + k) = a + 2 + k - 1
        BY <4>1, <4>2
      <4> QED BY <4>3 DEF a, c
    <3> QED BY <2>14, <3>1, <3>2
  <2>17. \A i \in 1..N : Written(d, i) = d.params[i] /\ i # N + 1
    BY <1>1 DEF Written
  <2>18. Written(d, N + 1) = d.result
    BY <1>1 DEF Written
  <2>19. /\ st \in [1..(N + 1) -> Nat \ {0}]
         /\ st[N + 1] = pl[N + 1] + 3
         /\ \A i \in 1..N : st[i] = pl[i] + 2
    BY <1>1, <2>7
  <2> HIDE DEF st
  <2>20. \A i \in 1..N :
            st[i + 1] = st[i] + Len(ss[i]) + (IF i = N THEN 1 ELSE 0)
    <3> SUFFICES ASSUME NEW i \in 1..N
                 PROVE  st[i + 1] = st[i] + Len(ss[i])
                                    + (IF i = N THEN 1 ELSE 0)
      OBVIOUS
    <3>1. pl[i + 1] = pl[i] + Len(ss[i]) /\ pl[i] \in Nat
      BY <1>1, <2>7
    <3>2. i # N => i + 1 \in 1..N
      BY <1>1
    <3>3. /\ st[i] = pl[i] + 2
          /\ st[i + 1] = IF i = N THEN pl[i + 1] + 3 ELSE pl[i + 1] + 2
      BY <2>19, <3>2
    <3>4. Len(ss[i]) \in Nat
      BY <2>15
    <3> QED BY <3>1, <3>3, <3>4
  <2>21. st[1] = IF N = 0 THEN 3 ELSE 2
    BY <1>1, <2>7, <2>19
  <2>22. /\ Len(x) + 1 = st[N + 1] + Len(r)
         /\ x[st[N + 1] - 1] = ")"
    <3>1. /\ pl[N + 1] \in Nat /\ Len(r) \in Nat
          /\ Len(x) = pl[N + 1] + 2 + Len(r) /\ st[N + 1] = pl[N + 1] + 3
      BY <1>2, <2>9, <2>12b, <2>19
    <3>2. st[N + 1] - 1 = pl[N + 1] + 2 /\ Len(x) + 1 = st[N + 1] + Len(r)
      BY <3>1
    <3> QED BY <2>13, <3>2
  <2>23. \A k \in 1..Len(r) : x[st[N + 1] + k - 1] = r[k]
    <3>1. /\ pl[N + 1] \in Nat /\ st[N + 1] = pl[N + 1] + 3
          /\ \A k \in 1..Len(r) : x[pl[N + 1] + 2 + k] = r[k]
      BY <2>9, <2>12b, <2>19
    <3>2. ASSUME NEW k \in 1..Len(r)
          PROVE  st[N + 1] + k - 1 = pl[N + 1] + 2 + k
      BY <1>2, <3>1
    <3> QED BY <3>1, <3>2
  <2>24. ASSUME NEW i \in 1..(N + 1), NEW k \in 1..Len(Spell(Written(d, i)))
         PROVE  x[st[i] + k - 1] = Spell(Written(d, i))[k]
    <3>1. CASE i = N + 1
      BY <2>18, <2>23, <3>1 DEF r
    <3>2. CASE i # N + 1
      <4>1. i \in 1..N
        BY <1>1, <3>2
      <4>2. Spell(Written(d, i)) = ss[i] /\ st[i] = pl[i] + 2
        BY <2>6, <2>17, <2>19, <4>1
      <4> QED BY <2>16, <4>1, <4>2
    <3> QED BY <3>1, <3>2
  <2>25. Laid(st, d, x)
    BY <1>1, <1>4, <2>6, <2>19, <2>20, <2>21, <2>22, <2>24 DEF Laid, N, r
  <2> QED BY <2>25 DEF x
<1> QED BY <1>3, <1>4

Starts(d) == CHOOSE st : Laid(st, d, SpellDescriptor(d))

\* Just behind the type i.
Behind(d, i) ==
    Starts(d)[i] + Written(d, i).dimensions + Len(Written(d, i).base)

LEMMA TurnFacts ==
    ASSUME NEW d \in Descriptors, NEW i \in 1..Turns(d)
    PROVE  /\ Written(d, i) \in FieldType /\ Written(d, i).base \in Bases
           /\ Written(d, i).dimensions \in Nat
           /\ Len(Written(d, i).base) \in Nat \ {0}
           /\ Starts(d)[i] \in Nat \ {0}
           /\ \A k \in 0..(Written(d, i).dimensions - 1) :
                 SpellDescriptor(d)[Starts(d)[i] + k] = "["
           /\ \A k \in 1..Len(Written(d, i).base) :
                 SpellDescriptor(d)
                    [Starts(d)[i] + Written(d, i).dimensions + k - 1]
                    = Written(d, i).base[k]
           /\ i < Len(d.params) => Starts(d)[i + 1] = Behind(d, i)
           /\ i = Len(d.params) => Starts(d)[i + 1] - 1 = Behind(d, i)
           /\ i = Turns(d) => Behind(d, i) = Len(SpellDescriptor(d)) + 1
<1> DEFINE t == Written(d, i)
           s == Starts(d)[i]
           x == SpellDescriptor(d)
<1>0. /\ t = Written(d, i) /\ s = Starts(d)[i] /\ x = SpellDescriptor(d)
      /\ Starts(d) = CHOOSE st : Laid(st, d, x)
      /\ \E st : Laid(st, d, x)
  BY TextLaid DEF Starts
<1> HIDE DEF t, s, x
<1>1. Laid(Starts(d), d, x)
  BY <1>0
<1>2. /\ t \in FieldType /\ Len(d.params) \in Nat
      /\ Turns(d) = Len(d.params) + 1
  BY <1>0, WrittenFacts DEF Turns
<1>3. /\ t.dimensions \in Nat /\ t.base \in Bases
      /\ Len(Spell(t)) = t.dimensions + Len(t.base)
      /\ \A k \in 1..t.dimensions : Spell(t)[k] = "["
      /\ \A k \in 1..Len(t.base) : Spell(t)[t.dimensions + k] = t.base[k]
  BY <1>2, SpellFacts
<1>4. Len(t.base) \in Nat \ {0}
  BY <1>3, BaseFacts
<1>5. s \in Nat \ {0}
  BY <1>0, <1>1 DEF Laid
<1>6. Behind(d, i) = s + t.dimensions + Len(t.base)
  BY <1>0 DEF Behind
<1>7. \A k \in 1..Len(Spell(t)) : x[s + k - 1] = Spell(t)[k]
  BY <1>0, <1>1 DEF Laid
<1>8. ASSUME NEW k \in 0..(t.dimensions - 1) PROVE x[s + k] = "["
  <2>1. k + 1 \in 1..t.dimensions /\ k + 1 \in 1..Len(Spell(t))
        /\ s + (k + 1) - 1 = s + k
    BY <1>3, <1>4, <1>5
  <2>2. x[s + (k + 1) - 1] = Spell(t)[k + 1]
    BY <1>7, <2>1
  <2> QED BY <1>3, <2>1, <2>2
<1>9. ASSUME NEW k \in 1..Len(t.base)
      PROVE  x[s + t.dimensions + k - 1] = t.base[k]
  <2>1. t.dimensions + k \in 1..Len(Spell(t))
        /\ s + (t.dimensions + k) - 1 = s + t.dimensions + k - 1
    <3>1. \A m, b \in Nat : k \in 1..b =>
             m + k \in 1..(m + b) /\ s + (m + k) - 1 = s + m + k - 1
      BY <1>5
    <3> QED BY <1>3, <1>4, <3>1
  <2>2. x[s + (t.dimensions + k) - 1] = Spell(t)[t.dimensions + k]
    BY <1>7, <2>1
  <2> QED BY <1>3, <2>1, <2>2
<1>10. ASSUME i <= Len(d.params)
       PROVE  Starts(d)[i + 1] = Behind(d, i)
                                 + (IF i = Len(d.params) THEN 1 ELSE 0)
  <2>1. i \in 1..Len(d.params) /\ t = d.params[i]
    BY <1>0, <1>2, <1>10 DEF Written
  <2>2. Starts(d)[i + 1] = s + Len(Spell(t))
                           + (IF i = Len(d.params) THEN 1 ELSE 0)
    BY <1>0, <1>1, <2>1 DEF Laid
  <2> QED BY <1>3, <1>4, <1>5, <1>6, <2>2
<1>11. Behind(d, i) \in Nat
  BY <1>3, <1>4, <1>5, <1>6
<1>12. i = Turns(d) => Behind(d, i) = Len(x) + 1
  <2>1. i = Turns(d) => Len(x) + 1 = s + Len(Spell(t))
    BY <1>0, <1>1 DEF Laid, Written
  <2> QED BY <1>3, <1>4, <1>5, <1>6, <2>1
<1>13. i < Len(d.params) => Starts(d)[i + 1] = Behind(d, i)
  BY <1>2, <1>10, <1>11
<1>14. i = Len(d.params) => Starts(d)[i + 1] - 1 = Behind(d, i)
  BY <1>2, <1>10, <1>11
<1> QED BY <1>2, <1>3, <1>4, <1>5, <1>8, <1>9, <1>12, <1>13, <1>14 DEF t, s, x

-----------------------------------------------------------------------------
(* Descriptors: where the parser is                                        *)

CompilerType == {"object", "int", "long", "float", "double", "void"}

\* A byte, a char or a short, or an array of them.
Refused(t) == t.base \in {<<"B">>, <<"C">>, <<"S">>}

\* Which type is read next when n parameters are read.
Turn(d, r, n) == IF r THEN Turns(d) ELSE n + 1

\* Before the base of the type i: in an array if a bracket was read.
BeforeBase(d, i, p, y) ==
    /\ p \in Starts(d)[i]..(Starts(d)[i] + Written(d, i).dimensions)
    /\ y <=> p > Starts(d)[i]

\* In the name of a class, or at its end.
InName(d, i, p, y) ==
    /\ Written(d, i).base[1] = "L"
    /\ y <=> Written(d, i).dimensions > 0
    /\ p \in (Starts(d)[i] + Written(d, i).dimensions + 1)..(Behind(d, i) - 1)

\* The parser of d is at the point a and the character p; r, y and n are whether
\* it reads the result, whether in an array, and the parameters it has read.
Position(d, a, p, r, y, n) ==
    /\ a \in {"open", "params", "type", "class", "done", "threw"}
    /\ a = "open" => d.kind # "field" /\ p = 1 /\ ~r /\ ~y /\ n = 0
    /\ a = "params" => /\ d.kind # "field" /\ ~r /\ ~y
                       /\ p = IF n = Len(d.params)
                              THEN Starts(d)[Turns(d)] - 1
                              ELSE Starts(d)[n + 1]
    /\ a \in {"type", "class", "threw"} => (~r => n < Len(d.params))
    /\ a = "type" => BeforeBase(d, Turn(d, r, n), p, y)
    /\ a = "class" => InName(d, Turn(d, r, n), p, y)
    /\ a = "threw" => Refused(Written(d, Turn(d, r, n)))
    /\ a = "done" => /\ r /\ ~Refused(d.result)
                     /\ p = Len(SpellDescriptor(d)) + 1

\* The parameters that were read mean what was written.
ReadRight(d, ps) ==
    /\ ps \in Seq(CompilerType)
    /\ Len(ps) <= Len(d.params)
    /\ \A i \in 1..Len(ps) : /\ ~Refused(d.params[i])
                             /\ ps[i] = Meaning(d.params[i])

ParseInv ==
    /\ descriptor \in Descriptors
    /\ text = SpellDescriptor(descriptor)
    /\ result \in BOOLEAN
    /\ ReadRight(descriptor, params)
    /\ result => Len(params) = Len(descriptor.params)
    /\ Position(descriptor, at, pos, result, array, Len(params))
    /\ at = "done" => /\ returned = Meaning(descriptor.result)
                      /\ called = Called(params)

LEMMA ParseInvInit == ParseInit => ParseInv
<1> SUFFICES ASSUME ParseInit PROVE ParseInv
  OBVIOUS
<1>1. descriptor \in Descriptors /\ Len(params) = 0 /\ params \in Seq(CompilerType)
  BY DEF ParseInit
<1> DEFINE d == descriptor
<1>2. /\ Len(d.params) \in Nat /\ Turns(d) = Len(d.params) + 1
      /\ d.kind = "field" => Len(d.params) = 0
  BY <1>1, WrittenFacts DEF Turns
<1>3. ReadRight(d, params)
  BY <1>1, <1>2 DEF ReadRight
<1>4. Position(d, at, pos, result, array, Len(params))
  <2>1. CASE d.kind = "field"
    <3>1. /\ at = "type" /\ result = TRUE /\ pos = 1 /\ array = FALSE
          /\ Turns(d) = 1 /\ Turn(d, result, Len(params)) = 1
      <4>1. result = TRUE /\ at = "type" /\ pos = 1 /\ array = FALSE
        BY <2>1 DEF ParseInit
      <4> QED BY <1>2, <2>1, <4>1 DEF Turn
    <3>2. Starts(d)[1] = 1
      BY <1>1, <2>1, TextLaid DEF Laid, Starts
    <3>3. Written(d, 1).dimensions \in Nat
      BY <1>1, <3>1, TurnFacts
    <3>4. BeforeBase(d, 1, 1, FALSE)
      BY <3>2, <3>3 DEF BeforeBase
    <3> QED BY <3>1, <3>4 DEF Position
  <2>2. CASE d.kind # "field"
    BY <1>1, <2>2 DEF ParseInit, Position
  <2> QED BY <2>1, <2>2
<1> QED BY <1>1, <1>2, <1>3, <1>4 DEF ParseInit, ParseInv

\* What is known of the type that is read.
LEMMA CurrentFacts ==
    ASSUME ParseInv, at \in {"type", "class", "threw"},
           NEW d, d = descriptor,
           NEW i, i = Turn(d, result, Len(params))
    PROVE  /\ d \in Descriptors /\ i \in 1..Turns(d)
           /\ Len(params) \in Nat /\ Len(d.params) \in Nat
           /\ result => i = Turns(d) /\ Written(d, i) = d.result
           /\ ~result => /\ i = Len(params) + 1 /\ i <= Len(d.params)
                         /\ Written(d, i) = d.params[i]
                         /\ d.kind # "field"
<1>1. /\ d \in Descriptors /\ Len(d.params) \in Nat
      /\ Turns(d) = Len(d.params) + 1
      /\ d.kind = "field" => Len(d.params) = 0
  BY WrittenFacts DEF ParseInv, Turns
<1>2. Len(params) \in Nat /\ (~result => Len(params) < Len(d.params))
  BY DEF ParseInv, ReadRight, Position
<1> QED BY <1>1, <1>2 DEF Turn, Written

\* A type is read to its end.
LEMMA ReadKeeps ==
    ASSUME ParseInv, at \in {"type", "class"},
           NEW d, d = descriptor,
           NEW i, i = Turn(d, result, Len(params)),
           NEW t, t = Written(d, i),
           ~Refused(t), Meaning(t) \in CompilerType,
           NEW type, (IF array THEN "object" ELSE type) = Meaning(t),
           Read(type), pos' = Behind(d, i),
           UNCHANGED <<descriptor, text, result>>
    PROVE  ParseInv'
<1>1. /\ d \in Descriptors /\ i \in 1..Turns(d) /\ Len(params) \in Nat
      /\ Len(d.params) \in Nat /\ Turns(d) = Len(d.params) + 1
      /\ result => i = Turns(d) /\ t = d.result
      /\ ~result => /\ i = Len(params) + 1 /\ i <= Len(d.params)
                    /\ t = d.params[i] /\ d.kind # "field"
  BY CurrentFacts DEF Turns
<1>2. /\ text = SpellDescriptor(d) /\ ReadRight(d, params)
      /\ result \in BOOLEAN /\ params \in Seq(CompilerType)
      /\ result => Len(params) = Len(d.params)
  BY DEF ParseInv, ReadRight
<1>3. descriptor' = d /\ text' = text /\ result' = result /\ array' = FALSE
  BY DEF Read
<1>4. CASE result
  <2>1. /\ params' = params /\ at' = "done" /\ returned' = Meaning(d.result)
        /\ called' = Called(params)
    BY <1>1, <1>4 DEF Read
  <2>2. Called(params)' = Called(params)
    BY <1>3, <2>1 DEF Called
  <2>3. Behind(d, i) = Len(SpellDescriptor(d)) + 1
    BY <1>1, <1>4, TurnFacts
  <2>4. Position(d, "done", pos', result, FALSE, Len(params))
    BY <1>1, <1>4, <2>3 DEF Position
  <2> QED BY <1>1, <1>2, <1>3, <1>4, <2>1, <2>2, <2>4 DEF ParseInv
<1>5. CASE ~result
  <2>1. params' = Append(params, Meaning(t)) /\ at' = "params"
    BY <1>5 DEF Read
  <2>2. /\ params' \in Seq(CompilerType) /\ Len(params') = i
        /\ params'[i] = Meaning(t)
        /\ \A k \in 1..Len(params) : params'[k] = params[k]
    BY <1>1, <1>2, <1>5, <2>1
  <2>3. ReadRight(d, params')
    <3>1. ASSUME NEW k \in 1..i
          PROVE  ~Refused(d.params[k]) /\ params'[k] = Meaning(d.params[k])
      <4>1. CASE k = i
        BY <1>1, <1>5, <2>2, <4>1
      <4>2. CASE k # i
        <5>1. k \in 1..Len(params)
          BY <1>1, <1>5, <4>2
        <5> QED BY <1>2, <2>2, <5>1 DEF ReadRight
      <4> QED BY <4>1, <4>2
    <3> QED BY <1>1, <1>5, <2>2, <3>1 DEF ReadRight
  <2>4. pos' = IF i = Len(d.params) THEN Starts(d)[Turns(d)] - 1
                                    ELSE Starts(d)[i + 1]
    BY <1>1, <1>5, TurnFacts
  <2>5. Position(d, "params", pos', FALSE, FALSE, i)
    BY <1>1, <1>5, <2>4 DEF Position
  <2>6. result' = FALSE
    BY <1>2, <1>3, <1>5
  <2> QED BY <1>1, <1>2, <1>3, <1>5, <2>1, <2>2, <2>3, <2>5, <2>6 DEF ParseInv
<1> QED BY <1>4, <1>5

\* The character that the parser looks at before the base of a type.
LEMMA PeekFacts ==
    ASSUME ParseInv, at = "type",
           NEW d, d = descriptor,
           NEW i, i = Turn(d, result, Len(params)),
           NEW t, t = Written(d, i)
    PROVE  /\ pos \in Nat /\ t.dimensions \in Nat /\ t.base \in Bases
           /\ Starts(d)[i] \in Nat
           /\ BeforeBase(d, i, pos, array)
           /\ pos < Starts(d)[i] + t.dimensions => Peek = "["
           /\ pos = Starts(d)[i] + t.dimensions =>
                 Peek = t.base[1] /\ (array <=> t.dimensions > 0)
<1>1. d \in Descriptors /\ i \in 1..Turns(d)
  BY CurrentFacts
<1>2. text = SpellDescriptor(d) /\ BeforeBase(d, i, pos, array)
  BY DEF ParseInv, Position
<1> DEFINE s == Starts(d)[i]
<1>3. /\ t.dimensions \in Nat /\ t.base \in Bases /\ s \in Nat \ {0}
      /\ Len(t.base) \in Nat \ {0}
      /\ \A k \in 0..(t.dimensions - 1) : text[s + k] = "["
      /\ \A k \in 1..Len(t.base) : text[s + t.dimensions + k - 1] = t.base[k]
  <2>1. t = Written(d, i) /\ text = SpellDescriptor(d)
    BY <1>2
  <2>2. t \in FieldType /\ s \in Nat \ {0}
    BY <1>1, TurnFacts
  <2>3. t.dimensions \in Nat /\ t.base \in Bases /\ Len(t.base) \in Nat \ {0}
    BY <1>1, TurnFacts
  <2>4. ASSUME NEW k \in 0..(t.dimensions - 1) PROVE text[s + k] = "["
    BY <1>1, <2>1, TurnFacts
  <2>5. ASSUME NEW k \in 1..Len(t.base)
        PROVE  text[s + t.dimensions + k - 1] = t.base[k]
    BY <1>1, <2>1, TurnFacts
  <2> QED BY <2>2, <2>3, <2>4, <2>5
<1>4. pos \in s..(s + t.dimensions) /\ (array <=> pos > s)
  BY <1>2 DEF BeforeBase
<1> HIDE DEF s
<1>5. pos \in Nat
  BY <1>3, <1>4
<1>6. pos < s + t.dimensions => Peek = "["
  <2>1. pos < s + t.dimensions => pos - s \in 0..(t.dimensions - 1)
    BY <1>3, <1>4
  <2>2. s + (pos - s) = pos
    BY <1>3, <1>5
  <2> QED BY <1>3, <2>1, <2>2 DEF Peek
<1>7. pos = s + t.dimensions => Peek = t.base[1]
  <2>1. 1 \in 1..Len(t.base) /\ s + t.dimensions + 1 - 1 = s + t.dimensions
    BY <1>3
  <2> QED BY <1>3, <2>1 DEF Peek
<1>8. ASSUME pos = s + t.dimensions PROVE array <=> t.dimensions > 0
  <2>1. pos > s <=> t.dimensions > 0
    BY <1>3, <1>8
  <2> QED BY <1>4, <2>1
<1> QED BY <1>2, <1>3, <1>5, <1>6, <1>7, <1>8 DEF s

\* The parser is before a parameter or before the closing parenthesis, and sees
\* which.
LEMMA ParamsFacts ==
    ASSUME ParseInv, at = "params", NEW d, d = descriptor,
           NEW n, n = Len(params)
    PROVE  /\ d \in Descriptors /\ n \in Nat /\ Len(d.params) \in Nat
           /\ n <= Len(d.params) /\ d.kind # "field"
           /\ Turns(d) = Len(d.params) + 1
           /\ n = Len(d.params) => Peek = ")" /\ pos = Starts(d)[Turns(d)] - 1
           /\ n < Len(d.params) => Peek # ")" /\ pos = Starts(d)[n + 1]
<1>1. /\ d \in Descriptors /\ n \in Nat /\ n <= Len(d.params)
      /\ Len(d.params) \in Nat /\ Turns(d) = Len(d.params) + 1
      /\ text = SpellDescriptor(d)
  BY WrittenFacts DEF ParseInv, ReadRight, Turns
<1>2. /\ d.kind # "field"
      /\ pos = IF n = Len(d.params) THEN Starts(d)[Turns(d)] - 1
                                    ELSE Starts(d)[n + 1]
  BY DEF ParseInv, Position
<1>3. ASSUME n = Len(d.params) PROVE Peek = ")"
  <2>1. Laid(Starts(d), d, text)
    BY <1>1, TextLaid DEF Starts
  <2> QED BY <1>2, <1>3, <2>1 DEF Laid, Peek
<1>4. ASSUME n < Len(d.params) PROVE Peek # ")"
  <2> DEFINE i == n + 1
             t == Written(d, i)
  <2>1. i \in 1..Turns(d) /\ pos = Starts(d)[i]
    BY <1>1, <1>2, <1>4
  <2> HIDE DEF i
  <2>2. /\ t.dimensions \in Nat /\ t.base \in Bases
        /\ Len(t.base) \in Nat \ {0} /\ pos \in Nat
    BY <1>1, <2>1, TurnFacts
  <2>3. /\ \A k \in 0..(t.dimensions - 1) : text[pos + k] = "["
        /\ \A k \in 1..Len(t.base) :
              text[pos + t.dimensions + k - 1] = t.base[k]
    <3>1. text = SpellDescriptor(d) /\ pos = Starts(d)[i]
      BY <1>1, <2>1
    <3>2. ASSUME NEW k \in 0..(t.dimensions - 1) PROVE text[pos + k] = "["
      BY <1>1, <2>1, <3>1, TurnFacts
    <3>3. ASSUME NEW k \in 1..Len(t.base)
          PROVE  text[pos + t.dimensions + k - 1] = t.base[k]
      BY <1>1, <2>1, <3>1, TurnFacts
    <3> QED BY <3>2, <3>3
  <2>4. CASE t.dimensions > 0
    <3>1. 0 \in 0..(t.dimensions - 1) /\ pos + 0 = pos
      BY <2>2, <2>4
    <3>2. text[pos] = "["
      BY <2>3, <3>1
    <3> QED BY <3>2 DEF Peek
  <2>5. CASE t.dimensions = 0
    <3>1. 1 \in 1..Len(t.base) /\ pos + t.dimensions + 1 - 1 = pos
      BY <2>2, <2>5
    <3>2. text[pos] = t.base[1]
      BY <2>3, <3>1
    <3>3. t.base[1] \in Letters \cup {"L"}
      BY <2>2, BaseFacts
    <3> QED BY <3>2, <3>3 DEF Peek, Letters
  <2> QED BY <2>2, <2>4, <2>5
<1> QED BY <1>1, <1>2, <1>3, <1>4

LEMMA SkipOpeningKeeps == ParseInv /\ SkipOpening => ParseInv'
<1> SUFFICES ASSUME ParseInv, SkipOpening PROVE ParseInv'
  OBVIOUS
<1> DEFINE d == descriptor
<1>1. /\ UNCHANGED <<descriptor, text, result, array, params>>
      /\ at' = "params" /\ pos' = pos + 1 /\ at = "open"
  BY DEF SkipOpening
<1>2. d.kind # "field" /\ pos = 1 /\ ~result /\ ~array /\ Len(params) = 0
  BY <1>1 DEF ParseInv, Position
<1>3. d \in Descriptors /\ Len(d.params) \in Nat /\ Turns(d) = Len(d.params) + 1
  BY WrittenFacts DEF ParseInv, Turns
<1>4. /\ Starts(d)[1] = IF Len(d.params) = 0 THEN 3 ELSE 2
  BY <1>2, <1>3, TextLaid DEF Laid, Starts
<1>5. pos' = IF 0 = Len(d.params) THEN Starts(d)[Turns(d)] - 1
                                  ELSE Starts(d)[0 + 1]
  BY <1>1, <1>2, <1>3, <1>4
<1>6. Position(d, "params", pos', result, array, 0)
  <2> HIDE DEF d
  <2> QED BY <1>2, <1>5 DEF Position
<1> QED BY <1>1, <1>2, <1>6 DEF ParseInv

LEMMA NextParamKeeps == ParseInv /\ NextParam => ParseInv'
<1> SUFFICES ASSUME ParseInv, NextParam PROVE ParseInv'
  OBVIOUS
<1> DEFINE d == descriptor
           n == Len(params)
<1>1. /\ UNCHANGED <<descriptor, text, pos, result, array, params>>
      /\ at' = "type" /\ at = "params" /\ Peek # ")"
  BY DEF NextParam
<1>2. /\ d \in Descriptors /\ n \in Nat /\ n < Len(d.params)
      /\ pos = Starts(d)[n + 1] /\ Turns(d) = Len(d.params) + 1
      /\ Len(d.params) \in Nat
  <2>1. /\ d \in Descriptors /\ n \in Nat /\ Len(d.params) \in Nat
        /\ n <= Len(d.params) /\ Turns(d) = Len(d.params) + 1
        /\ n = Len(d.params) => Peek = ")"
        /\ n < Len(d.params) => pos = Starts(d)[n + 1]
    BY <1>1, ParamsFacts
  <2> QED BY <1>1, <2>1
<1>3. ~result /\ ~array /\ result \in BOOLEAN
  BY <1>1 DEF ParseInv, Position
<1>4. Turn(d, result, n) = n + 1 /\ n + 1 \in 1..Turns(d)
  BY <1>2, <1>3 DEF Turn
<1>5. Starts(d)[n + 1] \in Nat /\ Written(d, n + 1).dimensions \in Nat
  BY <1>2, <1>4, TurnFacts
<1>7. BeforeBase(d, n + 1, pos, array)
  <2> HIDE DEF d, n
  <2> QED BY <1>2, <1>3, <1>5 DEF BeforeBase
<1>8. Position(d, "type", pos, result, array, n)
  BY <1>2, <1>4, <1>7 DEF Position
<1> QED BY <1>1, <1>8 DEF ParseInv

LEMMA SkipClosingKeeps == ParseInv /\ SkipClosing => ParseInv'
<1> SUFFICES ASSUME ParseInv, SkipClosing PROVE ParseInv'
  OBVIOUS
<1> DEFINE d == descriptor
           n == Len(params)
<1>1. /\ UNCHANGED <<descriptor, text, array, params>>
      /\ at' = "type" /\ at = "params" /\ Peek = ")"
      /\ pos' = pos + 1 /\ result' = TRUE
  BY DEF SkipClosing
<1>2. /\ d \in Descriptors /\ n \in Nat /\ n = Len(d.params)
      /\ pos = Starts(d)[Turns(d)] - 1 /\ Turns(d) \in 1..Turns(d)
  BY <1>1, ParamsFacts
<1>3. Turn(d, TRUE, n) = Turns(d)
  BY DEF Turn
<1>4. Starts(d)[Turns(d)] \in Nat /\ Written(d, Turns(d)).dimensions \in Nat
  BY <1>2, TurnFacts
<1>5. ~array
  BY <1>1 DEF ParseInv, Position
<1>7. BeforeBase(d, Turns(d), pos', array)
  <2>1. pos' = Starts(d)[Turns(d)]
    BY <1>1, <1>2, <1>4
  <2> HIDE DEF d
  <2> QED BY <1>4, <1>5, <2>1 DEF BeforeBase
<1>8. Position(d, "type", pos', TRUE, array, n)
  BY <1>2, <1>3, <1>7 DEF Position
<1> QED BY <1>1, <1>2, <1>8 DEF ParseInv

LEMMA ReadLetterKeeps == ParseInv /\ ReadLetter => ParseInv'
<1> SUFFICES ASSUME ParseInv, ReadLetter PROVE ParseInv'
  OBVIOUS
<1> DEFINE d == descriptor
           i == Turn(d, result, Len(params))
           t == Written(d, i)
           s == Starts(d)[i]
<1>1. /\ at = "type" /\ Peek \in {"Z", "I", "J", "F", "D", "V"}
      /\ pos' = pos + 1 /\ Read(TypeOfLetter[Peek])
      /\ UNCHANGED <<descriptor, text, result>>
  BY DEF ReadLetter, TypeOfLetter
<1>2. d \in Descriptors /\ i \in 1..Turns(d)
  BY <1>1, CurrentFacts
<1>3. /\ pos \in Nat /\ t.dimensions \in Nat /\ t.base \in Bases /\ s \in Nat
      /\ pos \in s..(s + t.dimensions)
      /\ pos < s + t.dimensions => Peek = "["
      /\ pos = s + t.dimensions =>
            Peek = t.base[1] /\ (array <=> t.dimensions > 0)
  BY <1>1, PeekFacts DEF BeforeBase
<1> HIDE DEF i, t, s, d
<1>4. pos = s + t.dimensions /\ Peek = t.base[1]
      /\ (array <=> t.dimensions > 0)
  BY <1>1, <1>3
<1>5. t.base = <<Peek>> /\ Len(t.base) = 1
  BY <1>1, <1>3, <1>4, BaseFacts DEF Letters
<1>6. ~Refused(t)
  BY <1>1, <1>4, <1>5 DEF Refused
<1>7. /\ (IF array THEN "object" ELSE TypeOfLetter[Peek]) = Meaning(t)
      /\ Meaning(t) \in CompilerType
  BY <1>1, <1>4 DEF Meaning, TypeOfLetter, CompilerType
<1>8. pos' = Behind(d, i)
  BY <1>1, <1>3, <1>4, <1>5 DEF Behind, s, t
<1> QED BY <1>1, <1>6, <1>7, <1>8, ReadKeeps DEF i, t, d

LEMMA ReadArrayKeeps == ParseInv /\ ReadArray => ParseInv'
<1> SUFFICES ASSUME ParseInv, ReadArray PROVE ParseInv'
  OBVIOUS
<1> DEFINE d == descriptor
           n == Len(params)
           i == Turn(d, result, n)
           t == Written(d, i)
           s == Starts(d)[i]
<1>1. /\ at = "type" /\ Peek = "[" /\ pos' = pos + 1 /\ array' = TRUE
      /\ UNCHANGED <<descriptor, text, at, result, params>>
  BY DEF ReadArray
<1>2. /\ pos \in Nat /\ t.dimensions \in Nat /\ t.base \in Bases /\ s \in Nat
      /\ pos \in s..(s + t.dimensions)
      /\ pos = s + t.dimensions => Peek = t.base[1]
  BY <1>1, PeekFacts DEF BeforeBase
<1>3. ~result => n < Len(d.params)
  BY <1>1 DEF ParseInv, Position
<1> HIDE DEF i, t, s
<1>4. pos # s + t.dimensions
  BY <1>1, <1>2, BaseFacts DEF Letters
<1>5. pos' \in s..(s + t.dimensions) /\ pos' > s
  BY <1>1, <1>2, <1>4
<1>6. BeforeBase(d, i, pos', TRUE)
  BY <1>5 DEF BeforeBase, s, t
<1>7. Position(d, "type", pos', result, TRUE, n)
  BY <1>3, <1>6 DEF Position, i
<1> QED BY <1>1, <1>7 DEF ParseInv

LEMMA ReadClassKeeps == ParseInv /\ ReadClass => ParseInv'
<1> SUFFICES ASSUME ParseInv, ReadClass PROVE ParseInv'
  OBVIOUS
<1> DEFINE d == descriptor
           n == Len(params)
           i == Turn(d, result, n)
           t == Written(d, i)
           s == Starts(d)[i]
<1>1. /\ at = "type" /\ Peek = "L" /\ pos' = pos + 1 /\ at' = "class"
      /\ UNCHANGED <<descriptor, text, array, result, params>>
  BY DEF ReadClass
<1>2. /\ pos \in Nat /\ t.dimensions \in Nat /\ t.base \in Bases /\ s \in Nat
      /\ pos \in s..(s + t.dimensions)
      /\ pos < s + t.dimensions => Peek = "["
      /\ pos = s + t.dimensions =>
            Peek = t.base[1] /\ (array <=> t.dimensions > 0)
  BY <1>1, PeekFacts DEF BeforeBase
<1>3. ~result => n < Len(d.params)
  BY <1>1 DEF ParseInv, Position
<1> HIDE DEF i, t, s
<1>4. pos = s + t.dimensions /\ t.base[1] = "L"
      /\ (array <=> t.dimensions > 0)
  BY <1>1, <1>2
<1>5. Len(t.base) \in Nat /\ Len(t.base) > 1
  BY <1>2, <1>4, BaseFacts
<1>6. Behind(d, i) = s + t.dimensions + Len(t.base)
  BY DEF Behind, s, t
<1>7. pos' \in (s + t.dimensions + 1)..(Behind(d, i) - 1)
  <2>1. pos' = pos + 1 /\ pos \in Nat /\ s + t.dimensions = pos
    BY <1>1, <1>2, <1>4
  <2>2. Behind(d, i) = pos + Len(t.base)
    BY <1>6, <2>1
  <2> HIDE DEF s, t
  <2> QED BY <1>5, <2>1, <2>2
<1>8. InName(d, i, pos', array)
  BY <1>4, <1>7 DEF InName, s, t
<1>9. Position(d, "class", pos', result, array, n)
  BY <1>3, <1>8 DEF Position, i
<1> QED BY <1>1, <1>9 DEF ParseInv

LEMMA RefuseKeeps == ParseInv /\ Refuse => ParseInv'
<1> SUFFICES ASSUME ParseInv, Refuse PROVE ParseInv'
  OBVIOUS
<1> DEFINE d == descriptor
           n == Len(params)
           i == Turn(d, result, n)
           t == Written(d, i)
           s == Starts(d)[i]
<1>1. /\ at = "type" /\ at' = "threw"
      /\ Peek \notin {"Z", "I", "J", "F", "D", "V", "[", "L"}
      /\ UNCHANGED <<descriptor, text, array, result, params>>
  BY DEF Refuse, TypeOfLetter
<1>2. /\ pos \in Nat /\ t.dimensions \in Nat /\ t.base \in Bases /\ s \in Nat
      /\ pos \in s..(s + t.dimensions)
      /\ pos < s + t.dimensions => Peek = "["
      /\ pos = s + t.dimensions => Peek = t.base[1]
  BY <1>1, PeekFacts DEF BeforeBase
<1>3. ~result => n < Len(d.params)
  BY <1>1 DEF ParseInv, Position
<1> HIDE DEF i, t, s
<1>4. t.base[1] \notin {"Z", "I", "J", "F", "D", "V", "[", "L"}
  BY <1>1, <1>2
<1>5. t.base[1] \in {"B", "C", "S"} /\ t.base = <<t.base[1]>>
  BY <1>2, <1>4, BaseFacts DEF Letters
<1>6. Refused(t)
  BY <1>5 DEF Refused
<1>7. Position(d, "threw", pos', result, array, n)
  BY <1>3, <1>6 DEF Position, i, t
<1> QED BY <1>1, <1>7 DEF ParseInv

\* The character that the parser looks at in the name of a class.
LEMMA NameAtFacts ==
    ASSUME ParseInv, at = "class",
           NEW d, d = descriptor,
           NEW i, i = Turn(d, result, Len(params)),
           NEW t, t = Written(d, i)
    PROVE  /\ pos \in Nat /\ Behind(d, i) \in Nat
           /\ Starts(d)[i] \in Nat /\ t.dimensions \in Nat
           /\ t.base \in Bases /\ t.base[1] = "L"
           /\ array <=> t.dimensions > 0
           /\ pos \in (Starts(d)[i] + t.dimensions + 1)..(Behind(d, i) - 1)
           /\ Peek = Semicolon <=> pos = Behind(d, i) - 1
<1>1. d \in Descriptors /\ i \in 1..Turns(d) /\ text = SpellDescriptor(d)
  BY CurrentFacts DEF ParseInv
<1>2. InName(d, i, pos, array)
  BY DEF ParseInv, Position
<1> DEFINE s == Starts(d)[i]
           k == pos - s - t.dimensions + 1
<1>3. /\ t.dimensions \in Nat /\ t.base \in Bases /\ s \in Nat \ {0}
      /\ Len(t.base) \in Nat \ {0}
  BY <1>1, TurnFacts
<1>4. ASSUME NEW j \in 1..Len(t.base)
      PROVE  text[s + t.dimensions + j - 1] = t.base[j]
  BY <1>1, TurnFacts
<1>5. /\ t.base[1] = "L" /\ (array <=> t.dimensions > 0)
      /\ pos \in (s + t.dimensions + 1)..(Behind(d, i) - 1)
  BY <1>2 DEF InName
<1>6. Behind(d, i) = s + t.dimensions + Len(t.base)
  BY DEF Behind
<1> HIDE DEF s
<1>7. Behind(d, i) \in Nat /\ pos \in Nat
  BY <1>3, <1>5, <1>6
<1>8. /\ k \in 2..Len(t.base) /\ s + t.dimensions + k - 1 = pos
      /\ (k = Len(t.base) <=> pos = Behind(d, i) - 1)
  <2>1. ASSUME NEW m, m = t.dimensions, NEW b, b = Len(t.base),
               NEW z, z = Behind(d, i)
        PROVE  /\ k \in 2..b /\ s + m + k - 1 = pos
               /\ (k = b <=> pos = z - 1)
    <3>1. /\ m \in Nat /\ b \in Nat \ {0} /\ s \in Nat /\ pos \in Nat
          /\ z = s + m + b /\ pos >= s + m + 1 /\ pos <= z - 1
          /\ k = pos - s - m + 1
      BY <1>3, <1>5, <1>6, <1>7, <2>1
    <3> HIDE DEF k
    <3> QED BY <3>1
  <2> HIDE DEF k
  <2> QED BY <2>1
<1> HIDE DEF k
<1>9. Peek = t.base[k]
  BY <1>3, <1>4, <1>8 DEF Peek
<1>10. /\ t.base[Len(t.base)] = Semicolon
       /\ \A j \in 2..(Len(t.base) - 1) : t.base[j] # Semicolon
  BY <1>3, <1>5, BaseFacts
<1>11. k # Len(t.base) => k \in 2..(Len(t.base) - 1)
  BY <1>3, <1>8
<1> QED BY <1>3, <1>5, <1>7, <1>8, <1>9, <1>10, <1>11 DEF s

LEMMA SkipClassCharacterKeeps == ParseInv /\ SkipClassCharacter => ParseInv'
<1> SUFFICES ASSUME ParseInv, SkipClassCharacter PROVE ParseInv'
  OBVIOUS
<1> DEFINE d == descriptor
           n == Len(params)
           i == Turn(d, result, n)
           t == Written(d, i)
           s == Starts(d)[i]
<1>1. /\ at = "class" /\ Peek # Semicolon /\ pos' = pos + 1
      /\ UNCHANGED <<descriptor, text, at, array, result, params>>
  BY DEF SkipClassCharacter
<1>2. /\ pos \in Nat /\ Behind(d, i) \in Nat /\ s \in Nat
      /\ t.dimensions \in Nat /\ t.base[1] = "L"
      /\ array <=> t.dimensions > 0
      /\ pos \in (s + t.dimensions + 1)..(Behind(d, i) - 1)
      /\ pos # Behind(d, i) - 1
  BY <1>1, NameAtFacts
<1>3. ~result => n < Len(d.params)
  BY <1>1 DEF ParseInv, Position
<1> HIDE DEF i, t, s
<1>4. pos' \in (s + t.dimensions + 1)..(Behind(d, i) - 1)
  BY <1>1, <1>2
<1>5. InName(d, i, pos', array)
  BY <1>2, <1>4 DEF InName, s, t
<1>6. Position(d, "class", pos', result, array, n)
  BY <1>3, <1>5 DEF Position, i
<1> QED BY <1>1, <1>6 DEF ParseInv

LEMMA EndClassKeeps == ParseInv /\ EndClass => ParseInv'
<1> SUFFICES ASSUME ParseInv, EndClass PROVE ParseInv'
  OBVIOUS
<1> DEFINE d == descriptor
           i == Turn(d, result, Len(params))
           t == Written(d, i)
<1>1. /\ at = "class" /\ Peek = Semicolon /\ pos' = pos + 1 /\ Read("object")
      /\ UNCHANGED <<descriptor, text, result>>
  BY DEF EndClass
<1>2. /\ pos \in Nat /\ Behind(d, i) \in Nat /\ t.base \in Bases
      /\ t.base[1] = "L" /\ pos = Behind(d, i) - 1
  BY <1>1, NameAtFacts
<1> HIDE DEF i, t, d
<1>3. ~Refused(t)
  BY <1>2 DEF Refused
<1>4. "object" = Meaning(t) /\ Meaning(t) \in CompilerType
  BY <1>2 DEF Meaning, CompilerType
<1>5. pos' = Behind(d, i)
  BY <1>1, <1>2
<1> QED BY <1>1, <1>3, <1>4, <1>5, ReadKeeps DEF i, t, d

LEMMA ParseInvStep == ParseInv /\ [ParseNext]_parseVars => ParseInv'
<1> SUFFICES ASSUME ParseInv, [ParseNext]_parseVars PROVE ParseInv'
  OBVIOUS
<1>1. CASE UNCHANGED parseVars
  BY <1>1 DEF parseVars, ParseInv, Called
<1> QED BY <1>1, SkipOpeningKeeps, NextParamKeeps, SkipClosingKeeps,
           ReadLetterKeeps, ReadArrayKeeps, ReadClassKeeps, RefuseKeeps,
           SkipClassCharacterKeeps, EndClassKeeps DEF ParseNext, Parse

\* descriptor.cc: a descriptor is parsed into the types that were written, to
\* its end, or is refused for a byte, a char or a short, however many types it
\* has, of whatever classes and dimensions.
THEOREM DescriptorsParsed == ParseSpec => []ParsedAsWritten
<1>1. ParseInv => ParsedAsWritten
  <2> SUFFICES ASSUME ParseInv, Ended PROVE ParsedAsWritten
    BY DEF ParsedAsWritten
  <2> DEFINE d == descriptor
             n == Len(params)
             written == {d.result} \cup {d.params[i] : i \in DOMAIN d.params}
  <2>1. /\ d \in Descriptors /\ d.params \in Seq(FieldType)
        /\ Len(d.params) \in Nat /\ DOMAIN d.params = 1..Len(d.params)
    BY WrittenFacts DEF ParseInv
  <2>2. ReadRight(d, params) /\ Position(d, at, pos, result, array, n)
        /\ (result => n = Len(d.params)) /\ result \in BOOLEAN
        /\ text = SpellDescriptor(d)
    BY DEF ParseInv
  <2>3. CASE at = "threw"
    <3> DEFINE t == Written(d, Turn(d, result, n))
    <3>1. Refused(t)
      BY <2>2, <2>3 DEF Position
    <3>2. t \in written
      BY <2>1, <2>3, CurrentFacts
    <3>3. \E u \in written : u.base \in {<<"B">>, <<"C">>, <<"S">>}
      BY <3>1, <3>2 DEF Refused
    <3> QED BY <2>3, <3>3 DEF ParsedAsWritten
  <2>4. CASE at = "done"
    <3>1. /\ n = Len(d.params) /\ ~Refused(d.result)
          /\ pos = Len(text) + 1
          /\ returned = Meaning(d.result) /\ called = Called(params)
      BY <2>2, <2>4 DEF Position, ParseInv
    <3>2. \A i \in 1..n : ~Refused(d.params[i])
                          /\ params[i] = Meaning(d.params[i])
      BY <2>2 DEF ReadRight
    <3>3. ~\E u \in written : u.base \in {<<"B">>, <<"C">>, <<"S">>}
      BY <2>1, <3>1, <3>2 DEF Refused
    <3>4. params = [i \in DOMAIN d.params |-> Meaning(d.params[i])]
      <4>1. params \in Seq(CompilerType)
        BY <2>2 DEF ReadRight
      <4> QED BY <2>1, <3>1, <3>2, <4>1
    <3> QED BY <2>4, <3>1, <3>3, <3>4 DEF ParsedAsWritten, Called
  <2> QED BY <2>3, <2>4 DEF Ended
<1> QED BY <1>1, ParseInvInit, ParseInvStep, PTL DEF ParseSpec

-----------------------------------------------------------------------------
(* Symbols: what an escaped name is made of                                *)

\* What is in an identifier, and what is escaped: the mangler adds slashes.
IdentifierChar == Alphanumeric \cup {"_"}
Escaped == NameChar \cup {"/"}
HexCode == [1..4 -> HexDigit]

\* The cases of Escape do not overlap.
LEMMA NotIdentifiers ==
    \A c \in {"/", ";", "["} : ~IsValidCIdentifier(c)
BY Zenon DEF IsValidCIdentifier, Alphanumeric, Digits

\* The forms of an escaped character.
LEMMA EscapeForms ==
    ASSUME NEW c \in Escaped
    PROVE  \/ IsValidCIdentifier(c) /\ Escape(c) = <<c>>
           \/ Escape(c) = <<"_">>
           \/ Escape(c) = <<"_", "2">>
           \/ Escape(c) = <<"_", "3">>
           \/ \E h \in HexCode : Escape(c) = <<"_", "0">> \o h
<1>1. CASE IsValidCIdentifier(c)
  <2>1. c # "/" /\ c # ";" /\ c # "["
    BY <1>1, NotIdentifiers, Zenon
  <2>2. Escape(c) = <<c>>
    BY <1>1, <2>1, Zenon DEF Escape
  <2> QED BY <1>1, <2>2, Zenon
<1>2. CASE c = "/" /\ ~IsValidCIdentifier(c)
  BY <1>2, Zenon DEF Escape
<1>3. CASE c = ";" /\ ~IsValidCIdentifier(c)
  BY <1>3, Zenon DEF Escape
<1>4. CASE c = "[" /\ ~IsValidCIdentifier(c)
  BY <1>4, Zenon DEF Escape
<1>5. CASE c # "/" /\ c # ";" /\ c # "[" /\ ~IsValidCIdentifier(c)
  <2>1. c \in NameChar
    BY <1>5, Zenon DEF Escaped
  <2>2. Hex[c] \in HexCode
    BY <1>5, <2>1, HexAssumption, Zenon DEF HexCode
  <2>3. Escape(c) = <<"_", "0">> \o Hex[c]
    BY <1>5, Zenon DEF Escape
  <2> QED BY <2>2, <2>3, Zenon
<1> QED BY <1>1, <1>2, <1>3, <1>4, <1>5, Zenon

LEMMA IdentifierFacts ==
    /\ "_" \in IdentifierChar /\ "0" \in IdentifierChar
    /\ "2" \in IdentifierChar /\ "3" \in IdentifierChar
    /\ HexDigit \subseteq IdentifierChar
    /\ \A c : IsValidCIdentifier(c) <=> c \in IdentifierChar
<1>1. HexDigit \subseteq Alphanumeric /\ Digits \subseteq Alphanumeric
  BY Zenon DEF HexDigit, Alphanumeric
<1>2. "0" \in Digits /\ "2" \in Digits /\ "3" \in Digits
  BY Zenon DEF Digits
<1> QED BY <1>1, <1>2, Zenon DEF IdentifierChar, IsValidCIdentifier

LEMMA EscapeValid ==
    ASSUME NEW c \in Escaped
    PROVE  Escape(c) \in Seq(IdentifierChar)
<1>1. PICK u : u = "_"
  BY Zenon
<1> DEFINE V == IdentifierChar
<1>2. /\ u \in V /\ "0" \in V /\ "2" \in V /\ "3" \in V
      /\ HexDigit \subseteq V
      /\ IsValidCIdentifier(c) => c \in V
  BY <1>1, IdentifierFacts, Zenon
<1>3. \/ IsValidCIdentifier(c) /\ Escape(c) = <<c>>
      \/ Escape(c) = <<u>>
      \/ Escape(c) = <<u, "2">>
      \/ Escape(c) = <<u, "3">>
      \/ \E h \in HexCode : Escape(c) = <<u, "0">> \o h
  BY <1>1, EscapeForms, Zenon
<1> HIDE DEF V
<1>4. \A a, b \in Seq(V) : a \o b \in Seq(V)
  OBVIOUS
<1>5. /\ <<u>> \in Seq(V) /\ <<u, "0">> \in Seq(V)
      /\ <<u, "2">> \in Seq(V) /\ <<u, "3">> \in Seq(V)
      /\ c \in V => <<c>> \in Seq(V)
  BY <1>2
<1>6. \A h \in HexCode : h \in Seq(V)
  <2>1. ASSUME NEW B, NEW k \in Nat, NEW g \in [1..k -> B], B \subseteq V
        PROVE  g \in Seq(V)
    BY <2>1
  <2> QED BY <1>2, <2>1 DEF HexCode
<1>7. Escape(c) \in Seq(V)
  BY <1>2, <1>3, <1>4, <1>5, <1>6
<1> QED BY <1>7 DEF V

LEMMA MangledValid ==
    ASSUME NEW s \in Seq(Escaped)
    PROVE  MangleUnicodeCharacters(s) \in Seq(IdentifierChar)
<1> DEFINE ss == [i \in DOMAIN s |-> Escape(s[i])]
<1>1. ss \in Seq(Seq(IdentifierChar))
  <2>1. \A i \in 1..Len(s) : Escape(s[i]) \in Seq(IdentifierChar)
    BY EscapeValid
  <2>2. DOMAIN s = 1..Len(s) /\ Len(s) \in Nat
    OBVIOUS
  <2>3. ss \in [1..Len(s) -> Seq(IdentifierChar)]
    BY <2>1, <2>2
  <2> HIDE DEF ss
  <2> QED BY <2>2, <2>3
<1>2. MangleUnicodeCharacters(s) = FlattenSeq(ss)
  BY DEF MangleUnicodeCharacters
<1> HIDE DEF ss
<1> QED BY <1>1, <1>2, FlattenPlaces

\* What stands between the parentheses is part of the descriptor.
LEMMA SignatureFacts ==
    ASSUME NEW A, NEW d \in Seq(A)
    PROVE  Params(d) \in Seq(A)
<1> DEFINE I == {i \in 1..Len(d) : d[i] = ")"}
           m == IF I # {} THEN Max(I) ELSE 0
<1>1. Params(d) = SubSeq(d, 2, m - 1)
  BY DEF Params, SelectLastInSeq
<1>2. m \in 0..Len(d)
  <2>1. CASE I = {}
    BY <2>1
  <2>2. CASE I # {}
    <3> DEFINE J == {Len(d) - i : i \in I}
    <3>1. J \subseteq Nat /\ J # {}
      BY <2>2
    <3>2. PICK j \in J : \A k \in J : j <= k
      BY <3>1, LeastOf
    <3>3. PICK x \in I : j = Len(d) - x
      BY <3>2
    <3>4. ASSUME NEW y \in I PROVE x >= y
      <4>1. Len(d) - y \in J
        OBVIOUS
      <4>2. j <= Len(d) - y
        BY <3>2, <4>1
      <4>3. x \in Nat /\ y \in Nat /\ Len(d) \in Nat
        OBVIOUS
      <4> QED BY <3>3, <4>2, <4>3
    <3>5. Max(I) \in I
      BY <3>4 DEF Max
    <3> QED BY <2>2, <3>5
  <2> QED BY <2>1, <2>2
<1> HIDE DEF m
<1> QED BY <1>1, <1>2

\* The strings of a member, and what is made of them before they are escaped.
LEMMA MemberFacts ==
    ASSUME NEW x, IsMember(x)
    PROVE  /\ x.kind \in Kinds
           /\ x.class \in Seq(NameChar) /\ x.name \in Seq(NameChar)
           /\ x.descriptor \in Seq(NameChar)
           /\ Slashes(x.class) \in Seq(Escaped) /\ x.name \in Seq(Escaped)
           /\ Signature(x) \in Seq(Escaped)
<1>1. /\ x.class \in Seq(NameChar) /\ x.name \in Seq(NameChar)
      /\ x.descriptor \in Seq(NameChar) /\ x.kind \in Kinds
  BY DEF IsMember
<1>2. Slashes(x.class) \in Seq(Escaped)
  <2>1. Slashes(x.class) \in [1..Len(x.class) -> Escaped]
    BY <1>1 DEF Slashes, Escaped
  <2>2. ASSUME NEW B, NEW k \in Nat, NEW g \in [1..k -> B]
        PROVE  g \in Seq(B)
    OBVIOUS
  <2>3. Len(x.class) \in Nat
    BY <1>1
  <2> QED BY <2>1, <2>2, <2>3
<1>3. Signature(x) \in Seq(NameChar)
  BY <1>1, SignatureFacts DEF Signature
<1>4. \A s \in Seq(NameChar) : s \in Seq(Escaped)
  BY DEF Escaped
<1> QED BY <1>1, <1>2, <1>3, <1>4

\* A name is the prefix of its kind and the rest.
JniTail(x) ==
    MangleUnicodeCharacters(Slashes(x.class)) \o
       (IF x.kind = "instantiator" THEN <<>>
        ELSE <<"_">> \o MangleUnicodeCharacters(x.name) \o <<"_", "_">>
             \o MangleUnicodeCharacters(Signature(x)))

LEMMA JniNameParts ==
    ASSUME NEW x, IsMember(x)
    PROVE  /\ JniTail(x) \in Seq(IdentifierChar)
           /\ JniName(x) = <<Prefix[x.kind]>> \o JniTail(x)
<1>1. PICK u : u = "_"
  BY Zenon
<1> DEFINE V == IdentifierChar
           c == Prefix[x.kind]
           head == MangleUnicodeCharacters(Slashes(x.class))
           tail == IF x.kind = "instantiator" THEN <<>>
                   ELSE <<u>> \o MangleUnicodeCharacters(x.name) \o <<u, u>>
                        \o MangleUnicodeCharacters(Signature(x))
<1>2. JniName(x) = <<c>> \o head \o tail /\ JniTail(x) = head \o tail
  BY <1>1, Zenon DEF JniName, MangleClass, JniTail
<1>3. /\ head \in Seq(V)
      /\ MangleUnicodeCharacters(x.name) \in Seq(V)
      /\ MangleUnicodeCharacters(Signature(x)) \in Seq(V)
  BY MemberFacts, MangledValid
<1>4. u \in V
  BY <1>1, IdentifierFacts, Zenon
<1> HIDE DEF V, c
<1>5. \A a, b \in Seq(V) : a \o b \in Seq(V)
  OBVIOUS
<1>6. <<>> \in Seq(V) /\ <<u>> \in Seq(V) /\ <<u, u>> \in Seq(V)
  BY <1>4
<1>7. tail \in Seq(V) /\ head \in Seq(V)
  BY <1>3, <1>5, <1>6
<1> HIDE DEF tail, head
<1> DEFINE W == V \cup {c}
<1>8. /\ \A a \in Seq(V) : a \in Seq(W)
      /\ c \in W /\ <<c>> \in Seq(W)
  OBVIOUS
<1> HIDE DEF W
<1>9. (<<c>> \o head) \o tail = <<c>> \o (head \o tail)
  BY <1>7, <1>8, ConcatAssociative
<1> QED BY <1>2, <1>5, <1>7, <1>9 DEF V, c

\* Behind its prefix, a name of JNI has only characters of identifiers.
LEMMA JniValid ==
    ASSUME NEW x, IsMember(x)
    PROVE  \A i \in 2..Len(JniName(x)) : IsValidCIdentifier(JniName(x)[i])
<1> DEFINE c == Prefix[x.kind]
           s == JniTail(x)
           W == IdentifierChar \cup {c}
<1>1. s \in Seq(IdentifierChar) /\ JniName(x) = <<c>> \o s
  BY JniNameParts
<1>2. \A d \in IdentifierChar : IsValidCIdentifier(d)
  BY IdentifierFacts
<1>3. s \in Seq(W) /\ c \in W
  BY <1>1
<1> HIDE DEF c, s, W
<1>4. /\ Len(s) \in Nat /\ Len(<<c>> \o s) = Len(s) + 1
      /\ \A k \in 1..Len(s) : (<<c>> \o s)[1 + k] = s[k]
  BY <1>3, Prepending
<1>5. ASSUME NEW i \in 2..Len(JniName(x)) PROVE JniName(x)[i] \in IdentifierChar
  <2>1. i - 1 \in 1..Len(s) /\ 1 + (i - 1) = i
    BY <1>1, <1>4
  <2>2. s[i - 1] \in IdentifierChar
    BY <1>1, <2>1
  <2> QED BY <1>1, <1>4, <2>1, <2>2
<1> QED BY <1>2, <1>5

-----------------------------------------------------------------------------
(* Symbols: what the units make of the names                               *)

\* The mangler tells the members of the program apart.
NamesApart == \A x, y \in members : Mangled(x) = Mangled(y) => x = y

\* A symbol is the name of its member, and where names differ nothing was
\* renamed.
SymbolsInv ==
    /\ \A u \in Unit : \A x \in DOMAIN table[u] :
          table[u][x].name = Mangled(x)
    /\ NamesApart => \A u \in Unit : \A x \in DOMAIN table[u] :
                        table[u][x] = [name |-> Mangled(x), copy |-> 0]

TableInv ==
    /\ mangler \in DOMAIN Programs /\ members \in Programs[mangler]
    /\ table = [u \in Unit |-> table[u]]
    /\ \A u \in Unit : DOMAIN table[u] \subseteq members
    /\ SymbolsInv

LEMMA TableInvInit == Init => TableInv
<1> SUFFICES ASSUME Init PROVE TableInv
  OBVIOUS
<1>1. \A u \in Unit : DOMAIN table[u] = {}
  BY DEF Init
<1> QED BY <1>1 DEF Init, TableInv, SymbolsInv

LEMMA ReferKeeps ==
    ASSUME TableInv, NEW u \in Unit, NEW x \in members, Refer(u, x)
    PROVE  TableInv'
<1> DEFINE symbol == NewSymbol(u, Mangled(x))
<1>1. /\ x \notin DOMAIN table[u]
      /\ table' = [table EXCEPT ![u] = Put(table[u], x, symbol)]
      /\ mangler' = mangler /\ members' = members
  BY DEF Refer
<1>2. /\ table' = [v \in Unit |-> table'[v]]
      /\ table'[u] = Put(table[u], x, symbol)
      /\ \A v \in Unit : v # u => table'[v] = table[v]
  BY <1>1 DEF TableInv
<1>3. /\ DOMAIN table'[u] = DOMAIN table[u] \cup {x}
      /\ table'[u][x] = symbol
      /\ \A y \in DOMAIN table[u] : table'[u][y] = table[u][y]
  BY <1>1, <1>2 DEF Put
<1>4. \A v \in Unit : DOMAIN table'[v] \subseteq members
  BY <1>2, <1>3 DEF TableInv
<1>5. \A y : Mangled(y)' = Mangled(y)
  BY <1>1 DEF Mangled
<1>6. ASSUME NamesApart
      PROVE  symbol = [name |-> Mangled(x), copy |-> 0]
  <2>1. \A y \in DOMAIN table[u] :
           y \in members /\ table[u][y] = [name |-> Mangled(y), copy |-> 0]
    BY <1>6 DEF TableInv, SymbolsInv
  <2>2. {y \in DOMAIN table[u] : table[u][y].name = Mangled(x)} = {}
    <3> SUFFICES ASSUME NEW y \in DOMAIN table[u], table[u][y].name = Mangled(x)
                 PROVE  FALSE
      OBVIOUS
    <3>1. y \in members /\ Mangled(y) = Mangled(x)
      <4>1. \A n : [name |-> n, copy |-> 0].name = n
        OBVIOUS
      <4>2. y \in members /\ table[u][y] = [name |-> Mangled(y), copy |-> 0]
        BY <2>1
      <4>3. table[u][y].name = Mangled(y)
        BY <4>1, <4>2, Zenon
      <4> QED BY <4>2, <4>3, Zenon
    <3>2. y = x
      BY <1>6, <3>1 DEF NamesApart
    <3> QED BY <1>1, <3>2
  <2> QED BY <2>2, FS_EmptySet DEF NewSymbol
<1> HIDE DEF symbol
<1>7. ASSUME NamesApart', NEW v \in Unit, NEW y \in DOMAIN table'[v]
      PROVE  table'[v][y] = [name |-> Mangled(y)', copy |-> 0]
  <2>1. NamesApart
    BY <1>1, <1>5, <1>7 DEF NamesApart
  <2>2. \A w \in Unit : \A z \in DOMAIN table[w] :
           table[w][z] = [name |-> Mangled(z), copy |-> 0]
    BY <2>1 DEF TableInv, SymbolsInv
  <2>3. Mangled(y)' = Mangled(y)
    BY <1>1, <1>5
  <2>4. CASE v # u
    <3>1. table'[v] = table[v] /\ y \in DOMAIN table[v]
      BY <1>2, <1>7, <2>4
    <3> QED BY <2>2, <2>3, <3>1
  <2>5. CASE v = u /\ y = x
    BY <1>3, <1>6, <2>1, <2>3, <2>5
  <2>6. CASE v = u /\ y # x
    <3>1. y \in DOMAIN table[u] /\ table'[u][y] = table[u][y]
      BY <1>3, <1>7, <2>6
    <3> QED BY <2>2, <2>3, <2>6, <3>1
  <2> QED BY <2>4, <2>5, <2>6
<1>8. ASSUME NEW v \in Unit, NEW y \in DOMAIN table'[v]
      PROVE  table'[v][y].name = Mangled(y)'
  <2>1. \A w \in Unit : \A z \in DOMAIN table[w] :
           table[w][z].name = Mangled(z)
    BY DEF TableInv, SymbolsInv
  <2>2. symbol.name = Mangled(x)
    BY DEF symbol, NewSymbol
  <2>3. CASE v # u
    <3>1. table'[v] = table[v] /\ y \in DOMAIN table[v]
      BY <1>2, <1>8, <2>3
    <3> QED BY <1>5, <2>1, <3>1
  <2>4. CASE v = u /\ y = x
    BY <1>3, <1>5, <2>2, <2>4
  <2>5. CASE v = u /\ y # x
    <3>1. y \in DOMAIN table[u] /\ table'[u][y] = table[u][y]
      BY <1>3, <1>8, <2>5
    <3> QED BY <1>5, <2>1, <2>5, <3>1
  <2> QED BY <2>3, <2>4, <2>5
<1>9. SymbolsInv'
  BY <1>7, <1>8 DEF SymbolsInv
<1> QED BY <1>1, <1>2, <1>4, <1>9 DEF TableInv

LEMMA TableInvStep == TableInv /\ [Next]_vars => TableInv'
<1> SUFFICES ASSUME TableInv, [Next]_vars PROVE TableInv'
  OBVIOUS
<1>1. CASE UNCHANGED vars
  BY <1>1 DEF vars, TableInv, SymbolsInv, NamesApart, Mangled
<1> QED BY <1>1, ReferKeeps DEF Next, Done

LEMMA TableAlways == Spec => []TableInv
BY TableInvInit, TableInvStep, PTL DEF Spec

\* Whatever a unit names first, every unit gives a member one symbol, and no two
\* members share one, as long as their names differ.
LEMMA ApartAgree == Spec => [](NamesApart => UnitsAgree)
<1>1. TableInv => (NamesApart => UnitsAgree)
  <2> SUFFICES ASSUME TableInv, NamesApart,
                      NEW u \in Unit, NEW v \in Unit,
                      NEW x \in DOMAIN table[u], NEW y \in DOMAIN table[v]
               PROVE  x = y <=> table[u][x] = table[v][y]
    BY DEF UnitsAgree
  <2>1. /\ x \in members /\ y \in members
        /\ table[u][x] = [name |-> Mangled(x), copy |-> 0]
        /\ table[v][y] = [name |-> Mangled(y), copy |-> 0]
    BY DEF TableInv, SymbolsInv
  <2> QED BY <2>1 DEF NamesApart
<1> QED BY <1>1, TableAlways, PTL

\* mangle.cc: every name of JNI is a valid C identifier, whatever characters are
\* in the strings of the class files: slashes, parentheses and bytes that are
\* not ASCII never get through.
THEOREM NamesAlwaysIdentifiers == Spec => []NamesAreIdentifiers
<1>1. TableInv => NamesAreIdentifiers
  <2> SUFFICES ASSUME TableInv, mangler = "jni",
                      NEW u \in Unit, NEW x \in DOMAIN table[u],
                      NEW i \in 2..Len(table[u][x].name)
               PROVE  IsValidCIdentifier(table[u][x].name[i])
    BY DEF NamesAreIdentifiers
  <2>1. table[u][x].name = Mangled(x) /\ x \in members
    BY DEF TableInv, SymbolsInv
  <2>2. Mangled(x) = JniName(x)
    BY DEF Mangled
  <2>3. IsMember(x)
    BY <2>1, ManglerAssumption DEF TableInv
  <2> QED BY <2>1, <2>2, <2>3, JniValid
<1> QED BY <1>1, TableAlways, PTL

-----------------------------------------------------------------------------
(* Symbols: the simple mangler tells methods apart                         *)

\* A sequence ends where c is first.
LEMMA NotShorter ==
    ASSUME NEW S, NEW a \in Seq(S), NEW b \in Seq(S),
           NEW p \in Seq(S), NEW q \in Seq(S), NEW c,
           Len(p) > 0, p[1] = c, \A i \in 1..Len(b) : b[i] # c,
           a \o p = b \o q
    PROVE  Len(a) >= Len(b)
<1> SUFFICES ASSUME Len(a) < Len(b) PROVE FALSE
  BY Concatenation
<1>1. Len(a) \in Nat /\ Len(b) \in Nat /\ Len(a) + 1 \in 1..Len(b)
  OBVIOUS
<1>2. (a \o p)[Len(a) + 1] = p[1]
  OBVIOUS
<1>3. (b \o q)[Len(a) + 1] = b[Len(a) + 1]
  BY <1>1
<1> QED BY <1>1, <1>2, <1>3

LEMMA SameParts ==
    ASSUME NEW S, NEW a \in Seq(S), NEW b \in Seq(S),
           NEW p \in Seq(S), NEW q \in Seq(S),
           Len(a) = Len(b), a \o p = b \o q
    PROVE  a = b /\ p = q
<1>0. ASSUME NEW x \in Seq(S), NEW y \in Seq(S)
      PROVE  /\ \A i \in 1..Len(x) : (x \o y)[i] = x[i]
             /\ \A i \in 1..Len(y) : (x \o y)[Len(x) + i] = y[i]
             /\ Len(x \o y) = Len(x) + Len(y)
             /\ Len(x) \in Nat /\ Len(y) \in Nat
  BY Concatenation
<1> DEFINE m == a \o p
<1>1. /\ \A i \in 1..Len(a) : m[i] = a[i]
      /\ \A i \in 1..Len(p) : m[Len(a) + i] = p[i]
      /\ Len(m) = Len(a) + Len(p)
      /\ Len(a) \in Nat /\ Len(p) \in Nat
  BY <1>0
<1>2. /\ \A i \in 1..Len(b) : m[i] = b[i]
      /\ \A i \in 1..Len(q) : m[Len(b) + i] = q[i]
      /\ Len(m) = Len(b) + Len(q)
      /\ Len(b) \in Nat /\ Len(q) \in Nat
  <2>1. m = b \o q
    OBVIOUS
  <2> HIDE DEF m
  <2> QED BY <1>0, <2>1
<1> HIDE DEF m
<1>3. a = b
  BY <1>1, <1>2, SeqEqual
<1>4. Len(p) = Len(q)
  BY <1>1, <1>2
<1>5. p = q
  BY <1>1, <1>2, <1>4, SeqEqual
<1> QED BY <1>3, <1>5

\* The character c is not in a, and is the first of p.
Without(a, c) == \A i \in 1..Len(a) : a[i] # c
StartsWith(p, c) == Len(p) > 0 /\ p[1] = c

\* Two strings split at the same character have the same parts.
LEMMA SplitUnique ==
    ASSUME NEW S, NEW a \in Seq(S), NEW b \in Seq(S),
           NEW p \in Seq(S), NEW q \in Seq(S), NEW c,
           Without(a, c), StartsWith(p, c),
           Without(b, c), StartsWith(q, c), a \o p = b \o q
    PROVE  a = b /\ p = q
<1>1. Len(a) >= Len(b) /\ Len(b) >= Len(a)
  BY NotShorter DEF Without, StartsWith
<1>2. Len(a) \in Nat /\ Len(b) \in Nat
  OBVIOUS
<1>3. Len(a) = Len(b)
  BY <1>1, <1>2
<1> QED BY <1>3, SameParts

\* A method or an instantiator of Java: no name of a class is empty or has a
\* number sign or a prefix of the mangler, no name of a method has a parenthesis,
\* and a descriptor begins with one.
FromJava(x) ==
    /\ x.kind \in {"method", "thunk", "instantiator"}
    /\ x.class # <<>>
    /\ \A i \in DOMAIN x.class : x.class[i] \notin {"#", "virtual@@", "new@@"}
    /\ \A i \in DOMAIN x.name : x.name[i] # "("
    /\ IF x.kind = "instantiator" THEN x.name = <<>> /\ x.descriptor = <<>>
       ELSE x.descriptor # <<>> /\ x.descriptor[1] = "("

\* What is before the number sign, and the rest.
Before(x) == SimplePrefix[x.kind] \o x.class
After(x) == IF x.kind = "instantiator" THEN <<>>
            ELSE <<"#">> \o (x.name \o x.descriptor)

\* All strings of the member x, and what the mangler adds, are of S.
Over(S, x) == /\ x.class \in Seq(S) /\ x.name \in Seq(S)
              /\ x.descriptor \in Seq(S)
              /\ "#" \in S /\ "virtual@@" \in S /\ "new@@" \in S

\* Five parts, put together from the left, are the first two and the rest.
Regroups(a, b, c, d, e) ==
    a \o (b \o c \o d \o e) = (a \o b) \o (c \o (d \o e))

LEMMA FiveParts ==
    ASSUME NEW S, NEW a \in Seq(S), NEW b \in Seq(S), NEW c \in Seq(S),
           NEW d \in Seq(S), NEW e \in Seq(S)
    PROVE  Regroups(a, b, c, d, e)
<1> DEFINE Cat(s, t) == s \o t
           T == Seq(S)
<1>1. ASSUME NEW s \in T, NEW t \in T, NEW u \in T
      PROVE  Cat(Cat(s, t), u) = Cat(s, Cat(t, u))
  BY ConcatAssociative, SMTT(60) DEF Cat
<1>2. ASSUME NEW s \in T, NEW t \in T PROVE Cat(s, t) \in T
  OBVIOUS
<1>3. a \in T /\ b \in T /\ c \in T /\ d \in T /\ e \in T
  OBVIOUS
<1> HIDE DEF Cat, T
<1>4. Cat(a, Cat(Cat(Cat(b, c), d), e)) = Cat(Cat(a, b), Cat(c, Cat(d, e)))
  BY <1>1, <1>2, <1>3
<1> QED BY <1>4 DEF Cat, Regroups

LEMMA SimpleNameFacts ==
    ASSUME NEW S, NEW x, IsMember(x), FromJava(x), Over(S, x)
    PROVE  /\ Before(x) \in Seq(S) /\ After(x) \in Seq(S)
           /\ SimpleName(x) = Before(x) \o After(x)
           /\ \A i \in 1..Len(Before(x)) : Before(x)[i] # "#"
           /\ x.kind # "instantiator" => Len(After(x)) > 0 /\ After(x)[1] = "#"
           /\ x.kind # "method" => Before(x)[1] = SimplePrefix[x.kind][1]
           /\ x.kind = "method" => Before(x) = x.class
<1> DEFINE p == SimplePrefix[x.kind]
           c == x.class
           n == x.name
           d == x.descriptor
<1>1. /\ c \in Seq(S) /\ n \in Seq(S) /\ d \in Seq(S) /\ <<"#">> \in Seq(S)
  BY DEF Over
<1>2. p \in {<<>>, <<"virtual@@">>, <<"new@@">>}
      /\ (x.kind = "method" <=> p = <<>>)
  BY DEF FromJava, SimplePrefix
<1>3. p \in Seq(S)
  <2>1. <<>> \in Seq(S) /\ <<"virtual@@">> \in Seq(S) /\ <<"new@@">> \in Seq(S)
    BY DEF Over
  <2> HIDE DEF p
  <2> QED BY <1>2, <2>1
<1>4. \A i \in 1..Len(c) : c[i] # "#"
  BY <1>1 DEF FromJava
<1>5. SimpleName(x) = p \o (IF x.kind = "instantiator" THEN c
                            ELSE c \o <<"#">> \o n \o d)
  BY DEF SimpleName, MangleReference
<1> HIDE DEF p, c, n, d
<1>6. n \o d \in Seq(S)
  BY <1>1
<1>7. After(x) \in Seq(S)
      /\ (x.kind # "instantiator" => Len(After(x)) > 0 /\ After(x)[1] = "#")
  <2>1. /\ <<"#">> \o (n \o d) \in Seq(S) /\ Len(<<"#">> \o (n \o d)) > 0
        /\ (<<"#">> \o (n \o d))[1] = "#"
    BY <1>6, Prepending DEF Over
  <2>2. After(x) = IF x.kind = "instantiator" THEN <<>>
                   ELSE <<"#">> \o (n \o d)
    BY DEF After, n, d
  <2> QED BY <2>1, <2>2
<1>8. Before(x) = p \o c
  BY DEF Before, p, c
<1>9. Before(x) \in Seq(S)
  BY <1>1, <1>3, <1>8
<1>10. \A i \in 1..Len(Before(x)) : Before(x)[i] # "#"
  <2>1. CASE p = <<>>
    BY <1>1, <1>4, <1>8, <2>1
  <2>2. CASE p # <<>>
    <3>1. PICK k \in {"virtual@@", "new@@"} : p = <<k>>
      BY <1>2, <2>2
    <3>2. k \in S /\ k # "#"
      BY DEF Over
    <3>3. /\ Len(p \o c) = Len(c) + 1 /\ Len(c) \in Nat
          /\ (p \o c)[1] = k
          /\ \A i \in 1..Len(c) : (p \o c)[1 + i] = c[i]
      BY <1>1, <3>1, <3>2, Prepending
    <3>4. ASSUME NEW i \in 1..Len(Before(x)), i # 1
          PROVE  Before(x)[i] # "#"
      <4>1. i - 1 \in 1..Len(c) /\ 1 + (i - 1) = i
        BY <1>8, <3>3, <3>4
      <4> QED BY <1>4, <1>8, <3>3, <4>1
    <3> QED BY <1>8, <3>2, <3>3, <3>4
  <2> QED BY <2>1, <2>2
<1>11. x.kind = "method" => Before(x) = c
  BY <1>1, <1>2, <1>8
<1>12. x.kind # "method" => Before(x)[1] = p[1]
  BY <1>1, <1>2, <1>8
<1>13. SimpleName(x) = Before(x) \o After(x)
  <2>1. CASE x.kind = "instantiator"
    BY <1>5, <1>8, <1>9, <2>1 DEF After
  <2>2. CASE x.kind # "instantiator"
    <3>1. p \o (c \o <<"#">> \o n \o d) = (p \o c) \o (<<"#">> \o (n \o d))
      <4>1. Regroups(p, c, <<"#">>, n, d)
        BY <1>1, <1>3, FiveParts
      <4> QED BY <4>1 DEF Regroups
    <3> QED BY <1>5, <1>8, <2>2, <3>1 DEF After, n, d
  <2> QED BY <2>1, <2>2
<1> QED BY <1>7, <1>9, <1>10, <1>11, <1>12, <1>13 DEF p, c

LEMMA SimpleInjective ==
    ASSUME NEW x, IsMember(x), FromJava(x), NEW y, IsMember(y), FromJava(y),
           SimpleName(x) = SimpleName(y)
    PROVE  x = y
<1> DEFINE S == NameChar \cup {"#", "virtual@@", "new@@"}
<1>1. Over(S, x) /\ Over(S, y)
  <2>1. ASSUME NEW z \in {x, y}, NEW s \in {z.class, z.name, z.descriptor}
        PROVE  s \in Seq(S)
    <3>1. s \in Seq(NameChar) /\ NameChar \subseteq S
      BY <2>1, MemberFacts
    <3>2. ASSUME NEW R, s \in Seq(R), R \subseteq S PROVE s \in Seq(S)
      BY <3>2
    <3> QED BY <3>1, <3>2
  <2>2. "#" \in S /\ "virtual@@" \in S /\ "new@@" \in S
    OBVIOUS
  <2> HIDE DEF S
  <2> QED BY <2>1, <2>2 DEF Over
<1> HIDE DEF S
<1> DEFINE a == Before(x)
           b == Before(y)
           p == After(x)
           q == After(y)
<1>2. /\ a \in Seq(S) /\ p \in Seq(S) /\ SimpleName(x) = a \o p
      /\ \A i \in 1..Len(a) : a[i] # "#"
      /\ x.kind # "instantiator" => Len(p) > 0 /\ p[1] = "#"
      /\ x.kind # "method" => a[1] = SimplePrefix[x.kind][1]
      /\ x.kind = "method" => a = x.class
  BY <1>1, SimpleNameFacts
<1>3. /\ b \in Seq(S) /\ q \in Seq(S) /\ SimpleName(y) = b \o q
      /\ \A i \in 1..Len(b) : b[i] # "#"
      /\ y.kind # "instantiator" => Len(q) > 0 /\ q[1] = "#"
      /\ y.kind # "method" => b[1] = SimplePrefix[y.kind][1]
      /\ y.kind = "method" => b = y.class
  BY <1>1, SimpleNameFacts
<1>4. x.kind = "instantiator" => p = <<>>
  BY DEF After
<1>5. y.kind = "instantiator" => q = <<>>
  BY DEF After
<1> HIDE DEF a, b, p, q
<1>6. a \o p = b \o q
  BY <1>2, <1>3
<1>7. x.kind = "instantiator" <=> y.kind = "instantiator"
  <2>1. ASSUME NEW c \in Seq(S), NEW r \in Seq(S), NEW e \in Seq(S),
               c = e \o r, Len(r) > 0, r[1] = "#"
        PROVE  ~\A i \in 1..Len(c) : c[i] # "#"
    <3>1. /\ Len(e \o r) = Len(e) + Len(r) /\ Len(e) \in Nat /\ Len(r) \in Nat
          /\ \A k \in 1..Len(r) : (e \o r)[Len(e) + k] = r[k]
      BY Concatenation
    <3>2. Len(e) + 1 \in 1..Len(c) /\ c[Len(e) + 1] = "#"
      BY <2>1, <3>1
    <3> QED BY <3>2
  <2>2. a \o <<>> = a /\ b \o <<>> = b
    BY <1>2, <1>3
  <2> QED BY <1>2, <1>3, <1>4, <1>5, <1>6, <2>1, <2>2
<1>8. a = b /\ p = q
  <2>1. CASE x.kind = "instantiator"
    BY <1>2, <1>3, <1>4, <1>5, <1>6, <1>7, <2>1
  <2>2. CASE x.kind # "instantiator"
    <3>1. /\ Without(a, "#") /\ StartsWith(p, "#")
          /\ Without(b, "#") /\ StartsWith(q, "#")
      BY <1>2, <1>3, <1>7, <2>2 DEF Without, StartsWith
    <3>2. a \in Seq(S) /\ b \in Seq(S) /\ p \in Seq(S) /\ q \in Seq(S)
      BY <1>2, <1>3
    <3> QED BY <1>6, <3>1, <3>2, SplitUnique
  <2> QED BY <2>1, <2>2
<1>9. x.kind = y.kind
  <2>1. /\ x.kind \in {"method", "thunk", "instantiator"}
        /\ y.kind \in {"method", "thunk", "instantiator"}
        /\ SimplePrefix["thunk"][1] = "virtual@@"
    BY DEF FromJava, SimplePrefix
  <2>2. x.class[1] # "virtual@@" /\ y.class[1] # "virtual@@"
    BY <1>1 DEF FromJava, Over
  <2> QED BY <1>2, <1>3, <1>7, <1>8, <2>1, <2>2
<1>10. x.class = y.class
  <2>1. SimplePrefix[x.kind] \in Seq(S)
    <3>1. <<>> \in Seq(S) /\ <<"virtual@@">> \in Seq(S) /\ <<"new@@">> \in Seq(S)
      BY <1>1 DEF Over
    <3>2. SimplePrefix[x.kind]
            \in {<<>>, <<"virtual@@">>, <<"new@@">>}
      BY DEF FromJava, SimplePrefix
    <3> HIDE DEF SimplePrefix
    <3> QED BY <3>1, <3>2
  <2>2. SimplePrefix[x.kind] \o x.class = SimplePrefix[x.kind] \o y.class
    BY <1>8, <1>9 DEF a, b, Before
  <2>3. ASSUME NEW r \in Seq(S), NEW c \in Seq(S), NEW e \in Seq(S),
               r \o c = r \o e
        PROVE  c = e
    BY <2>3, SameParts
  <2> QED BY <1>1, <2>1, <2>2, <2>3 DEF Over
<1>11. x.name = y.name /\ x.descriptor = y.descriptor
  <2>1. CASE x.kind = "instantiator"
    BY <1>9, <2>1 DEF FromJava
  <2>2. CASE x.kind # "instantiator"
    <3> DEFINE n == x.name
               m == y.name
               d == x.descriptor
               e == y.descriptor
    <3>1. /\ n \in Seq(S) /\ m \in Seq(S) /\ d \in Seq(S) /\ e \in Seq(S)
          /\ <<"#">> \in Seq(S)
      BY <1>1 DEF Over
    <3>2. <<"#">> \o (n \o d) = <<"#">> \o (m \o e)
      BY <1>8, <1>9, <2>2 DEF p, q, After
    <3>3. /\ d # <<>> /\ d[1] = "(" /\ e # <<>> /\ e[1] = "("
          /\ \A i \in DOMAIN n : n[i] # "("
          /\ \A i \in DOMAIN m : m[i] # "("
      BY <1>9, <2>2 DEF FromJava
    <3> HIDE DEF n, m, d, e
    <3>4. n \o d \in Seq(S) /\ m \o e \in Seq(S)
      BY <3>1
    <3>5. n \o d = m \o e
      BY <3>1, <3>2, <3>4, SameParts
    <3>6. /\ Len(d) > 0 /\ Len(e) > 0
          /\ \A i \in 1..Len(n) : n[i] # "("
          /\ \A i \in 1..Len(m) : m[i] # "("
      BY <3>1, <3>3
    <3>7. n = m /\ d = e
      <4>1. /\ Without(n, "(") /\ StartsWith(d, "(")
            /\ Without(m, "(") /\ StartsWith(e, "(")
        BY <3>3, <3>6 DEF Without, StartsWith
      <4> QED BY <3>1, <3>5, <4>1, SplitUnique
    <3> QED BY <3>7 DEF n, m, d, e
  <2> QED BY <2>1, <2>2
<1> QED BY <1>9, <1>10, <1>11 DEF IsMember

\* mangle.cc: with the simple mangler the methods, thunks and instantiators of a
\* Java program have a symbol each in every unit, bridge methods included.
THEOREM MethodsAlwaysAgree ==
    Spec => []((mangler = "simple" /\ \A x \in members : FromJava(x))
                  => UnitsAgree)
<1>1. TableInv /\ (NamesApart => UnitsAgree) =>
         ((mangler = "simple" /\ \A x \in members : FromJava(x)) => UnitsAgree)
  <2> SUFFICES ASSUME TableInv, mangler = "simple",
                      \A x \in members : FromJava(x)
               PROVE  NamesApart
    OBVIOUS
  <2>1. \A x \in members : IsMember(x) /\ Mangled(x) = SimpleName(x)
    BY ManglerAssumption DEF TableInv, Mangled
  <2> QED BY <2>1, SimpleInjective DEF NamesApart
<1> QED BY <1>1, TableAlways, ApartAgree, PTL

-----------------------------------------------------------------------------
(* Symbols: the mangler of JNI tells members apart                         *)

\* What begins behind x and ends with y is inside of what y is inside of.
LEMMA Inside ==
    ASSUME NEW x \in Nat, NEW y \in Nat, NEW l \in Nat, NEW n \in Nat,
           y = x + l, y <= n, NEW k \in 1..l
    PROVE  x + k \in 1..n
OBVIOUS

LEMMA Shifted ==
    ASSUME NEW x \in Nat, NEW y \in Nat, NEW l \in Nat, NEW n \in Nat,
           NEW h \in Nat, y = x + l, y <= n
    PROVE  /\ h + y = (h + x) + l /\ h + y <= h + n
           /\ \A k \in 1..l : (h + x) + k = h + (x + k)
OBVIOUS

\* Places, for a number of sequences that is known.
PlacesOf(st, ss, s, m) ==
    /\ st \in [1..(m + 1) -> Nat]
    /\ st[1] = 0
    /\ Len(s) = st[m + 1]
    /\ \A i \in 1..m :
         /\ st[i + 1] = st[i] + Len(ss[i])
         /\ st[i + 1] <= Len(s)
         /\ \A k \in 1..Len(ss[i]) : s[st[i] + k] = ss[i][k]

LEMMA PlacesSame ==
    ASSUME NEW S, NEW ss \in Seq(Seq(S)), NEW st, NEW s
    PROVE  Places(st, ss, s) <=> PlacesOf(st, ss, s, Len(ss))
<1>1. DOMAIN ss = 1..Len(ss) /\ Len(ss) \in Nat
  OBVIOUS
<1>2. \A i \in 1..Len(ss) : DOMAIN ss[i] = 1..Len(ss[i])
  OBVIOUS
<1> QED BY <1>1, <1>2, Zenon DEF Places, PlacesOf

\* Two runs of sequences, one behind the other.
LEMMA PlacesJoin ==
    ASSUME NEW S, NEW s \in Seq(S), NEW t \in Seq(S),
           NEW ss \in Seq(Seq(S)), NEW tt \in Seq(Seq(S)),
           NEW p, Places(p, ss, s), NEW q, Places(q, tt, t)
    PROVE  \E r : Places(r, ss \o tt, s \o t)
<1> DEFINE m == Len(ss)
           n == Len(tt)
           h == Len(s)
           uu == ss \o tt
           u == s \o t
           r == [i \in 1..(m + n + 1) |-> IF i <= m + 1 THEN p[i] ELSE h + q[i - m]]
<1>1. /\ m \in Nat /\ n \in Nat /\ Len(uu) = m + n /\ uu \in Seq(Seq(S))
      /\ \A i \in 1..m : uu[i] = ss[i]
      /\ \A i \in 1..n : uu[m + i] = tt[i]
  OBVIOUS
<1>2. /\ h \in Nat /\ Len(t) \in Nat /\ Len(u) = h + Len(t)
      /\ \A k \in 1..h : u[k] = s[k]
      /\ \A k \in 1..Len(t) : u[h + k] = t[k]
  OBVIOUS
<1>3. /\ \A i \in 1..m : Len(ss[i]) \in Nat
      /\ \A i \in 1..n : Len(tt[i]) \in Nat
  OBVIOUS
<1>4. PlacesOf(p, ss, s, m) /\ PlacesOf(q, tt, t, n)
  BY PlacesSame
<1> HIDE DEF m, n, h, uu, u
<1>5. /\ \A i \in 1..(m + 1) : p[i] \in Nat
      /\ \A i \in 1..(n + 1) : q[i] \in Nat
      /\ p[1] = 0 /\ h = p[m + 1] /\ q[1] = 0 /\ Len(t) = q[n + 1]
  BY <1>4 DEF PlacesOf, h
<1>6. r \in [1..(m + n + 1) -> Nat]
  <2>1. ASSUME NEW i \in 1..(m + n + 1), ~(i <= m + 1)
        PROVE  i - m \in 1..(n + 1)
    BY <1>1, <2>1
  <2>2. ASSUME NEW i \in 1..(m + n + 1), i <= m + 1
        PROVE  i \in 1..(m + 1)
    BY <1>1, <2>2
  <2>3. ASSUME NEW x \in Nat, NEW y \in Nat PROVE x + y \in Nat
    OBVIOUS
  <2> QED BY <1>2, <1>5, <2>1, <2>2, <2>3
<1>7. \A i \in 1..(m + 1) : r[i] = p[i]
  <2>1. ASSUME NEW i \in 1..(m + 1)
        PROVE  i \in 1..(m + n + 1) /\ i <= m + 1
    BY <1>1
  <2> QED BY <2>1
<1>8. \A i \in 1..(n + 1) : r[m + i] = h + q[i]
  <2> SUFFICES ASSUME NEW i \in 1..(n + 1) PROVE r[m + i] = h + q[i]
    OBVIOUS
  <2>1. CASE i = 1
    <3>1. m + 1 \in 1..(m + 1)
      BY <1>1
    <3>2. r[m + 1] = h
      BY <1>5, <1>7, <3>1
    <3> HIDE DEF r
    <3> QED BY <1>2, <1>5, <2>1, <3>2
  <2>2. CASE i # 1
    <3>1. m + i \in 1..(m + n + 1) /\ ~(m + i <= m + 1) /\ (m + i) - m = i
      BY <1>1, <2>2
    <3> QED BY <3>1
  <2> QED BY <2>1, <2>2
<1> HIDE DEF r
<1>9. r[1] = 0 /\ Len(u) = r[m + n + 1]
  <2>1. 1 \in 1..(m + 1) /\ n + 1 \in 1..(n + 1) /\ m + (n + 1) = m + n + 1
    BY <1>1
  <2>2. r[1] = p[1] /\ r[m + (n + 1)] = h + q[n + 1]
    BY <1>7, <1>8, <2>1
  <2> QED BY <1>2, <1>5, <2>1, <2>2
<1>10. ASSUME NEW i \in 1..(m + n)
       PROVE  /\ r[i + 1] = r[i] + Len(uu[i]) /\ r[i + 1] <= Len(u)
              /\ \A k \in 1..Len(uu[i]) : u[r[i] + k] = uu[i][k]
  <2>1. CASE i <= m
    <3> DEFINE x == p[i]
               y == p[i + 1]
               l == Len(ss[i])
    <3>1. i \in 1..m /\ i \in 1..(m + 1) /\ i + 1 \in 1..(m + 1)
      BY <1>1, <2>1
    <3>2. /\ r[i] = x /\ r[i + 1] = y /\ uu[i] = ss[i]
          /\ x \in Nat /\ l \in Nat /\ y \in Nat
      BY <1>1, <1>3, <1>5, <1>7, <3>1
    <3>3. y = x + l /\ y <= h /\ \A k \in 1..l : s[x + k] = ss[i][k]
      BY <1>4, <3>1 DEF PlacesOf, h
    <3>4. Len(uu[i]) = l
      BY <3>2
    <3> HIDE DEF x, y, l
    <3>5. ASSUME NEW k \in 1..l PROVE u[x + k] = ss[i][k]
      <4>1. x + k \in 1..h
        BY <1>2, <3>2, <3>3, Inside
      <4> QED BY <1>2, <3>3, <4>1
    <3>6. y <= Len(u)
      BY <1>2, <3>2, <3>3
    <3> QED BY <3>2, <3>3, <3>4, <3>5, <3>6
  <2>2. CASE ~(i <= m)
    <3> DEFINE j == i - m
    <3>1. j \in 1..n /\ j \in 1..(n + 1) /\ j + 1 \in 1..(n + 1)
          /\ m + j = i /\ m + (j + 1) = i + 1
      BY <1>1, <2>2
    <3> HIDE DEF j
    <3> DEFINE x == q[j]
               y == q[j + 1]
               l == Len(tt[j])
    <3>2. /\ r[i] = h + x /\ r[i + 1] = h + y /\ uu[i] = tt[j]
          /\ x \in Nat /\ l \in Nat /\ y \in Nat
      BY <1>1, <1>3, <1>5, <1>8, <3>1
    <3>3. y = x + l /\ y <= Len(t) /\ \A k \in 1..l : t[x + k] = tt[j][k]
      BY <1>4, <3>1 DEF PlacesOf
    <3>4. Len(uu[i]) = l
      BY <3>2
    <3> HIDE DEF x, y, l
    <3>5. /\ h + y = (h + x) + l /\ h + y <= h + Len(t)
          /\ \A k \in 1..l : (h + x) + k = h + (x + k)
      <4>1. x \in Nat /\ y \in Nat /\ l \in Nat /\ h \in Nat /\ Len(t) \in Nat
        BY <1>2, <3>2
      <4>2. y = x + l /\ y <= Len(t)
        BY <3>3
      <4> QED BY <4>1, <4>2, Shifted
    <3>6. ASSUME NEW k \in 1..l PROVE u[(h + x) + k] = tt[j][k]
      <4>1. x + k \in 1..Len(t)
        BY <1>2, <3>2, <3>3, Inside
      <4>2. u[h + (x + k)] = t[x + k]
        BY <1>2, <4>1
      <4> QED BY <3>3, <3>5, <4>2
    <3> QED BY <1>2, <3>2, <3>4, <3>5, <3>6
  <2> QED BY <2>1, <2>2
<1>11. PlacesOf(r, uu, u, m + n)
  BY <1>6, <1>9, <1>10 DEF PlacesOf
<1>12. Places(r, uu, u)
  BY <1>1, <1>11, PlacesSame
<1> QED BY <1>12 DEF uu, u

\* The text t in the code E is s.
Codes(E, t) == [i \in DOMAIN t |-> E[t[i]]]
Encoded(E, t, s) == \E st : Places(st, Codes(E, t), s)

CodesRight(S, E, t, codes) ==
    /\ codes \in Seq(Seq(S)) /\ Len(codes) = Len(t)
    /\ \A i \in 1..Len(t) : codes[i] = E[t[i]]

LEMMA CodesFacts ==
    ASSUME NEW S, NEW K, NEW E \in [K -> Seq(S)], NEW t \in Seq(K)
    PROVE  CodesRight(S, E, t, Codes(E, t))
<1>1. Len(t) \in Nat /\ DOMAIN t = 1..Len(t) /\ \A i \in 1..Len(t) : t[i] \in K
  OBVIOUS
<1>2. Codes(E, t) \in [1..Len(t) -> Seq(S)]
  BY <1>1 DEF Codes
<1>3. ASSUME NEW B, NEW k \in Nat, NEW g \in [1..k -> B]
      PROVE  g \in Seq(B) /\ Len(g) = k
  OBVIOUS
<1>4. Codes(E, t) \in Seq(Seq(S)) /\ Len(Codes(E, t)) = Len(t)
  BY <1>1, <1>2, <1>3
<1>5. \A i \in 1..Len(t) : Codes(E, t)[i] = E[t[i]]
  BY <1>1, Zenon DEF Codes
<1> QED BY <1>4, <1>5 DEF CodesRight

JoinedRight(T, x, y) ==
    /\ x \o y \in Seq(T) /\ Len(x \o y) = Len(x) + Len(y)
    /\ \A i \in 1..Len(x) : (x \o y)[i] = x[i]
    /\ \A i \in 1..Len(y) : (x \o y)[Len(x) + i] = y[i]

LEMMA JoinedFacts ==
    ASSUME NEW T, NEW x \in Seq(T), NEW y \in Seq(T)
    PROVE  JoinedRight(T, x, y)
BY Concatenation DEF JoinedRight

LEMMA EncodedJoin ==
    ASSUME NEW S, NEW K, NEW E \in [K -> Seq(S)],
           NEW a \in Seq(K), NEW b \in Seq(K),
           NEW s \in Seq(S), NEW t \in Seq(S),
           Encoded(E, a, s), Encoded(E, b, t)
    PROVE  Encoded(E, a \o b, s \o t)
<1>1. Codes(E, a) \in Seq(Seq(S)) /\ Codes(E, b) \in Seq(Seq(S))
  BY CodesFacts DEF CodesRight
<1>2. Codes(E, a \o b) = Codes(E, a) \o Codes(E, b)
  <2> DEFINE A == Codes(E, a)
             B == Codes(E, b)
             C == Codes(E, a \o b)
  <2>1. /\ Len(a) \in Nat /\ Len(b) \in Nat /\ Len(a \o b) = Len(a) + Len(b)
        /\ \A i \in 1..Len(a) : (a \o b)[i] = a[i]
        /\ \A i \in 1..Len(b) : (a \o b)[Len(a) + i] = b[i]
        /\ a \o b \in Seq(K)
    OBVIOUS
  <2>2. /\ A \in Seq(Seq(S)) /\ Len(A) = Len(a)
        /\ \A i \in 1..Len(a) : A[i] = E[a[i]]
        /\ B \in Seq(Seq(S)) /\ Len(B) = Len(b)
        /\ \A i \in 1..Len(b) : B[i] = E[b[i]]
        /\ C \in Seq(Seq(S)) /\ Len(C) = Len(a) + Len(b)
        /\ \A i \in 1..(Len(a) + Len(b)) : C[i] = E[(a \o b)[i]]
    <3>1. CodesRight(S, E, a, A)
      BY CodesFacts
    <3>2. CodesRight(S, E, b, B)
      BY CodesFacts
    <3>3. CodesRight(S, E, a \o b, C)
      BY <2>1, CodesFacts
    <3> HIDE DEF A, B, C
    <3> QED BY <2>1, <3>1, <3>2, <3>3, Zenon DEF CodesRight
  <2> HIDE DEF A, B, C
  <2>3. /\ A \o B \in Seq(Seq(S)) /\ Len(A \o B) = Len(a) + Len(b)
        /\ \A i \in 1..Len(a) : (A \o B)[i] = A[i]
        /\ \A i \in 1..Len(b) : (A \o B)[Len(a) + i] = B[i]
    <3>1. A \in Seq(Seq(S)) /\ B \in Seq(Seq(S))
      BY <2>2
    <3>2. JoinedRight(Seq(S), A, B)
      BY <3>1, JoinedFacts
    <3>3. Len(A) = Len(a) /\ Len(B) = Len(b)
      BY <2>2
    <3> QED BY <3>2, <3>3, Zenon DEF JoinedRight
  <2>4. ASSUME NEW i \in 1..(Len(a) + Len(b)) PROVE C[i] = (A \o B)[i]
    <3>1. CASE i <= Len(a)
      <4>1. i \in 1..Len(a)
        BY <2>1, <3>1
      <4> QED BY <2>1, <2>2, <2>3, <4>1
    <3>2. CASE ~(i <= Len(a))
      <4> DEFINE j == i - Len(a)
      <4>1. j \in 1..Len(b) /\ i = Len(a) + j
        BY <2>1, <3>2
      <4> HIDE DEF j
      <4>2. C[Len(a) + j] = E[(a \o b)[Len(a) + j]]
        BY <2>2, <4>1
      <4>3. (a \o b)[Len(a) + j] = b[j]
        BY <2>1, <4>1
      <4>4. (A \o B)[Len(a) + j] = B[j] /\ B[j] = E[b[j]]
        BY <2>2, <2>3, <4>1
      <4> QED BY <4>1, <4>2, <4>3, <4>4
    <3> QED BY <3>1, <3>2
  <2>5. C = A \o B
    <3>1. ASSUME NEW T, NEW x \in Seq(T), NEW y \in Seq(T), NEW n \in Nat,
                 Len(x) = n, Len(y) = n, \A i \in 1..n : x[i] = y[i]
          PROVE  x = y
      BY <3>1, SeqEqual
    <3>2. Len(a) + Len(b) \in Nat
      BY <2>1
    <3> QED BY <2>2, <2>3, <2>4, <3>1, <3>2, Zenon
  <2> QED BY <2>5 DEF A, B, C
<1>3. PICK p : Places(p, Codes(E, a), s)
  BY DEF Encoded
<1>4. PICK q : Places(q, Codes(E, b), t)
  BY DEF Encoded
<1>5. \E r : Places(r, Codes(E, a) \o Codes(E, b), s \o t)
  BY <1>1, <1>3, <1>4, PlacesJoin
<1> QED BY <1>2, <1>5 DEF Encoded

\* No code begins with another, but for that of the character c, which is one
\* long: those that begin with it go on with one of the marks M.
AlmostPrefixFree(E, K, c, M) ==
    /\ c \in K /\ Len(E[c]) = 1
    /\ \A d \in K : Len(E[d]) > 0
    /\ \A d, e \in K : Leads(E[d], E[e]) /\ d # e =>
          d = c /\ Len(E[e]) > 1 /\ E[e][2] \in M

\* No code that begins with a mark is behind the character c.
Unmarked(E, c, M, t) ==
    \A i \in 1..Len(t) : t[i] = c /\ i + 1 \in 1..Len(t) =>
        E[t[i + 1]][1] \notin M

\* The text t is at the places st of s.
At(E, t, s, st) ==
    /\ st \in [1..(Len(t) + 1) -> Nat]
    /\ st[1] = 0
    /\ Len(s) = st[Len(t) + 1]
    /\ \A i \in 1..Len(t) :
         /\ st[i + 1] = st[i] + Len(E[t[i]])
         /\ st[i + 1] <= Len(s)
         /\ \A k \in 1..Len(E[t[i]]) : s[st[i] + k] = E[t[i]][k]

LEMMA AtFacts ==
    ASSUME NEW S, NEW K, NEW E \in [K -> Seq(S)], NEW t \in Seq(K),
           NEW s, NEW st, Places(st, Codes(E, t), s)
    PROVE  At(E, t, s, st)
<1> DEFINE T == Codes(E, t)
<1>1. CodesRight(S, E, t, T)
  BY CodesFacts
<1>2. PlacesOf(st, T, s, Len(t))
  BY <1>1, PlacesSame DEF CodesRight
<1> HIDE DEF T
<1>3. ASSUME NEW i \in 1..Len(t)
      PROVE  /\ st[i + 1] = st[i] + Len(E[t[i]])
             /\ st[i + 1] <= Len(s)
             /\ \A k \in 1..Len(E[t[i]]) : s[st[i] + k] = E[t[i]][k]
  <2>1. T[i] = E[t[i]]
    BY <1>1 DEF CodesRight
  <2>2. /\ st[i + 1] = st[i] + Len(T[i])
        /\ st[i + 1] <= Len(s)
        /\ \A k \in 1..Len(T[i]) : s[st[i] + k] = T[i][k]
    BY <1>2 DEF PlacesOf
  <2> QED BY <2>1, <2>2
<1> QED BY <1>2, <1>3 DEF PlacesOf, At

\* Two texts in the characters K, of which s is the code.
TwoReadings(S, K, E, c, M, s, a, b, st, su) ==
    /\ E \in [K -> Seq(S)] /\ AlmostPrefixFree(E, K, c, M)
    /\ s \in Seq(S) /\ a \in Seq(K) /\ b \in Seq(K)
    /\ At(E, a, s, st) /\ At(E, b, s, su)
    /\ Unmarked(E, c, M, a) /\ Unmarked(E, c, M, b)

LEMMA ReadingsSwapped ==
    ASSUME NEW S, NEW K, NEW E, NEW c, NEW M, NEW s, NEW a, NEW b, NEW st, NEW su
    PROVE  TwoReadings(S, K, E, c, M, s, a, b, st, su)
              => TwoReadings(S, K, E, c, M, s, b, a, su, st)
BY DEF TwoReadings

\* Where two texts are at one place, the shorter code is that of both.
LEMMA SameCharacter ==
    ASSUME NEW S, NEW K, NEW E, NEW c, NEW M, NEW s, NEW a, NEW b,
           NEW st, NEW su, TwoReadings(S, K, E, c, M, s, a, b, st, su),
           NEW i \in 1..Len(a), i \in 1..Len(b), st[i] = su[i],
           Len(E[a[i]]) <= Len(E[b[i]])
    PROVE  a[i] = b[i]
<1>0. /\ E \in [K -> Seq(S)] /\ AlmostPrefixFree(E, K, c, M)
      /\ s \in Seq(S) /\ a \in Seq(K) /\ b \in Seq(K)
      /\ At(E, a, s, st) /\ At(E, b, s, su)
      /\ Unmarked(E, c, M, a) /\ i \in Nat
  BY DEF TwoReadings
<1> DEFINE p == E[a[i]]
           q == E[b[i]]
<1>1. /\ a[i] \in K /\ b[i] \in K /\ Len(a) \in Nat /\ Len(b) \in Nat
      /\ Len(s) \in Nat
  BY <1>0
<1>2. p \in Seq(S) /\ q \in Seq(S) /\ Len(p) \in Nat /\ Len(q) \in Nat
      /\ Len(p) <= Len(q)
  BY <1>0, <1>1
<1>3. /\ i \in 1..(Len(a) + 1) /\ i + 1 \in 1..(Len(a) + 1)
      /\ i \in 1..(Len(b) + 1) /\ i + 1 \in 1..(Len(b) + 1)
  BY <1>0, <1>1
<1>4. /\ st[i] \in Nat /\ st[i + 1] \in Nat /\ su[i] \in Nat /\ su[i + 1] \in Nat
      /\ st[i + 1] = st[i] + Len(p)
      /\ su[i + 1] = su[i] + Len(q) /\ su[i + 1] <= Len(s)
      /\ \A k \in 1..Len(p) : s[st[i] + k] = p[k]
      /\ \A k \in 1..Len(q) : s[su[i] + k] = q[k]
      /\ Len(s) = st[Len(a) + 1]
  BY <1>0, <1>3 DEF At
<1> HIDE DEF p, q
<1>5. Leads(p, q)
  <2>1. ASSUME NEW k \in 1..Len(p) PROVE q[k] = p[k]
    <3>1. k \in 1..Len(q)
      BY <1>2
    <3> QED BY <1>4, <3>1
  <2> QED BY <1>2, <2>1 DEF Leads
<1> SUFFICES ASSUME a[i] # b[i] PROVE FALSE
  OBVIOUS
<1>6. a[i] = c /\ Len(p) = 1 /\ Len(q) > 1 /\ q[2] \in M
  BY <1>0, <1>1, <1>5 DEF AlmostPrefixFree, p, q
<1>7. s[st[i] + 2] \in M /\ st[i] + 2 <= Len(s) /\ st[i + 1] = st[i] + 1
  <2>1. 2 \in 1..Len(q)
    BY <1>2, <1>6
  <2>2. s[su[i] + 2] = q[2]
    BY <1>4, <2>1
  <2>3. su[i] + 2 \in 1..Len(s)
    BY <1>1, <1>2, <1>4, <2>1, Inside
  <2>4. ASSUME NEW x \in 1..Len(s) PROVE x <= Len(s)
    BY <1>1
  <2> QED BY <1>4, <1>6, <2>2, <2>3, <2>4
<1> DEFINE x == st[i]
           y == st[i + 1]
<1>8. CASE i = Len(a)
  <2>1. x \in Nat /\ y = x + 1 /\ Len(s) = y /\ x + 2 <= Len(s)
    BY <1>4, <1>7, <1>8
  <2> HIDE DEF x, y
  <2> QED BY <2>1
<1>9. CASE i # Len(a)
  <2>1. i + 1 \in 1..Len(a)
    BY <1>0, <1>1, <1>9
  <2>2. a[i + 1] \in K /\ E[a[i + 1]] \in Seq(S)
    BY <1>0, <2>1
  <2>3. 1 \in 1..Len(E[a[i + 1]])
    BY <1>0, <2>2 DEF AlmostPrefixFree
  <2>4. s[st[i + 1] + 1] = E[a[i + 1]][1]
    BY <1>0, <2>1, <2>3 DEF At
  <2>5. st[i + 1] + 1 = st[i] + 2
    <3>1. x \in Nat /\ y = x + 1
      BY <1>4, <1>7
    <3> HIDE DEF x, y
    <3>2. y + 1 = x + 2
      BY <3>1
    <3> QED BY <3>2 DEF x, y
  <2>6. E[a[i + 1]][1] \notin M
    BY <1>0, <1>6, <2>1 DEF Unmarked
  <2> QED BY <1>7, <2>4, <2>5, <2>6
<1> QED BY <1>8, <1>9

\* What one text has, the other one has too.
LEMMA SameText ==
    ASSUME NEW S, NEW K, NEW E, NEW c, NEW M, NEW s, NEW a, NEW b,
           NEW st, NEW su, TwoReadings(S, K, E, c, M, s, a, b, st, su)
    PROVE  Len(a) <= Len(b) /\ \A i \in 1..Len(a) : a[i] = b[i]
<1> DEFINE Bad == {i \in 1..Len(a) :
                     ~(i \in 1..Len(b) /\ a[i] = b[i] /\ st[i] = su[i])}
<1>0. /\ E \in [K -> Seq(S)] /\ AlmostPrefixFree(E, K, c, M)
      /\ s \in Seq(S) /\ a \in Seq(K) /\ b \in Seq(K)
      /\ At(E, a, s, st) /\ At(E, b, s, su)
  BY DEF TwoReadings
<1>1. Len(a) \in Nat /\ Len(b) \in Nat /\ Len(s) \in Nat
  BY <1>0
<1>2. SUFFICES ASSUME Bad # {} PROVE FALSE
  <2>1. ASSUME Bad = {}
        PROVE  Len(a) <= Len(b) /\ \A i \in 1..Len(a) : a[i] = b[i]
    <3>1. \A i \in 1..Len(a) : i \in 1..Len(b) /\ a[i] = b[i]
      BY <2>1
    <3>2. Len(a) > 0 => Len(a) \in 1..Len(a)
      BY <1>1
    <3> QED BY <1>1, <3>1, <3>2
  <2> QED BY <2>1
<1>3. PICK i \in Bad : \A j \in Bad : i <= j
  BY <1>2, LeastOf, Bad \subseteq Nat
<1>4. /\ i \in 1..Len(a) /\ i \in Nat
      /\ ~(i \in 1..Len(b) /\ a[i] = b[i] /\ st[i] = su[i])
  BY <1>1
<1>5. ASSUME NEW j \in 1..Len(a), j < i
      PROVE  j \in 1..Len(b) /\ a[j] = b[j] /\ st[j] = su[j]
  <2>1. j \notin Bad
    BY <1>3, <1>4, <1>5
  <2> QED BY <2>1
<1> HIDE DEF Bad
<1>6. i \in 1..(Len(b) + 1) /\ st[i] = su[i]
  <2>1. CASE i = 1
    BY <1>0, <1>1, <2>1 DEF At
  <2>2. CASE i # 1
    <3> DEFINE j == i - 1
    <3>1. j \in 1..Len(a) /\ j < i /\ j + 1 = i
      BY <1>1, <1>4, <2>2
    <3> HIDE DEF j
    <3>2. j \in 1..Len(b) /\ a[j] = b[j] /\ st[j] = su[j]
      BY <1>5, <3>1
    <3>3. st[j + 1] = st[j] + Len(E[a[j]]) /\ su[j + 1] = su[j] + Len(E[b[j]])
      BY <1>0, <3>1, <3>2 DEF At
    <3> QED BY <1>1, <3>1, <3>2, <3>3
  <2> QED BY <2>1, <2>2
<1>7. a[i] \in K /\ E[a[i]] \in Seq(S) /\ Len(E[a[i]]) \in Nat
  BY <1>0, <1>4
<1>8. i # Len(b) + 1
  <2> SUFFICES ASSUME i = Len(b) + 1 PROVE FALSE
    OBVIOUS
  <2> DEFINE x == st[i]
             y == st[i + 1]
             l == Len(E[a[i]])
             n == Len(s)
  <2>1. su[i] = n /\ y = x + l /\ y <= n
    BY <1>0, <1>4 DEF At
  <2>2. l > 0 /\ l \in Nat /\ n \in Nat /\ x = n
    BY <1>0, <1>1, <1>6, <1>7, <2>1 DEF AlmostPrefixFree
  <2> HIDE DEF x, y, l, n
  <2> QED BY <2>1, <2>2
<1>9. i \in 1..Len(b)
  <2>1. ASSUME NEW n \in Nat, i \in 1..(n + 1), i # n + 1 PROVE i \in 1..n
    BY <2>1
  <2> QED BY <1>1, <1>6, <1>8, <2>1
<1>10. b[i] \in K /\ Len(E[b[i]]) \in Nat
  BY <1>0, <1>9
<1>11. CASE Len(E[a[i]]) <= Len(E[b[i]])
  <2>1. a[i] = b[i]
    BY <1>4, <1>6, <1>9, <1>11, SameCharacter
  <2> QED BY <1>4, <1>6, <1>9, <2>1
<1>12. CASE ~(Len(E[a[i]]) <= Len(E[b[i]]))
  <2>1. Len(E[b[i]]) <= Len(E[a[i]]) /\ su[i] = st[i]
    BY <1>6, <1>7, <1>10, <1>12
  <2>2. b[i] = a[i]
    BY <1>4, <1>9, <2>1, ReadingsSwapped, SameCharacter
  <2> QED BY <1>4, <1>6, <1>9, <2>2
<1> QED BY <1>11, <1>12

\* A text can be read back from its code.
LEMMA ReadBack ==
    ASSUME NEW S, NEW K, NEW E \in [K -> Seq(S)], NEW c, NEW M,
           AlmostPrefixFree(E, K, c, M),
           NEW s \in Seq(S), NEW a \in Seq(K), NEW b \in Seq(K),
           Encoded(E, a, s), Encoded(E, b, s),
           Unmarked(E, c, M, a), Unmarked(E, c, M, b)
    PROVE  a = b
<1>1. PICK st : Places(st, Codes(E, a), s)
  BY DEF Encoded
<1>2. PICK su : Places(su, Codes(E, b), s)
  BY DEF Encoded
<1>3. At(E, a, s, st) /\ At(E, b, s, su)
  BY <1>1, <1>2, AtFacts
<1>4. TwoReadings(S, K, E, c, M, s, a, b, st, su)
  BY <1>3 DEF TwoReadings
<1>5. Len(a) <= Len(b) /\ \A i \in 1..Len(a) : a[i] = b[i]
  BY <1>4, SameText
<1>6. Len(b) <= Len(a)
  BY <1>4, ReadingsSwapped, SameText
<1>7. Len(a) = Len(b) /\ Len(a) \in Nat
  BY <1>5, <1>6
<1> QED BY <1>5, <1>7, SeqEqual

\* The characters of a text without underscores, their codes, and what is behind
\* an underscore that stands for no slash.
JniChar == Escaped \ {"_"}
JniCode == [c \in JniChar |-> Escape(c)]
JniMarks == {"0", "2", "3"}

LEMMA JniCodeFacts ==
    /\ JniCode \in [JniChar -> Seq(IdentifierChar)]
    /\ "/" \in JniChar
    /\ \A c \in JniChar : JniCode[c] = Escape(c)
<1>1. \A c \in JniChar : Escape(c) \in Seq(IdentifierChar)
  BY EscapeValid DEF JniChar
<1>2. "/" # "_" /\ "/" \in Escaped
  BY Zenon DEF Escaped
<1> QED BY <1>1, <1>2 DEF JniChar, JniCode

\* What the code of a character is.
LEMMA CodeForms ==
    ASSUME NEW c \in JniChar, NEW u, u = "_", NEW semicolon, semicolon = ";"
    PROVE  \/ /\ IsValidCIdentifier(c) /\ c # u /\ JniCode[c] = <<c>>
           \/ /\ ~IsValidCIdentifier(c)
              /\ \/ c = "/" /\ JniCode[c] = <<u>>
                 \/ c = semicolon /\ JniCode[c] = <<u, "2">>
                 \/ c = "[" /\ JniCode[c] = <<u, "3">>
                 \/ /\ c \in NameChar /\ Hex[c] \in HexCode
                    /\ JniCode[c] = <<u, "0">> \o Hex[c]
<1>1. JniCode[c] = Escape(c) /\ c # u /\ c \in Escaped
  BY JniCodeFacts DEF JniChar
<1>2. CASE IsValidCIdentifier(c)
  <2>1. c # "/" /\ c # ";" /\ c # "["
    BY <1>2, NotIdentifiers, Zenon
  <2>2. Escape(c) = <<c>>
    BY <1>2, <2>1, Zenon DEF Escape
  <2> QED BY <1>1, <1>2, <2>2
<1>3. CASE ~IsValidCIdentifier(c)
  <2>1. CASE c = "/"
    <3>1. Escape(c) = <<u>>
      BY <1>3, <2>1, Zenon DEF Escape
    <3> QED BY <1>1, <1>3, <2>1, <3>1
  <2>2. CASE c = semicolon
    <3>1. Escape(c) = <<u, "2">>
      BY <1>3, <2>2, Zenon DEF Escape
    <3> QED BY <1>1, <1>3, <2>2, <3>1
  <2>3. CASE c = "["
    <3>1. Escape(c) = <<u, "3">>
      BY <1>3, <2>3, Zenon DEF Escape
    <3> QED BY <1>1, <1>3, <2>3, <3>1
  <2>4. CASE c # "/" /\ c # semicolon /\ c # "["
    <3>1. Escape(c) = <<u, "0">> \o Hex[c]
      BY <1>3, <2>4, Zenon DEF Escape
    <3>2. c \in NameChar
      BY <1>1, <2>4, Zenon DEF Escaped
    <3>3. Hex[c] \in HexCode
      BY <1>3, <3>2, HexAssumption, Zenon DEF HexCode
    <3> QED BY <1>1, <1>3, <3>1, <3>2, <3>3
  <2> QED BY <2>1, <2>2, <2>3, <2>4
<1> QED BY <1>2, <1>3

\* Six characters, of which the last four are the code h.
LEMMA SixFacts ==
    ASSUME NEW u, NEW z, NEW h \in HexCode
    PROVE  LET e == <<u, z>> \o h
           IN /\ Len(e) = 6 /\ e[1] = u /\ e[2] = z
              /\ \A k \in 1..4 : e[2 + k] = h[k]
<1> DEFINE W == HexDigit \cup {u, z}
<1>1. h \in [1..4 -> W] /\ u \in W /\ z \in W
  BY DEF HexCode
<1> HIDE DEF W
<1>2. h \in Seq(W) /\ Len(h) = 4
  <2>1. ASSUME NEW k \in Nat, NEW g \in [1..k -> W]
        PROVE  g \in Seq(W) /\ Len(g) = k
    OBVIOUS
  <2> QED BY <1>1, <2>1
<1> DEFINE a == <<u, z>>
<1>3. a \in Seq(W) /\ Len(a) = 2 /\ a[1] = u /\ a[2] = z
  BY <1>1
<1> HIDE DEF a
<1>4. JoinedRight(W, a, h)
  BY <1>2, <1>3, JoinedFacts
<1>5. /\ Len(a \o h) = 6 /\ (a \o h)[1] = u /\ (a \o h)[2] = z
      /\ \A k \in 1..4 : (a \o h)[2 + k] = h[k]
  BY <1>2, <1>3, <1>4 DEF JoinedRight
<1> QED BY <1>5 DEF a

LEMMA JniPrefixFree == AlmostPrefixFree(JniCode, JniChar, "/", JniMarks)
<1>1. PICK u : u = "_"
  BY Zenon
<1>2. PICK semicolon : semicolon = ";"
  BY Zenon
<1>3. \A c \in JniChar :
         \/ /\ IsValidCIdentifier(c) /\ c # u /\ JniCode[c] = <<c>>
         \/ /\ ~IsValidCIdentifier(c)
            /\ \/ c = "/" /\ JniCode[c] = <<u>>
               \/ c = semicolon /\ JniCode[c] = <<u, "2">>
               \/ c = "[" /\ JniCode[c] = <<u, "3">>
               \/ /\ c \in NameChar /\ Hex[c] \in HexCode
                  /\ JniCode[c] = <<u, "0">> \o Hex[c]
  BY <1>1, <1>2, CodeForms
<1>4. \A c \in JniChar : c \in NameChar /\ Hex[c] \in HexCode
                           /\ JniCode[c] = <<u, "0">> \o Hex[c] =>
         /\ Len(JniCode[c]) = 6 /\ JniCode[c][1] = u /\ JniCode[c][2] = "0"
         /\ \A k \in 1..4 : JniCode[c][2 + k] = Hex[c][k]
  BY SixFacts
<1>5. "/" \in JniChar /\ Len(JniCode["/"]) = 1
  <2>1. "/" \in JniChar /\ ~IsValidCIdentifier("/")
    BY JniCodeFacts, NotIdentifiers
  <2>2. "/" # "[" /\ "/" # ";"
    BY Zenon
  <2>3. Escape("/") = <<"_">>
    BY <2>1, Zenon DEF Escape
  <2>4. JniCode["/"] = <<u>>
    BY <1>1, <2>1, <2>3, JniCodeFacts, Zenon
  <2> QED BY <2>1, <2>4
<1>6. ASSUME NEW c \in JniChar
      PROVE  /\ Len(JniCode[c]) \in Nat /\ Len(JniCode[c]) > 0
             /\ ~IsValidCIdentifier(c) => JniCode[c][1] = u
  <2> DEFINE e == JniCode[c]
             valid == IsValidCIdentifier(c)
  <2>1. \/ valid /\ e = <<c>>
        \/ ~valid /\ e = <<u>>
        \/ ~valid /\ e = <<u, "2">>
        \/ ~valid /\ e = <<u, "3">>
        \/ ~valid /\ Len(e) = 6 /\ e[1] = u
    BY <1>3, <1>4
  <2> HIDE DEF e, valid
  <2> SUFFICES Len(e) \in Nat /\ Len(e) > 0 /\ (~valid => e[1] = u)
    BY DEF e, valid
  <2>2. \A x, y : /\ Len(<<x>>) = 1 /\ <<x>>[1] = x
                  /\ Len(<<x, y>>) = 2 /\ <<x, y>>[1] = x
    OBVIOUS
  <2> QED BY <2>1, <2>2
<1>7. ASSUME NEW c \in JniChar, NEW d \in JniChar, c # d,
             Leads(JniCode[c], JniCode[d])
      PROVE  c = "/" /\ Len(JniCode[d]) > 1 /\ JniCode[d][2] \in JniMarks
  <2>1. /\ Len(JniCode[c]) <= Len(JniCode[d])
        /\ \A k \in 1..Len(JniCode[c]) : JniCode[d][k] = JniCode[c][k]
    BY <1>7 DEF Leads
  <2>2. CASE IsValidCIdentifier(c)
    <3>1. c # u /\ JniCode[c] = <<c>>
      BY <1>3, <2>2
    <3>2. JniCode[d][1] = c
      BY <2>1, <3>1
    <3> QED BY <1>3, <1>4, <1>7, <3>1, <3>2
  <2>3. CASE ~IsValidCIdentifier(c)
    <3>1. JniCode[c][1] = u /\ Len(JniCode[c]) > 0 /\ Len(JniCode[c]) \in Nat
      BY <1>6, <2>3
    <3>2. JniCode[d][1] = u
      BY <2>1, <3>1
    <3>3. ~IsValidCIdentifier(d)
      BY <1>3, <3>2
    <3>4. \/ d = "/" /\ JniCode[d] = <<u>>
          \/ d = semicolon /\ JniCode[d] = <<u, "2">>
          \/ d = "[" /\ JniCode[d] = <<u, "3">>
          \/ /\ d \in NameChar /\ Hex[d] \in HexCode
             /\ JniCode[d] = <<u, "0">> \o Hex[d]
      BY <1>3, <3>3
    <3>5. CASE c = "/"
      BY <1>4, <1>7, <3>4, <3>5 DEF JniMarks
    <3>6. CASE c = semicolon /\ JniCode[c] = <<u, "2">>
      <4>1. Len(JniCode[d]) > 1 /\ JniCode[d][2] = "2"
        BY <2>1, <3>6
      <4> QED BY <1>4, <1>7, <3>4, <3>6, <4>1
    <3>7. CASE c = "[" /\ JniCode[c] = <<u, "3">>
      <4>1. Len(JniCode[d]) > 1 /\ JniCode[d][2] = "3"
        BY <2>1, <3>7
      <4> QED BY <1>4, <1>7, <3>4, <3>7, <4>1
    <3>8. CASE /\ c \in NameChar /\ Hex[c] \in HexCode
               /\ JniCode[c] = <<u, "0">> \o Hex[c]
      <4>1. /\ Len(JniCode[c]) = 6 /\ JniCode[c][2] = "0"
            /\ \A k \in 1..4 : JniCode[c][2 + k] = Hex[c][k]
        BY <1>4, <3>8
      <4>2. Len(JniCode[d]) >= 6 /\ JniCode[d][2] = "0"
        BY <2>1, <4>1
      <4>3. d \in NameChar /\ Hex[d] \in HexCode
            /\ JniCode[d] = <<u, "0">> \o Hex[d]
        BY <3>4, <4>2
      <4>4. \A k \in 1..4 : JniCode[d][2 + k] = Hex[d][k]
        BY <1>4, <4>3
      <4>5. ASSUME NEW k \in 1..4 PROVE Hex[c][k] = Hex[d][k]
        <5>1. 2 + k \in 1..Len(JniCode[c])
          BY <4>1
        <5> QED BY <2>1, <4>1, <4>4, <5>1
      <4>6. Hex[c] = Hex[d]
        <5>1. ASSUME NEW D, NEW R, NEW f \in [D -> R], NEW g \in [D -> R],
                     \A k \in D : f[k] = g[k]
              PROVE  f = g
          BY <5>1
        <5>2. Hex[c] \in [1..4 -> HexDigit] /\ Hex[d] \in [1..4 -> HexDigit]
          BY <3>8, <4>3 DEF HexCode
        <5> QED BY <4>5, <5>1, <5>2
      <4>7. c = d
        BY <2>3, <3>3, <3>8, <4>3, <4>6, HexAssumption
      <4> QED BY <1>7, <4>7
    <3> QED BY <1>3, <2>3, <3>5, <3>6, <3>7, <3>8
  <2> QED BY <2>2, <2>3
<1> QED BY <1>5, <1>6, <1>7 DEF AlmostPrefixFree

\* The text that the rest of a name is the code of: an underscore that separates
\* is the code of a slash.
JniText(x) ==
    IF x.kind = "instantiator" THEN Slashes(x.class)
    ELSE Slashes(x.class) \o (<<"/">> \o x.name \o <<"/", "/">> \o Signature(x))

\* A member of a Java program without underscores: no part of a name begins with
\* a digit, no name is empty or has a slash, and each period of a class name has
\* a part behind it.
Separable(x) ==
    /\ \A i \in 1..Len(JniText(x)) : JniText(x)[i] # "_"
    /\ \A i \in 1..Len(JniText(x)) :
          JniText(x)[i] = "/" /\ i + 1 \in 1..Len(JniText(x))
             => JniText(x)[i + 1] \notin Digits
    /\ \A i \in 1..Len(x.class) :
          /\ x.class[i] # "/"
          /\ x.class[i] = "." =>
                i + 1 \in 1..Len(x.class) /\ x.class[i + 1] # "."
    /\ IF x.kind = "instantiator" THEN x.name = <<>> /\ x.descriptor = <<>>
       ELSE x.name # <<>> /\ Without(x.name, "/")

LEMMA MangledEncoded ==
    ASSUME NEW t \in Seq(JniChar)
    PROVE  /\ MangleUnicodeCharacters(t) \in Seq(IdentifierChar)
           /\ Encoded(JniCode, t, MangleUnicodeCharacters(t))
<1>1. CodesRight(IdentifierChar, JniCode, t, Codes(JniCode, t))
  BY JniCodeFacts, CodesFacts
<1>2. [i \in DOMAIN t |-> Escape(t[i])] = Codes(JniCode, t)
  <2>1. \A i \in DOMAIN t : Escape(t[i]) = JniCode[t[i]]
    BY JniCodeFacts
  <2> QED BY <2>1, Zenon DEF Codes
<1>3. MangleUnicodeCharacters(t) = FlattenSeq(Codes(JniCode, t))
  BY <1>2 DEF MangleUnicodeCharacters
<1> QED BY <1>1, <1>3, FlattenPlaces DEF CodesRight, Encoded

\* Sequences of one and of two elements.
LEMMA OneElement ==
    ASSUME NEW S, NEW x \in S
    PROVE  /\ 1 \in 1..1 /\ <<x>> \in Seq(S) /\ Len(<<x>>) = 1 /\ <<x>>[1] = x
           /\ <<x>> \o <<x>> = <<x, x>> /\ <<x, x>> \in Seq(S)
<1>1. <<x>> \in Seq(S) /\ Len(<<x>>) = 1 /\ <<x>>[1] = x /\ 1 \in 1..1
  OBVIOUS
<1>2. /\ <<x, x>> \in Seq(S) /\ Len(<<x, x>>) = 2
      /\ <<x, x>>[1] = x /\ <<x, x>>[2] = x
  OBVIOUS
<1>3. <<x>> \o <<x>> = <<x, x>>
  <2> DEFINE a == <<x>>
             b == <<x, x>>
  <2>1. a \in Seq(S) /\ b \in Seq(S) /\ Len(a) = 1 /\ a[1] = x
        /\ Len(b) = 2 /\ b[1] = x /\ b[2] = x
    BY <1>1, <1>2
  <2> HIDE DEF a, b
  <2>2. /\ a \o a \in Seq(S) /\ Len(a \o a) = 2
        /\ (a \o a)[1] = x /\ (a \o a)[2] = x
    <3>1. JoinedRight(S, a, a)
      BY <2>1, JoinedFacts
    <3>2. /\ a \o a \in Seq(S) /\ Len(a \o a) = 1 + 1
          /\ \A i \in 1..1 : (a \o a)[i] = a[i] /\ (a \o a)[1 + i] = a[i]
      BY <2>1, <3>1 DEF JoinedRight
    <3>3. 1 \in 1..1 /\ 1 + 1 = 2
      OBVIOUS
    <3> QED BY <2>1, <3>2, <3>3
  <2>3. \A i \in 1..2 : (a \o a)[i] = b[i]
    BY <2>1, <2>2
  <2>4. a \o a = b
    BY <2>1, <2>2, <2>3, SeqEqual
  <2> QED BY <2>4 DEF a, b
<1> QED BY <1>1, <1>2, <1>3

LEMMA OnePlace ==
    ASSUME NEW S, NEW T \in Seq(Seq(S)), Len(T) = 1, NEW u \in S, T[1] = <<u>>
    PROVE  \E st : Places(st, T, <<u>>)
<1> DEFINE st == [i \in 1..2 |-> i - 1]
<1>1. /\ st \in [1..(1 + 1) -> Nat] /\ st[1] = 0 /\ st[1 + 1] = 1
      /\ Len(<<u>>) = 1 /\ <<u>>[1] = u
  OBVIOUS
<1> HIDE DEF st
<1>2. PlacesOf(st, T, <<u>>, 1)
  <2>1. /\ \A i \in 1..1 : i = 1
        /\ st[1 + 1] = st[1] + Len(T[1]) /\ st[1 + 1] <= Len(<<u>>)
        /\ \A k \in 1..Len(T[1]) : <<u>>[st[1] + k] = T[1][k]
        /\ Len(<<u>>) = st[1 + 1]
    BY <1>1
  <2> QED BY <1>1, <2>1 DEF PlacesOf
<1> QED BY <1>2, PlacesSame

LEMMA SlashEncoded ==
    ASSUME NEW u, u = "_"
    PROVE  /\ <<"/">> \in Seq(JniChar) /\ <<"/", "/">> \in Seq(JniChar)
           /\ <<u>> \in Seq(IdentifierChar) /\ <<u, u>> \in Seq(IdentifierChar)
           /\ Encoded(JniCode, <<"/">>, <<u>>)
           /\ Encoded(JniCode, <<"/", "/">>, <<u, u>>)
<1>1. PICK c : c = "/"
  BY Zenon
<1>2. c \in JniChar /\ u \in IdentifierChar
  BY <1>1, JniCodeFacts, IdentifierFacts, Zenon
<1>3. /\ 1 \in 1..1
      /\ <<c>> \in Seq(JniChar) /\ Len(<<c>>) = 1 /\ <<c>>[1] = c
      /\ <<c>> \o <<c>> = <<c, c>> /\ <<c, c>> \in Seq(JniChar)
  BY <1>2, OneElement, Zenon
<1>4. /\ <<u>> \in Seq(IdentifierChar) /\ <<u>> \o <<u>> = <<u, u>>
      /\ <<u, u>> \in Seq(IdentifierChar)
  BY <1>2, OneElement, Zenon
<1>5. JniCode[c] = <<u>>
  <2>1. Escape("/") = <<"_">>
    BY NotIdentifiers, Zenon DEF Escape
  <2> QED BY <1>1, <1>2, <2>1, JniCodeFacts, Zenon
<1>6. JniCode \in [JniChar -> Seq(IdentifierChar)]
  BY JniCodeFacts, Zenon
<1> DEFINE T == Codes(JniCode, <<c>>)
<1>7. T \in Seq(Seq(IdentifierChar)) /\ Len(T) = 1 /\ T[1] = <<u>>
  <2>1. CodesRight(IdentifierChar, JniCode, <<c>>, T)
    BY <1>3, <1>6, CodesFacts, Zenon
  <2> HIDE DEF T
  <2> QED BY <1>3, <1>5, <2>1, Zenon DEF CodesRight
<1> HIDE DEF T
<1>8. Encoded(JniCode, <<c>>, <<u>>)
  <2>1. \E st : Places(st, T, <<u>>)
    BY <1>2, <1>7, OnePlace, Zenon
  <2> QED BY <2>1, Zenon DEF Encoded, T
<1>9. Encoded(JniCode, <<c>> \o <<c>>, <<u>> \o <<u>>)
  BY <1>3, <1>4, <1>6, <1>8, EncodedJoin, Zenon
<1> QED BY <1>1, <1>3, <1>4, <1>8, <1>9, Zenon

\* The name is the code of the text.
LEMMA TextEncoded ==
    ASSUME NEW x, IsMember(x), Separable(x)
    PROVE  /\ JniText(x) \in Seq(JniChar)
           /\ JniTail(x) \in Seq(IdentifierChar)
           /\ Encoded(JniCode, JniText(x), JniTail(x))
<1>1. PICK u : u = "_"
  BY Zenon
<1> DEFINE c == Slashes(x.class)
           n == x.name
           d == Signature(x)
<1>2. c \in Seq(Escaped) /\ n \in Seq(Escaped) /\ d \in Seq(Escaped)
  BY MemberFacts
<1>3. /\ JniText(x) = IF x.kind = "instantiator" THEN c
                      ELSE c \o (<<"/">> \o n \o <<"/", "/">> \o d)
      /\ JniTail(x) = MangleUnicodeCharacters(c) \o
            (IF x.kind = "instantiator" THEN <<>>
             ELSE <<u>> \o MangleUnicodeCharacters(n) \o <<u, u>>
                  \o MangleUnicodeCharacters(d))
  BY <1>1, Zenon DEF JniText, JniTail
<1>4. \A i \in 1..Len(JniText(x)) : JniText(x)[i] # u
  BY <1>1 DEF Separable
<1> HIDE DEF c, n, d
<1>5. ASSUME NEW s \in Seq(Escaped), \A i \in 1..Len(s) : s[i] # u
      PROVE  s \in Seq(JniChar)
  <2>1. Len(s) \in Nat /\ s \in [1..Len(s) -> Escaped]
    OBVIOUS
  <2>2. \A i \in 1..Len(s) : s[i] \in JniChar
    BY <1>1, <1>5, <2>1 DEF JniChar
  <2>3. ASSUME NEW k \in Nat, NEW g, g = [i \in 1..k |-> g[i]],
               \A i \in 1..k : g[i] \in JniChar
        PROVE  g \in Seq(JniChar)
    BY <2>3
  <2>4. s = [i \in 1..Len(s) |-> s[i]]
    BY <2>1
  <2> QED BY <2>1, <2>2, <2>3, <2>4
<1>6. CASE x.kind = "instantiator"
  <2>1. JniText(x) = c /\ JniTail(x) = MangleUnicodeCharacters(c) \o <<>>
    BY <1>3, <1>6
  <2>2. c \in Seq(JniChar)
    BY <1>2, <1>4, <1>5, <2>1
  <2>3. /\ MangleUnicodeCharacters(c) \in Seq(IdentifierChar)
        /\ Encoded(JniCode, c, MangleUnicodeCharacters(c))
    BY <2>2, MangledEncoded
  <2>4. JniTail(x) = MangleUnicodeCharacters(c)
    BY <2>1, <2>3
  <2> QED BY <2>1, <2>2, <2>3, <2>4
<1>7. CASE x.kind # "instantiator"
  <2> DEFINE a == <<"/">> \o n
             b == a \o <<"/", "/">>
             t == b \o d
  <2>1. JniText(x) = c \o t
    BY <1>3, <1>7
  <2>2. /\ <<"/">> \in Seq(Escaped) /\ <<"/", "/">> \in Seq(Escaped)
    BY DEF Escaped
  <2>3. /\ a \in Seq(Escaped) /\ b \in Seq(Escaped) /\ t \in Seq(Escaped)
        /\ c \o t \in Seq(Escaped)
    <3>1. \A p, q \in Seq(Escaped) : p \o q \in Seq(Escaped)
      OBVIOUS
    <3> QED BY <1>2, <2>2, <3>1
  <2> HIDE DEF a, b, t
  <2>4. ASSUME NEW p \in Seq(Escaped), NEW q \in Seq(Escaped),
               \A i \in 1..Len(p \o q) : (p \o q)[i] # u
        PROVE  /\ \A i \in 1..Len(p) : p[i] # u
               /\ \A i \in 1..Len(q) : q[i] # u
    <3>1. /\ Len(p) \in Nat /\ Len(q) \in Nat
          /\ Len(p \o q) = Len(p) + Len(q)
          /\ \A i \in 1..Len(p) : (p \o q)[i] = p[i]
          /\ \A i \in 1..Len(q) : (p \o q)[Len(p) + i] = q[i]
      BY Concatenation
    <3>2. ASSUME NEW i \in 1..Len(p) PROVE i \in 1..Len(p \o q)
      BY <3>1
    <3>3. ASSUME NEW i \in 1..Len(q) PROVE Len(p) + i \in 1..Len(p \o q)
      BY <3>1
    <3> QED BY <2>4, <3>1, <3>2, <3>3
  <2>5. /\ \A i \in 1..Len(c) : c[i] # u
        /\ \A i \in 1..Len(t) : t[i] # u
    <3>1. \A i \in 1..Len(c \o t) : (c \o t)[i] # u
      BY <1>4, <2>1
    <3> QED BY <1>2, <2>3, <2>4, <3>1
  <2>6. /\ \A i \in 1..Len(b) : b[i] # u
        /\ \A i \in 1..Len(d) : d[i] # u
    BY <1>2, <2>3, <2>4, <2>5 DEF t
  <2>7. \A i \in 1..Len(a) : a[i] # u
    BY <2>2, <2>3, <2>4, <2>6 DEF b
  <2>8. \A i \in 1..Len(n) : n[i] # u
    BY <1>2, <2>2, <2>4, <2>7 DEF a
  <2>9. c \in Seq(JniChar) /\ n \in Seq(JniChar) /\ d \in Seq(JniChar)
    BY <1>2, <1>5, <2>5, <2>6, <2>8
  <2> DEFINE E == JniCode
             K == JniChar
             I == IdentifierChar
             M(s) == MangleUnicodeCharacters(s)
             A == <<u>> \o M(n)
             B == A \o <<u, u>>
             T == B \o M(d)
  <2>10. /\ M(c) \in Seq(I) /\ Encoded(E, c, M(c))
         /\ M(n) \in Seq(I) /\ Encoded(E, n, M(n))
         /\ M(d) \in Seq(I) /\ Encoded(E, d, M(d))
    BY <2>9, MangledEncoded
  <2>11. /\ <<"/">> \in Seq(K) /\ <<"/", "/">> \in Seq(K)
         /\ <<u>> \in Seq(I) /\ <<u, u>> \in Seq(I)
         /\ Encoded(E, <<"/">>, <<u>>) /\ Encoded(E, <<"/", "/">>, <<u, u>>)
    BY <1>1, SlashEncoded
  <2>12. JniTail(x) = M(c) \o T
    BY <1>3, <1>7
  <2>13. E \in [K -> Seq(I)]
    BY JniCodeFacts
  <2> HIDE DEF E, K, I, M, A, B, T
  <2>14. ASSUME NEW p \in Seq(K), NEW q \in Seq(K),
                NEW v \in Seq(I), NEW w \in Seq(I),
                Encoded(E, p, v), Encoded(E, q, w)
         PROVE  /\ p \o q \in Seq(K) /\ v \o w \in Seq(I)
                /\ Encoded(E, p \o q, v \o w)
    <3>1. p \o q \in Seq(K) /\ v \o w \in Seq(I)
      OBVIOUS
    <3> QED BY <2>13, <2>14, <3>1, EncodedJoin
  <2>15. a \in Seq(K) /\ A \in Seq(I) /\ Encoded(E, a, A)
    BY <2>9, <2>10, <2>11, <2>14 DEF a, A, K
  <2>16. b \in Seq(K) /\ B \in Seq(I) /\ Encoded(E, b, B)
    BY <2>11, <2>14, <2>15 DEF b, B
  <2>17. t \in Seq(K) /\ T \in Seq(I) /\ Encoded(E, t, T)
    BY <2>9, <2>10, <2>14, <2>16 DEF t, T, K
  <2>18. c \o t \in Seq(K) /\ M(c) \o T \in Seq(I) /\ Encoded(E, c \o t, M(c) \o T)
    BY <2>9, <2>10, <2>14, <2>17 DEF K
  <2> QED BY <2>1, <2>12, <2>18 DEF E, K, I
<1> QED BY <1>6, <1>7

\* No code in it is behind an underscore that it would change.
LEMMA TextUnmarked ==
    ASSUME NEW x, IsMember(x), Separable(x)
    PROVE  Unmarked(JniCode, "/", JniMarks, JniText(x))
<1>1. PICK u : u = "_"
  BY Zenon
<1>2. PICK z : z = ";"
  BY Zenon
<1>3. u \notin JniMarks /\ JniMarks \subseteq Digits
  BY <1>1, Zenon DEF JniMarks, Digits
<1> DEFINE t == JniText(x)
<1>4. t \in Seq(JniChar)
  BY TextEncoded
<1>5. \A i \in 1..Len(t) : t[i] = "/" /\ i + 1 \in 1..Len(t)
         => t[i + 1] \notin Digits
  BY DEF Separable
<1> HIDE DEF t
<1>6. ASSUME NEW c \in JniChar, c \notin Digits
      PROVE  JniCode[c][1] \notin JniMarks
  <2>1. \/ JniCode[c] = <<c>>
        \/ JniCode[c] = <<u>>
        \/ JniCode[c] = <<u, "2">>
        \/ JniCode[c] = <<u, "3">>
        \/ Hex[c] \in HexCode /\ JniCode[c] = <<u, "0">> \o Hex[c]
    BY <1>1, <1>2, CodeForms
  <2>2. Hex[c] \in HexCode => (<<u, "0">> \o Hex[c])[1] = u
    BY SixFacts
  <2>3. JniCode[c][1] = c \/ JniCode[c][1] = u
    BY <2>1, <2>2
  <2> QED BY <1>3, <1>6, <2>3
<1>7. \A i \in 1..Len(t) : t[i] \in JniChar
  BY <1>4
<1>8. Unmarked(JniCode, "/", JniMarks, t)
  BY <1>5, <1>6, <1>7 DEF Unmarked
<1> QED BY <1>8 DEF t

\* Every c in a is followed by another character of a, and p begins with two.
Single(a, c) ==
    \A i \in 1..Len(a) : a[i] = c => i + 1 \in 1..Len(a) /\ a[i + 1] # c
Doubled(p, c) == Len(p) > 1 /\ p[1] = c /\ p[2] = c

LEMMA NotLonger ==
    ASSUME NEW S, NEW a \in Seq(S), NEW b \in Seq(S),
           NEW p \in Seq(S), NEW q \in Seq(S), NEW c,
           Doubled(p, c), Single(b, c), a \o p = b \o q
    PROVE  Len(a) >= Len(b)
<1>0. Len(a) \in Nat /\ Len(b) \in Nat
  OBVIOUS
<1> SUFFICES ASSUME Len(a) < Len(b) PROVE FALSE
  BY <1>0
<1> DEFINE m == a \o p
           k == Len(a) + 1
<1>1. m[Len(a) + 1] = c /\ m[Len(a) + 2] = c
  <2>1. 1 \in 1..Len(p) /\ 2 \in 1..Len(p) /\ p[1] = c /\ p[2] = c
    BY DEF Doubled
  <2>2. JoinedRight(S, a, p)
    BY JoinedFacts, Zenon
  <2> QED BY <2>1, <2>2, Zenon DEF JoinedRight
<1>2. \A i \in 1..Len(b) : m[i] = b[i]
  <2>1. JoinedRight(S, b, q)
    BY JoinedFacts, Zenon
  <2> QED BY <2>1, Zenon DEF JoinedRight
<1> HIDE DEF m
<1>3. k \in 1..Len(b) /\ k + 1 = Len(a) + 2
  BY <1>0
<1>4. b[k] = c
  BY <1>1, <1>2, <1>3
<1> HIDE DEF k
<1>5. k + 1 \in 1..Len(b) /\ b[k + 1] # c
  BY <1>3, <1>4 DEF Single
<1> QED BY <1>1, <1>2, <1>3, <1>5

\* Two strings split at the first two characters c in a row have the same parts.
LEMMA SplitDouble ==
    ASSUME NEW S, NEW a \in Seq(S), NEW b \in Seq(S),
           NEW p \in Seq(S), NEW q \in Seq(S), NEW c,
           Single(a, c), Doubled(p, c), Single(b, c), Doubled(q, c),
           a \o p = b \o q
    PROVE  a = b /\ p = q
<1>1. Len(a) >= Len(b) /\ Len(b) >= Len(a)
  BY NotLonger
<1>2. Len(a) \in Nat /\ Len(b) \in Nat
  OBVIOUS
<1>3. Len(a) = Len(b)
  BY <1>1, <1>2
<1> QED BY <1>3, SameParts

LEMMA SingleJoin ==
    ASSUME NEW S, NEW a \in Seq(S), NEW b \in Seq(S), NEW c,
           Single(a, c), Single(b, c)
    PROVE  Single(a \o b, c)
<1> DEFINE m == a \o b
<1>1. /\ Len(a) \in Nat /\ Len(b) \in Nat /\ Len(m) = Len(a) + Len(b)
      /\ \A i \in 1..Len(a) : m[i] = a[i]
      /\ \A i \in 1..Len(b) : m[Len(a) + i] = b[i]
  BY Concatenation
<1> HIDE DEF m
<1>2. ASSUME NEW i \in 1..Len(m), m[i] = c
      PROVE  i + 1 \in 1..Len(m) /\ m[i + 1] # c
  <2>1. CASE i <= Len(a)
    <3>1. i \in 1..Len(a)
      BY <1>1, <2>1
    <3>2. i + 1 \in 1..Len(a) /\ a[i + 1] # c
      BY <1>1, <1>2, <3>1 DEF Single
    <3> QED BY <1>1, <3>2
  <2>2. CASE ~(i <= Len(a))
    <3> DEFINE j == i - Len(a)
    <3>1. j \in 1..Len(b) /\ Len(a) + j = i /\ j \in Nat
      BY <1>1, <2>2
    <3> HIDE DEF j
    <3>2. b[j] = c
      BY <1>1, <1>2, <3>1
    <3>3. j + 1 \in 1..Len(b) /\ b[j + 1] # c
      BY <3>1, <3>2 DEF Single
    <3>4. Len(a) + (j + 1) = i + 1
      <4>1. ASSUME NEW l \in Nat, NEW n \in Nat, l + n = i
            PROVE  l + (n + 1) = i + 1
        BY <4>1
      <4> QED BY <1>1, <3>1, <4>1
    <3>5. m[Len(a) + (j + 1)] = b[j + 1] /\ Len(a) + (j + 1) \in 1..Len(m)
      BY <1>1, <3>1, <3>3
    <3> QED BY <3>3, <3>4, <3>5
  <2> QED BY <2>1, <2>2
<1>3. Single(m, c)
  BY <1>2 DEF Single
<1> QED BY <1>3 DEF m

\* The character c is the first of p and nowhere behind it.
Led(p, c) == StartsWith(p, c) /\ \A i \in 2..Len(p) : p[i] # c

LEMMA NotBefore ==
    ASSUME NEW S, NEW a \in Seq(S), NEW b \in Seq(S),
           NEW p \in Seq(S), NEW q \in Seq(S), NEW c,
           Led(p, c), StartsWith(q, c), a \o p = b \o q
    PROVE  Len(a) >= Len(b)
<1>0. /\ Len(a) \in Nat /\ Len(b) \in Nat /\ Len(p) \in Nat /\ Len(q) \in Nat
      /\ Len(q) > 0
  BY DEF StartsWith
<1> SUFFICES ASSUME Len(a) < Len(b) PROVE FALSE
  BY <1>0
<1> DEFINE m == a \o p
           k == Len(b) + 1 - Len(a)
<1>1. /\ Len(m) = Len(a) + Len(p)
      /\ \A i \in 1..Len(p) : m[Len(a) + i] = p[i]
  <2>1. JoinedRight(S, a, p)
    BY JoinedFacts, Zenon
  <2> QED BY <2>1, Zenon DEF JoinedRight
<1>2. Len(m) = Len(b) + Len(q) /\ m[Len(b) + 1] = c
  <2>1. 1 \in 1..Len(q) /\ q[1] = c
    BY <1>0 DEF StartsWith
  <2>2. JoinedRight(S, b, q)
    BY JoinedFacts, Zenon
  <2> QED BY <2>1, <2>2, Zenon DEF JoinedRight
<1> HIDE DEF m
<1>3. k \in 2..Len(p) /\ k \in 1..Len(p) /\ Len(a) + k = Len(b) + 1
  BY <1>0, <1>1, <1>2
<1> HIDE DEF k
<1>4. m[Len(a) + k] = p[k] /\ p[k] # c
  BY <1>1, <1>3 DEF Led
<1> QED BY <1>2, <1>3, <1>4

\* Two strings split at the last character c have the same parts.
LEMMA SplitLast ==
    ASSUME NEW S, NEW a \in Seq(S), NEW b \in Seq(S),
           NEW p \in Seq(S), NEW q \in Seq(S), NEW c,
           Led(p, c), Led(q, c), a \o p = b \o q
    PROVE  a = b /\ p = q
<1>1. Len(a) >= Len(b) /\ Len(b) >= Len(a)
  BY NotBefore DEF Led
<1>2. Len(a) \in Nat /\ Len(b) \in Nat
  OBVIOUS
<1>3. Len(a) = Len(b)
  BY <1>1, <1>2
<1> QED BY <1>3, SameParts

\* Class names can be read back from what the mangler makes of their periods.
LEMMA SlashesFacts ==
    ASSUME NEW x, IsMember(x), Separable(x)
    PROVE  /\ Len(Slashes(x.class)) = Len(x.class)
           /\ Single(Slashes(x.class), "/")
           /\ \A i \in 1..Len(x.class) :
                 x.class[i] = IF Slashes(x.class)[i] = "/" THEN "."
                              ELSE Slashes(x.class)[i]
<1> DEFINE c == x.class
           s == Slashes(c)
<1>1. /\ c \in Seq(NameChar) /\ Len(c) \in Nat /\ DOMAIN c = 1..Len(c)
      /\ s \in Seq(Escaped) /\ DOMAIN s = 1..Len(s) /\ Len(s) \in Nat
  BY MemberFacts
<1>2. \A i \in 1..Len(c) :
         /\ c[i] # "/"
         /\ c[i] = "." => i + 1 \in 1..Len(c) /\ c[i + 1] # "."
  BY DEF Separable
<1>3. /\ DOMAIN s = 1..Len(c)
      /\ \A i \in 1..Len(c) : s[i] = IF c[i] = "." THEN "/" ELSE c[i]
  BY <1>1 DEF Slashes
<1> HIDE DEF c, s
<1>4. Len(s) = Len(c)
  <2>1. ASSUME NEW k \in Nat, NEW l \in Nat, 1..k = 1..l PROVE k = l
    BY <2>1
  <2> QED BY <1>1, <1>3, <2>1
<1>5. \A i \in 1..Len(c) : c[i] = IF s[i] = "/" THEN "." ELSE s[i]
  BY <1>2, <1>3
<1>6. Single(s, "/")
  BY <1>2, <1>3, <1>4, <1>5 DEF Single
<1> QED BY <1>4, <1>5, <1>6 DEF c, s

\* Five parts, put together from the left, are the first three and the rest.
Halves(a, b, c, d, e) ==
    a \o (b \o c \o d \o e) = (a \o (b \o c)) \o (d \o e)

LEMMA FiveHalves ==
    ASSUME NEW S, NEW a \in Seq(S), NEW b \in Seq(S), NEW c \in Seq(S),
           NEW d \in Seq(S), NEW e \in Seq(S)
    PROVE  Halves(a, b, c, d, e)
<1> DEFINE Cat(s, t) == s \o t
           T == Seq(S)
<1>1. ASSUME NEW s \in T, NEW t \in T, NEW u \in T
      PROVE  Cat(Cat(s, t), u) = Cat(s, Cat(t, u))
  BY ConcatAssociative, SMTT(60) DEF Cat
<1>2. ASSUME NEW s \in T, NEW t \in T PROVE Cat(s, t) \in T
  OBVIOUS
<1>3. a \in T /\ b \in T /\ c \in T /\ d \in T /\ e \in T
  OBVIOUS
<1> HIDE DEF Cat, T
<1>4. Cat(a, Cat(Cat(Cat(b, c), d), e)) = Cat(Cat(a, Cat(b, c)), Cat(d, e))
  BY <1>1, <1>2, <1>3
<1> QED BY <1>4 DEF Cat, Halves

\* The text of a member that is no instantiator: what is before the two slashes
\* at its name's end, and the slash at its name's beginning.
TextBefore(x) == Slashes(x.class) \o (<<"/">> \o x.name)
TextAfter(x) == <<"/", "/">> \o Signature(x)

LEMMA TextSplit ==
    ASSUME NEW x, IsMember(x), Separable(x), x.kind # "instantiator"
    PROVE  /\ JniText(x) = TextBefore(x) \o TextAfter(x)
           /\ TextBefore(x) \in Seq(Escaped) /\ TextAfter(x) \in Seq(Escaped)
           /\ <<"/">> \o x.name \in Seq(Escaped)
           /\ Single(TextBefore(x), "/") /\ Doubled(TextAfter(x), "/")
           /\ Led(<<"/">> \o x.name, "/")
<1>1. PICK u : u = "/"
  BY Zenon
<1> DEFINE c == Slashes(x.class)
           n == x.name
           d == Signature(x)
           p == <<u>> \o n
           q == <<u, u>> \o d
<1>2. c \in Seq(Escaped) /\ n \in Seq(Escaped) /\ d \in Seq(Escaped)
  BY MemberFacts
<1>3. /\ JniText(x) = c \o (<<u>> \o n \o <<u, u>> \o d)
      /\ TextBefore(x) = c \o p /\ TextAfter(x) = q
      /\ <<"/">> \o x.name = p
  BY <1>1, Zenon DEF JniText, TextBefore, TextAfter
<1>4. n # <<>> /\ \A i \in 1..Len(n) : n[i] # u
  BY <1>1 DEF Separable, Without
<1>5. Single(c, u)
  BY <1>1, SlashesFacts
<1>6. u \in Escaped
  BY <1>1 DEF Escaped
<1> HIDE DEF c, n, d
<1>7. <<u>> \in Seq(Escaped) /\ <<u, u>> \in Seq(Escaped)
  BY <1>6, OneElement
<1>8. p \in Seq(Escaped) /\ q \in Seq(Escaped) /\ c \o p \in Seq(Escaped)
  <2>1. \A a, b \in Seq(Escaped) : a \o b \in Seq(Escaped)
    OBVIOUS
  <2> HIDE DEF p, q
  <2> QED BY <1>2, <1>7, <2>1 DEF p, q
<1>9. JniText(x) = (c \o p) \o q
  <2>1. Halves(c, <<u>>, n, <<u, u>>, d)
    BY <1>2, <1>7, FiveHalves, Zenon
  <2> QED BY <1>3, <2>1, Zenon DEF Halves
<1>10. /\ Len(p) = Len(n) + 1 /\ Len(n) \in Nat /\ Len(n) > 0 /\ p[1] = u
       /\ \A k \in 1..Len(n) : p[1 + k] = n[k]
  <2>1. Len(n) \in Nat /\ Len(n) > 0
    BY <1>2, <1>4
  <2> QED BY <1>2, <1>6, <2>1, Prepending
<1>11. Doubled(q, u)
  <2> DEFINE w == <<u, u>>
  <2>1. Len(w) = 2 /\ w[1] = u /\ w[2] = u
    OBVIOUS
  <2>2. w \in Seq(Escaped)
    BY <1>7
  <2> HIDE DEF w
  <2>3. JoinedRight(Escaped, w, d)
    BY <1>2, <2>2, JoinedFacts
  <2>4. Len(d) \in Nat
    BY <1>2
  <2>5. Len(w \o d) > 1 /\ (w \o d)[1] = u /\ (w \o d)[2] = u
    BY <2>1, <2>3, <2>4 DEF JoinedRight
  <2> QED BY <2>5 DEF Doubled, w
<1> HIDE DEF p, q
<1>12. ASSUME NEW i \in 2..Len(p) PROVE p[i] # u
  <2>1. i - 1 \in 1..Len(n) /\ 1 + (i - 1) = i
    BY <1>10
  <2> QED BY <1>4, <1>10, <2>1
<1>13. Led(p, u)
  BY <1>10, <1>12 DEF Led, StartsWith
<1>14. Single(p, u)
  <2>1. \A i \in 1..Len(p) : p[i] = u => i = 1
    BY <1>10, <1>12
  <2>2. 1 + 1 \in 1..Len(p) /\ p[1 + 1] # u
    BY <1>10, <1>12
  <2> QED BY <2>1, <2>2 DEF Single
<1>15. Single(c \o p, u)
  BY <1>2, <1>5, <1>8, <1>14, SingleJoin
<1> QED BY <1>1, <1>3, <1>8, <1>9, <1>11, <1>13, <1>15

\* What is in its text is all that a member has, but for the result of a method.
SameSource(x, y) ==
    x.kind = y.kind /\ x.class = y.class /\ x.name = y.name
    /\ Signature(x) = Signature(y)

LEMMA SameClass ==
    ASSUME NEW x, IsMember(x), Separable(x), NEW y, IsMember(y), Separable(y),
           Slashes(x.class) = Slashes(y.class)
    PROVE  x.class = y.class
<1>1. x.class \in Seq(NameChar) /\ y.class \in Seq(NameChar)
  BY MemberFacts
<1>2. /\ Len(x.class) = Len(y.class)
      /\ \A i \in 1..Len(x.class) : x.class[i] = y.class[i]
  BY SlashesFacts
<1> QED BY <1>1, <1>2, SeqEqual

LEMMA SameTextSameSource ==
    ASSUME NEW x, IsMember(x), Separable(x), NEW y, IsMember(y), Separable(y),
           x.kind = y.kind, JniText(x) = JniText(y)
    PROVE  SameSource(x, y)
<1>1. CASE x.kind = "instantiator"
  <2>1. x.class = y.class
    BY <1>1, SameClass DEF JniText
  <2>2. /\ x.name = <<>> /\ x.descriptor = <<>>
        /\ y.name = <<>> /\ y.descriptor = <<>>
    BY <1>1 DEF Separable
  <2> QED BY <2>1, <2>2 DEF SameSource, Signature
<1>2. CASE x.kind # "instantiator"
  <2>1. /\ JniText(x) = TextBefore(x) \o TextAfter(x)
        /\ TextBefore(x) \in Seq(Escaped) /\ TextAfter(x) \in Seq(Escaped)
        /\ <<"/">> \o x.name \in Seq(Escaped)
        /\ Single(TextBefore(x), "/") /\ Doubled(TextAfter(x), "/")
        /\ Led(<<"/">> \o x.name, "/")
    BY <1>2, TextSplit
  <2>2. /\ JniText(y) = TextBefore(y) \o TextAfter(y)
        /\ TextBefore(y) \in Seq(Escaped) /\ TextAfter(y) \in Seq(Escaped)
        /\ <<"/">> \o y.name \in Seq(Escaped)
        /\ Single(TextBefore(y), "/") /\ Doubled(TextAfter(y), "/")
        /\ Led(<<"/">> \o y.name, "/")
    BY <1>2, TextSplit
  <2>3. TextBefore(x) = TextBefore(y) /\ TextAfter(x) = TextAfter(y)
    BY <2>1, <2>2, SplitDouble
  <2>4. /\ Slashes(x.class) \in Seq(Escaped) /\ Slashes(y.class) \in Seq(Escaped)
        /\ x.name \in Seq(Escaped) /\ y.name \in Seq(Escaped)
        /\ Signature(x) \in Seq(Escaped) /\ Signature(y) \in Seq(Escaped)
    BY MemberFacts
  <2>5. Slashes(x.class) = Slashes(y.class) /\ <<"/">> \o x.name = <<"/">> \o y.name
    <3>1. Slashes(x.class) \o (<<"/">> \o x.name)
             = Slashes(y.class) \o (<<"/">> \o y.name)
      BY <2>3, Zenon DEF TextBefore
    <3> DEFINE a == Slashes(x.class)
               b == Slashes(y.class)
               p == <<"/">> \o x.name
               q == <<"/">> \o y.name
    <3>2. /\ a \in Seq(Escaped) /\ b \in Seq(Escaped)
          /\ p \in Seq(Escaped) /\ q \in Seq(Escaped)
          /\ Led(p, "/") /\ Led(q, "/") /\ a \o p = b \o q
      BY <2>1, <2>2, <2>4, <3>1
    <3> HIDE DEF a, b, p, q
    <3>3. a = b /\ p = q
      BY <3>2, SplitLast
    <3> QED BY <3>3 DEF a, b, p, q
  <2>6. ASSUME NEW p \in Seq(Escaped), NEW a \in Seq(Escaped),
               NEW b \in Seq(Escaped), p \o a = p \o b
        PROVE  a = b
    BY <2>6, SameParts
  <2>7. <<"/">> \in Seq(Escaped) /\ <<"/", "/">> \in Seq(Escaped)
    BY OneElement DEF Escaped
  <2>8. x.name = y.name
    BY <2>4, <2>5, <2>6, <2>7
  <2>9. Signature(x) = Signature(y)
    BY <2>3, <2>4, <2>6, <2>7 DEF TextAfter
  <2>10. x.class = y.class
    BY <2>5, SameClass
  <2> QED BY <2>8, <2>9, <2>10 DEF SameSource
<1> QED BY <1>1, <1>2

LEMMA PrefixesApart ==
    ASSUME NEW j \in Kinds, NEW k \in Kinds, Prefix[j] = Prefix[k]
    PROVE  j = k
BY DEF Kinds, Prefix

LEMMA JniInjective ==
    ASSUME NEW x, IsMember(x), Separable(x), NEW y, IsMember(y), Separable(y),
           JniName(x) = JniName(y)
    PROVE  SameSource(x, y)
<1> DEFINE W == IdentifierChar \cup {Prefix[k] : k \in Kinds}
           c == Prefix[x.kind]
           d == Prefix[y.kind]
           s == JniTail(x)
           t == JniTail(y)
<1>1. /\ s \in Seq(IdentifierChar) /\ t \in Seq(IdentifierChar)
      /\ <<c>> \o s = <<d>> \o t
  BY JniNameParts
<1>2. x.kind \in Kinds /\ y.kind \in Kinds
  BY MemberFacts
<1>3. IdentifierChar \subseteq W /\ c \in W /\ d \in W
  BY <1>2
<1> HIDE DEF W, c, d, s, t
<1>4. s \in Seq(W) /\ t \in Seq(W)
  BY <1>1, <1>3
<1>5. /\ <<c>> \in Seq(W) /\ <<d>> \in Seq(W)
      /\ Len(<<c>>) = Len(<<d>>) /\ <<c>>[1] = c /\ <<d>>[1] = d
  BY <1>3
<1>6. <<c>> = <<d>> /\ s = t
  BY <1>1, <1>4, <1>5, SameParts
<1>7. c = d
  BY <1>5, <1>6
<1>8. x.kind = y.kind
  BY <1>2, <1>7, PrefixesApart DEF c, d
<1>9. /\ JniText(x) \in Seq(JniChar) /\ JniText(y) \in Seq(JniChar)
      /\ Encoded(JniCode, JniText(x), s) /\ Encoded(JniCode, JniText(y), s)
  BY <1>6, TextEncoded DEF s, t
<1>10. JniText(x) = JniText(y)
  <2>1. /\ Unmarked(JniCode, "/", JniMarks, JniText(x))
        /\ Unmarked(JniCode, "/", JniMarks, JniText(y))
    BY TextUnmarked, Zenon
  <2>2. JniCode \in [JniChar -> Seq(IdentifierChar)]
    BY JniCodeFacts, Zenon
  <2> DEFINE a == JniText(x)
             b == JniText(y)
             V == IdentifierChar
  <2>3. /\ a \in Seq(JniChar) /\ b \in Seq(JniChar) /\ s \in Seq(V)
        /\ Encoded(JniCode, a, s) /\ Encoded(JniCode, b, s)
        /\ Unmarked(JniCode, "/", JniMarks, a)
        /\ Unmarked(JniCode, "/", JniMarks, b)
        /\ JniCode \in [JniChar -> Seq(V)]
    BY <1>1, <1>9, <2>1, <2>2
  <2> HIDE DEF a, b, V
  <2>4. a = b
    BY <2>3, JniPrefixFree, ReadBack
  <2> QED BY <2>4 DEF a, b
<1> QED BY <1>8, <1>10, SameTextSameSource

\* No class of the program has two methods that differ in their result only, as
\* a bridge method and the method it calls do.
WithoutBridges == \A x, y \in members : SameSource(x, y) => x = y

\* mangle.cc: the JNI mangler, which the driver uses, gives the members of a
\* program a symbol each, the same one in every unit, if nothing in their names is
\* an underscore, no part of one begins with a digit, and there are no bridge
\* methods.  Without the first p.A and p_A share their symbols.
THEOREM JniAlwaysAgrees ==
    Spec => []((mangler = "jni" /\ (\A x \in members : Separable(x))
                   /\ WithoutBridges) => UnitsAgree)
<1>1. TableInv /\ (NamesApart => UnitsAgree) =>
         ((mangler = "jni" /\ (\A x \in members : Separable(x))
             /\ WithoutBridges) => UnitsAgree)
  <2> SUFFICES ASSUME TableInv, mangler = "jni", WithoutBridges,
                      \A x \in members : Separable(x)
               PROVE  NamesApart
    OBVIOUS
  <2>1. \A x \in members : IsMember(x) /\ Mangled(x) = JniName(x)
    BY ManglerAssumption DEF TableInv, Mangled
  <2> QED BY <2>1, JniInjective DEF NamesApart, WithoutBridges
<1> QED BY <1>1, TableAlways, ApartAgree, PTL
=============================================================================
