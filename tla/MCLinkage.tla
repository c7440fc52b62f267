------------------------------ MODULE MCLinkage ------------------------------
(* Small, legal class paths for Linkage: three classes that refer to each   *)
(* other, up, down and across the hierarchy.                                *)
EXTENDS Linkage, TLC

CONSTANTS A, B, C, Gone, m1, n1, init, f, g

Names == {A, B, C, Gone}

Inst(o, c, k) == [op |-> o, class |-> c, member |-> k]

\* Bodies that refer to methods ...
Calls == {<<>>,
          <<Inst("invokevirtual", A, m1)>>,
          <<Inst("invokevirtual", B, m1), Inst("invokespecial", A, init)>>,
          <<Inst("new", C, None), Inst("invokevirtual", C, m1)>>,
          <<Inst("invokevirtual", B, n1)>>,
          <<Inst("invokestatic", Gone, m1), Inst("new", B, None)>>}

\* ... and to the fields f (instance) and g (static) of A and f of B.
Accesses == {<<Inst("getfield", A, f), Inst("putstatic", A, g)>>,
             <<Inst("putfield", B, f), Inst("getstatic", A, g)>>}

Bodies == Calls \cup Accesses

Plain(k, b) == [key |-> k, static |-> FALSE, final |-> FALSE,
                native |-> FALSE, code |-> b]
Final(k, b) == [Plain(k, b) EXCEPT !.final = TRUE]
Native(k) == [Plain(k, <<>>) EXCEPT !.native = TRUE, !.code = None]

Var(name, s) == [name |-> name, static |-> s]

File(s, fin, fs, ms) ==
    [super |-> s, final |-> fin, fields |-> fs, methods |-> ms]

AFiles == {File(None, FALSE, <<Var(f, FALSE), Var(g, TRUE)>>,
                <<Plain(m1, b), Plain(init, b)>>) : b \in Bodies}
BFiles == {File(A, fin, <<Var(f, FALSE)>>, ms) :
             fin \in BOOLEAN,
             ms \in {<<>>, <<Native(m1)>>, <<Final(n1, <<>>)>>}
                    \cup {<<Plain(m1, b)>> : b \in Bodies}
                    \cup {<<Final(m1, b)>> : b \in Calls}}
CFiles == {File(s, TRUE, <<>>, ms) :
             s \in {A, B},
             ms \in {<<>>} \cup {<<Plain(m1, b)>> : b \in Bodies}}
          \cup {File(s, FALSE, <<>>, <<Plain(m1, <<>>)>>) : s \in {A, B}}

\* No class extends a final class or overrides a final method.
Legal(fs) ==
    \A c, d \in DOMAIN fs : fs[c].super = d =>
        /\ ~fs[d].final
        /\ \A i \in DOMAIN fs[d].methods : fs[d].methods[i].final =>
              \A j \in DOMAIN fs[c].methods :
                  fs[c].methods[j].key # fs[d].methods[i].key

MCClassPaths ==
    {fs \in {A :> fa @@ B :> fb @@ C :> fc :
               fa \in AFiles, fb \in BFiles, fc \in CFiles} : Legal(fs)}

MCDrivers == {<<C>>, <<B, C>>, <<C, B>>}
=============================================================================
