----------------------------- MODULE MCClassPool -----------------------------
(* Small class paths and driver sequences for ClassPool.                   *)
EXTENDS ClassPool, TLC

CONSTANTS A, B, C, Gone,        \* class names; Gone is never on the class path
          m1, n1, init, body      \* method keys and a method body

Names == {A, B, C, Gone}

Plain(k) == [key |-> k, static |-> FALSE, final |-> FALSE,
             native |-> FALSE, code |-> body]
Final(k) == [Plain(k) EXCEPT !.final = TRUE]
Static(k) == [Plain(k) EXCEPT !.static = TRUE]
Native(k) == [Plain(k) EXCEPT !.native = TRUE, !.code = None]
Abstract(k) == [Plain(k) EXCEPT !.code = None]

\* Bodies of a class: what it declares, in order.
Members == {<<>>,
            <<Plain(m1), Plain(n1)>>,
            <<Plain(init), Final(m1)>>,
            <<Static(n1), Plain(m1)>>,
            <<Final(n1), Native(m1)>>}

\* super classes of A, B and C: a chain, two siblings, a tree whose root is
\* asked for last, two circles, and a chain that leaves the class path.
Hierarchies == {[a |-> None, b |-> A, c |-> B],
                [a |-> None, b |-> A, c |-> A],
                [a |-> None, b |-> C, c |-> A],
                [a |-> B, b |-> A, c |-> None],
                [a |-> A, b |-> None, c |-> B],
                [a |-> None, b |-> Gone, c |-> B]}

File(s, f, ms) ==
    [super |-> s, final |-> f, fields |-> <<>>, methods |-> ms]

HierarchyPath(h, f, ma, mb, mc) ==
    A :> File(h.a, FALSE, ma) @@ B :> File(h.b, FALSE, mb) @@
    C :> File(h.c, f, mc)

MCClassPaths ==
    {HierarchyPath(h, f, ma, mb, mc) :
        h \in Hierarchies, f \in BOOLEAN,
        ma \in Members, mb \in Members, mc \in Members}
    \cup {HierarchyPath([a |-> None, b |-> A, c |-> B], FALSE,
                        <<Abstract(n1)>>, <<Plain(m1), Plain(n1)>>, <<>>)}

\* main asks for one root; a longer sequence is a driver that asks for more,
\* among them a class it has had already and one nobody knows.
MCDrivers == {<<C>>, <<B, C, B>>, <<Gone, A, B>>, <<Gone>>}
=============================================================================
