----------------------------- MODULE MCPrograms -----------------------------
(* Method bodies as a Java compiler lays them out: statements, conditionals *)
(* and loops that leave nothing on the operand stack.                       *)
EXTENDS Integers, Sequences

LOCAL I(op, type, arg) == [op |-> op, type |-> type, arg |-> arg]

\* Locals: the parameters long l in slot 0 and int a in slot 2; slot 3 is used
\* for any type.
Const(t) == I("const", t, 0)
Load(t, s) == I("load", t, s)
Store(t, s) == I("store", t, s)
Jump(op, d) == I(op, "void", d)
Ret(t) == I("return", t, 0)

Simple == {
    \* a = f(a, a + 1)
    <<Load("int", 2), Load("int", 2), Const("int"), I("binary", "int", 0),
      I("invoke", "int", 2), Store("int", 2)>>,
    \* l = (long) a
    <<Load("int", 2), I("cast", "long", 0), Store("long", 0)>>,
    \* { int t = a = 1; }
    <<Const("int"), I("dup", "void", 0), Store("int", 2), Store("int", 3)>>,
    \* { int t = a; a = 1; a = t; }  { long t = l; l = t; }
    <<Load("int", 2), Store("int", 3), Const("int"), Store("int", 2),
      Load("int", 3), Store("int", 2)>>,
    <<Load("long", 0), Store("long", 3), Load("long", 3), Store("long", 0)>>,
    \* g("...")
    <<Const("object"), I("invoke", "void", 1)>>,
    \* if (a == 0) return a, and what follows
    <<Load("int", 2), Jump("if", 3), Load("int", 2), Ret("int")>>}

If(s) == <<Load("int", 2), Jump("if", Len(s) + 1)>> \o s

IfElse(s, t) == <<Load("int", 2), Const("int"), Jump("ifcmp", Len(s) + 2)>>
                \o s \o <<Jump("goto", Len(t) + 1)>> \o t

While(s) == <<Load("int", 2), Jump("if", Len(s) + 2)>> \o s
            \o <<Jump("goto", -(Len(s) + 2))>>

DoWhile(s) == s \o <<Load("int", 2), Jump("if", -(Len(s) + 1))>>

Nested == {If(s) : s \in Simple} \cup {While(s) : s \in Simple}

Compound == Simple \cup Nested
    \cup {IfElse(s, t) : s \in Simple, t \in Simple}
    \cup {DoWhile(s) : s \in Simple}
    \cup {While(If(s)) : s \in Simple} \cup {If(While(s)) : s \in Simple}

Java(code) == [params |-> <<"long", "int">>, code |-> code]

Statements ==
    {Java(s \o <<Load("int", 2), Ret("int")>>) : s \in Compound}
    \cup {Java(s \o t \o <<Load("int", 2), Ret("int")>>) :
             s \in Simple, t \in Nested}

\* for (;;) ...: the code ends with a branch.
Endless == {Java(s \o <<Jump("goto", -Len(s))>>) : s \in Simple}

\* An opcode the compiler does not know.
Refused == {Java(<<Load("int", 2), I("unknown", "void", 0), Ret("void")>>)}

\* Legal code whose second block is reached with a value on the stack from a
\* block that lies behind it.
Backwards == {Java(<<Jump("goto", 3), Store("int", 2), Ret("void"),
                     Const("int"), Jump("goto", -3)>>)}

\* Legal code with a conditional expression, a == 0 ? 1 : 2, above a long that
\* is stored after it: both arms leave their value to one store.
Conditional == {Java(<<Const("long"), Load("int", 2), Jump("if", 3),
                       Const("int"), Jump("goto", 2), Const("int"),
                       Store("int", 2), Store("long", 0), Ret("void")>>)}

JavaMethods == Statements \cup Endless
AllMethods == JavaMethods \cup Refused \cup Backwards
=============================================================================
