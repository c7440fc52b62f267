---------------------------- MODULE VerifiedCode ----------------------------
(***************************************************************************)
(* What the verifier of a JVM knows of the bytecode that it lets through:  *)
(* the types on the operand stack and in the local variables before each   *)
(* instruction, whichever path led there.  The compiler reads no such      *)
(* table and checks nothing; it relies on every method having one.         *)
(***************************************************************************)
EXTENDS MethodExecution

CONSTANTS Frames        \* method -> address -> the types there

\* The locals are pairs of a slot and the type that a load may ask of it.
Frame == [stack : Seq(Types), locals : SUBSET (Int \X Types)]

Pushing == {"const", "load", "binary", "cast", "invoke"}

\* The stack s after the instruction i, which makes the value made.
After(i, s, made) ==
    LET rest == SubSeq(s, 1, Len(s) - Pops(i))
    IN CASE i.op = "dup" -> Append(s, s[Len(s)])
         [] i.op \in Pushing /\ i.type # "void" -> Append(rest, made)
         [] OTHER -> rest

LocalsAfter(i, locals) ==
    IF i.op # "store" THEN locals
    ELSE {l \in locals : l[1] # i.arg} \cup {<<i.arg, i.type>>}

\* Where the instruction i at the address a leads.
Nexts(i, a) ==
    CASE i.op = "goto" -> {a + i.arg}
      [] i.op \in {"if", "ifcmp"} -> {a + i.arg, a + 1}
      [] i.op \in {"return", "unknown"} -> {}
      [] OTHER -> {a + 1}

\* An instruction finds its operands.
Accepts(i, f) ==
    /\ Len(f.stack) >= IF i.op = "dup" THEN 1 ELSE Pops(i)
    /\ i.op \in {"const", "load"} => i.type \in Types
    /\ i.op = "load" => <<i.arg, i.type>> \in f.locals
    /\ i.op = "store" => f.stack[Len(f.stack)] = i.type

\* One address may be reached with more locals than are known to be there.
Merges(i, f, g) ==
    /\ g.stack = After(i, f.stack, i.type)
    /\ g.locals \subseteq LocalsAfter(i, f.locals)

Verified(m, frames) ==
    /\ frames \in [0..(Len(m.code) - 1) -> Frame]
    /\ frames[0].stack = <<>>
    /\ frames[0].locals \subseteq
          {<<SlotOf(m.params, i), m.params[i]>> : i \in DOMAIN m.params}
    /\ \A a \in DOMAIN frames :
          /\ Accepts(m.code[a + 1], frames[a])
          /\ \A b \in Nexts(m.code[a + 1], a) :
                /\ b \in DOMAIN frames
                /\ Merges(m.code[a + 1], frames[a], frames[b])

ASSUME FramesAssumption == \A m \in Methods : Verified(m, Frames[m])

\* The method keeps nothing on the stack from one block to another: a branch
\* leaves nothing, neither where it leads nor behind it, and a return leaves
\* nothing.  This is how a Java compiler lays out everything but conditional
\* expressions and the logical operators inside of other expressions.
InStatements(m) ==
    \A a \in 0..(Len(m.code) - 1) :
        LET i == m.code[a + 1]
            behind == {a + i.arg, a + 1} \cap 0..(Len(m.code) - 1)
        IN /\ i.op \in BranchOps =>
                 \A b \in behind : Frames[m][b].stack = <<>>
           /\ i.op = "return" => Len(Frames[m][a].stack) = Pops(i)

\* environment.cc and the emitters pop the stack without asking whether there
\* is anything on it.  Laid out in statements, verified code always finds its
\* operands there, although the blocks are emitted in the order of their
\* addresses; other code does not.
OperandsPresent == InStatements(method) => outcome # "undefined"
=============================================================================
