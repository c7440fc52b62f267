------------------------ MODULE MethodExecutionProofs ------------------------
(***************************************************************************)
(* Proofs that the emitted code does what the bytecode does, for methods   *)
(* of any length and shape that the verifier of a JVM lets through.  The   *)
(* compilation goes over the code once; the program goes over the outcome  *)
(* along any path, any number of times.                                    *)
(*                                                                         *)
(* What the compiler had on its stack is gone when the program runs, so    *)
(* the invariant says that there IS such a record of it: of each           *)
(* instruction, the values that were on the stack before it.               *)
(***************************************************************************)
EXTENDS MethodCodegenProofs, VerifiedCode

-----------------------------------------------------------------------------
(* The steps of the compilation                                            *)

\* The blocks that the branch or return at a leads to.
Exits(a) ==
    CASE InstAt(a).op \in {"if", "ifcmp"} -> <<Target(a), a + 1>>
      [] InstAt(a).op = "goto" -> <<Target(a)>>
      [] OTHER -> <<>>

\* The code that was emitted stays, and so does the place.
Waits == UNCHANGED <<method, block, pos, stack, operands, term, outcome>>

Operands == [i \in DOMAIN Args |-> Args[i].def]

\* What an instruction does, whichever it is.
Emission ==
    /\ Compiling /\ pos \in Addresses /\ pos < BlockEnd(block)
    /\ Inst.op # "unknown"
    /\ Len(stack) >= IF Inst.op = "dup" THEN 1 ELSE Pops(Inst)
    /\ method' = method /\ block' = block /\ pos' = pos + 1
    /\ operands' = Put(operands, pos, Operands)
    /\ outcome' \in {"compiling", "aborted", "BadBytecode"}
    /\ outcome' = "aborted" => Inst.op = "store" /\ Args[1].type # Inst.type
    /\ outcome' = "compiling" /\ (Inst.op \in {"const", "load"} =>
                                     Inst.type \in Types)
          => stack' = After(Inst, stack, Made(Inst.type))
    /\ term' = IF Inst.op \in BranchOps \cup {"return"}
               THEN Put(term, block, Exits(pos)) ELSE term

Refuses ==
    /\ Compiling /\ pos \in Addresses
    /\ \/ outcome' = "BadBytecode"
       \/ /\ outcome' = "undefined"
          /\ Len(stack) < IF Inst.op = "dup" THEN 1 ELSE Pops(Inst)
    /\ UNCHANGED <<method, block, pos, stack, operands, term>>

Closes ==
    /\ Compiling /\ pos = BlockEnd(block)
    /\ UNCHANGED <<method, stack, operands>>
    /\ term' = IF block \in DOMAIN term THEN term
               ELSE Put(term, block, <<BlockEnd(block)>>)
    /\ IF Later(block) = {}
       THEN outcome' = "emitted" /\ UNCHANGED <<block, pos>>
       ELSE outcome' = outcome /\ block' = BlockEnd(block) /\ pos' = block'

\* A step of the compilation is one of these four.
LEMMA StepKinds ==
    ASSUME TypeInv, TermInv, TermInv', [Next]_vars
    PROVE  Waits \/ Emission \/ Refuses \/ Closes
<1>1. /\ method \in Methods /\ Leaders \subseteq 0..CodeLength
      /\ block \in Leaders /\ pos \in block..BlockEnd(block)
      /\ BlockEnd(block) \in 0..CodeLength /\ CodeLength \in Nat
      /\ stack \in Seq(StackValue)
      /\ outcome \in Outcomes
  BY LeaderFacts, BlockEndFacts, CodeFacts
     DEF TypeInv, TypeOK, Located, StackValue
<1>2. pos < BlockEnd(block) => pos \in Addresses
  BY <1>1 DEF Addresses
<1>3. ASSUME NEW ops, Emits(ops)
      PROVE  /\ Compiling /\ pos \in Addresses /\ pos < BlockEnd(block)
             /\ Inst.op \in ops /\ Len(stack) >= Pops(Inst)
             /\ method' = method /\ block' = block /\ pos' = pos + 1
             /\ operands' = Put(operands, pos, Operands)
  BY <1>3, EmitsFacts DEF Emits, Use, Operands, AtInst
<1>4. outcome' # "out_of_range"
  BY DEF TermInv, BlocksFound
<1>5. CASE CopyParameter
  BY <1>5 DEF CopyParameter, Waits
<1>6. CASE EmitConst
  <2>1. Emits({"const"}) /\ stack' = Append(stack, Made(Inst.type))
        /\ UNCHANGED <<term, outcome>>
    BY <1>6 DEF EmitConst, Emits
  <2>2. Inst.op = "const" /\ Pops(Inst) = 0 /\ Compiling
    BY <1>3, <2>1 DEF Pops
  <2>3. SubSeq(stack, 1, Len(stack) - 0) = stack
    BY <1>1
  <2>4. Inst.type \in Types => stack' = After(Inst, stack, Made(Inst.type))
    BY <2>1, <2>2, <2>3 DEF After, Pushing, Types
  <2> QED BY <1>3, <2>1, <2>2, <2>4 DEF Emission, Compiling, BranchOps
<1>7. CASE EmitLocalLoad
  <2>1. Emits({"load"}) /\ stack' = Append(stack, Made(Inst.type))
        /\ UNCHANGED <<term, outcome>>
    BY <1>7 DEF EmitLocalLoad, Emits
  <2>2. Inst.op = "load" /\ Pops(Inst) = 0 /\ Compiling
    BY <1>3, <2>1 DEF Pops
  <2>3. SubSeq(stack, 1, Len(stack) - 0) = stack
    BY <1>1
  <2>4. Inst.type \in Types => stack' = After(Inst, stack, Made(Inst.type))
    BY <2>1, <2>2, <2>3 DEF After, Pushing, Types
  <2> QED BY <1>3, <2>1, <2>2, <2>4 DEF Emission, Compiling, BranchOps
<1>8. CASE EmitLocalStore
  <2>1. Emits({"store"}) /\ stack' = Rest /\ term' = term
        /\ outcome' = IF Args[1].type = Inst.type THEN outcome ELSE "aborted"
    BY <1>8 DEF EmitLocalStore, Emits
  <2>2. Inst.op = "store" /\ Compiling
    BY <1>3, <2>1
  <2>3. stack' = After(Inst, stack, Made(Inst.type))
    BY <2>1, <2>2 DEF After, Pushing, Rest
  <2> QED BY <1>3, <2>1, <2>2, <2>3 DEF Emission, Compiling, BranchOps
<1>9. CASE EmitDup
  <2>1. Emits({"dup"}) /\ stack # <<>> /\ term' = term
        /\ \/ stack' = Append(stack, stack[Len(stack)]) /\ outcome' = outcome
           \/ outcome' = "BadBytecode"
    BY <1>9 DEF EmitDup, Emits
  <2>2. Inst.op = "dup" /\ Compiling
    BY <1>3, <2>1
  <2>3. outcome' = "BadBytecode" \/ stack' = After(Inst, stack, Made(Inst.type))
    BY <2>1, <2>2 DEF After, Pushing
  <2>4. Len(stack) >= 1
    BY <1>1, <2>1
  <2> QED BY <1>3, <2>1, <2>2, <2>3, <2>4 DEF Emission, Compiling, BranchOps
<1>10. CASE EmitOperation
  <2>1. /\ Emits({"binary", "cast", "invoke"})
        /\ stack' = IF Inst.type = "void" THEN Rest
                                          ELSE Append(Rest, Made(Inst.type))
        /\ UNCHANGED <<term, outcome>>
    BY <1>10 DEF EmitOperation, Emits
  <2>2. Inst.op \in {"binary", "cast", "invoke"} /\ Compiling
    BY <1>3, <2>1
  <2>3. stack' = After(Inst, stack, Made(Inst.type))
    BY <2>1, <2>2 DEF After, Pushing, Rest
  <2> QED BY <1>3, <2>1, <2>2, <2>3 DEF Emission, Compiling, BranchOps
<1>11. CASE EmitConditionalBranch
  <2>1. Emits({"if", "ifcmp"}) /\ stack' = Rest
        /\ Terminate(<<Target(pos), pos + 1>>)
    BY <1>11 DEF EmitConditionalBranch, Emits
  <2>2. Inst.op \in {"if", "ifcmp"} /\ Compiling
    BY <1>3, <2>1
  <2>3. stack' = After(Inst, stack, Made(Inst.type))
    BY <2>1, <2>2 DEF After, Pushing, Rest
  <2>4. term' = Put(term, block, Exits(pos)) /\ outcome' = outcome
    BY <1>4, <2>1, <2>2 DEF Terminate, Exits, Inst
  <2> QED BY <1>3, <2>1, <2>2, <2>3, <2>4 DEF Emission, Compiling, BranchOps
<1>12. CASE EmitGoto
  <2>1. Emits({"goto"}) /\ stack' = stack /\ Terminate(<<Target(pos)>>)
    BY <1>12 DEF EmitGoto, Emits
  <2>2. Inst.op = "goto" /\ Pops(Inst) = 0 /\ Compiling
    BY <1>3, <2>1 DEF Pops
  <2>3. stack' = After(Inst, stack, Made(Inst.type))
    <3>1. SubSeq(stack, 1, Len(stack) - 0) = stack
      BY <1>1
    <3> QED BY <2>1, <2>2, <3>1 DEF After, Pushing
  <2>4. term' = Put(term, block, Exits(pos)) /\ outcome' = outcome
    BY <1>4, <2>1, <2>2 DEF Terminate, Exits, Inst
  <2> QED BY <1>3, <2>1, <2>2, <2>3, <2>4 DEF Emission, Compiling, BranchOps
<1>13. CASE EmitReturn
  <2>1. Emits({"return"}) /\ stack' = Rest
        /\ term' = Put(term, block, <<>>) /\ outcome' = outcome
    BY <1>13 DEF EmitReturn, Emits
  <2>2. Inst.op = "return" /\ Compiling
    BY <1>3, <2>1
  <2>3. stack' = After(Inst, stack, Made(Inst.type)) /\ Exits(pos) = <<>>
    BY <2>1, <2>2 DEF After, Pushing, Rest, Exits, Inst
  <2> QED BY <1>3, <2>1, <2>2, <2>3 DEF Emission, Compiling, BranchOps
<1>14. CASE EmitUnknown
  <2>1. pos < BlockEnd(block) /\ Compiling
    BY <1>14 DEF EmitUnknown, AtInst
  <2> QED BY <1>2, <1>14, <2>1 DEF EmitUnknown, Refuses
<1>15. CASE PopEmpty
  <2>1. /\ pos < BlockEnd(block) /\ Compiling /\ outcome' = "undefined"
        /\ (Len(stack) < Pops(Inst) \/ (Inst.op = "dup" /\ stack = <<>>))
        /\ UNCHANGED <<method, block, pos, stack, operands, term>>
    BY <1>15 DEF PopEmpty
  <2>2. Len(stack) < IF Inst.op = "dup" THEN 1 ELSE Pops(Inst)
    <3>1. CASE Inst.op = "dup"
      BY <1>1, <2>1, <3>1 DEF Pops
    <3>2. CASE Inst.op # "dup"
      BY <2>1, <3>2
    <3> QED BY <3>1, <3>2
  <2> QED BY <1>2, <2>1, <2>2 DEF Refuses
<1>16. CASE EndBlock
  <2>1. /\ pos >= BlockEnd(block) /\ Compiling
        /\ UNCHANGED <<method, stack, operands>>
        /\ IF block \in DOMAIN term
           THEN NextBlock /\ UNCHANGED term
           ELSE NextBlock /\ term' = Put(term, block, <<BlockEnd(block)>>)
    BY <1>4, <1>16 DEF EndBlock, BlockDone
  <2> QED BY <1>1, <2>1 DEF Closes, NextBlock
<1>17. CASE UNCHANGED vars
  BY <1>17 DEF vars, Waits
<1> QED
  BY <1>5, <1>6, <1>7, <1>8, <1>9, <1>10, <1>11, <1>12, <1>13, <1>14, <1>15,
     <1>16, <1>17 DEF Next, Emit

-----------------------------------------------------------------------------
(* Stacks                                                                  *)

\* What is left of a stack when k of its values are popped.
LEMMA PopFacts ==
    ASSUME NEW V, NEW s \in Seq(V), NEW k \in 0..Len(s)
    PROVE  /\ SubSeq(s, 1, Len(s) - k) \in Seq(V)
           /\ Len(SubSeq(s, 1, Len(s) - k)) = Len(s) - k
           /\ \A j \in 1..(Len(s) - k) : SubSeq(s, 1, Len(s) - k)[j] = s[j]
<1>1. Len(s) \in Nat /\ k \in Nat /\ Len(s) - k \in 0..Len(s)
  OBVIOUS
<1>2. \A j \in 1..(Len(s) - k) : s[j] \in V
  BY <1>1
<1> QED BY <1>1, <1>2

\* The values that are popped.
LEMMA TopFacts ==
    ASSUME NEW V, NEW s \in Seq(V), NEW k \in 0..Len(s)
    PROVE  /\ SubSeq(s, Len(s) - k + 1, Len(s)) \in Seq(V)
           /\ Len(SubSeq(s, Len(s) - k + 1, Len(s))) = k
           /\ \A j \in 1..k :
                 SubSeq(s, Len(s) - k + 1, Len(s))[j] = s[Len(s) - k + j]
<1> DEFINE n == Len(s)
<1>1. n \in Nat /\ k \in Nat /\ n - k \in 0..n
  OBVIOUS
<1>2. \A j \in (n - k + 1)..n : s[j] \in V
  BY <1>1
<1> HIDE DEF n
<1>3. CASE k = 0
  BY <1>1, <1>2, <1>3
<1>4. CASE k # 0
  BY <1>1, <1>2, <1>4
<1> QED BY <1>3, <1>4 DEF n

\* The values on two stacks are pairwise in the relation R.
Related(s, t, R) ==
    Len(s) = Len(t) /\ \A j \in 1..Len(s) : <<s[j], t[j]>> \in R

\* Values that are related stay so when an instruction is executed on both
\* stacks, as long as what it makes is related.
LEMMA AfterFacts ==
    ASSUME NEW V, NEW W, NEW R, NEW s \in Seq(V), NEW t \in Seq(W),
           Related(s, t, R),
           NEW x \in V, NEW y \in W, NEW i,
           i.op \in Pushing /\ i.type # "void" => <<x, y>> \in R,
           Pops(i) \in 0..Len(s), i.op = "dup" => Len(s) >= 1
    PROVE  /\ After(i, s, x) \in Seq(V)
           /\ After(i, t, y) \in Seq(W)
           /\ Related(After(i, s, x), After(i, t, y), R)
<1> USE DEF Related
<1> DEFINE p == SubSeq(s, 1, Len(s) - Pops(i))
           q == SubSeq(t, 1, Len(t) - Pops(i))
<1>1. /\ p \in Seq(V) /\ q \in Seq(W) /\ Len(p) = Len(q)
      /\ \A j \in 1..Len(p) : <<p[j], q[j]>> \in R
  <2>1. /\ p \in Seq(V) /\ Len(p) = Len(s) - Pops(i)
        /\ \A j \in 1..(Len(s) - Pops(i)) : p[j] = s[j]
    BY PopFacts
  <2>2. /\ q \in Seq(W) /\ Len(q) = Len(t) - Pops(i)
        /\ \A j \in 1..(Len(t) - Pops(i)) : q[j] = t[j]
    BY PopFacts
  <2>3. 1..(Len(s) - Pops(i)) \subseteq 1..Len(s)
    OBVIOUS
  <2> HIDE DEF p, q
  <2> QED BY <2>1, <2>2, <2>3
<1>2. CASE i.op = "dup"
  <2>1. After(i, s, x) = Append(s, s[Len(s)])
        /\ After(i, t, y) = Append(t, t[Len(t)])
    BY <1>2 DEF After, Pushing
  <2>2. s[Len(s)] \in V /\ t[Len(t)] \in W /\ <<s[Len(s)], t[Len(t)]>> \in R
    BY <1>2
  <2> QED BY <2>1, <2>2
<1>3. CASE i.op # "dup" /\ i.op \in Pushing /\ i.type # "void"
  <2>1. After(i, s, x) = Append(p, x) /\ After(i, t, y) = Append(q, y)
    BY <1>3 DEF After
  <2>2. <<x, y>> \in R
    BY <1>3
  <2> HIDE DEF p, q
  <2>3. /\ Append(p, x) \in Seq(V) /\ Append(q, y) \in Seq(W)
        /\ Len(Append(p, x)) = Len(p) + 1 /\ Len(Append(q, y)) = Len(p) + 1
    BY <1>1
  <2>4. ASSUME NEW j \in 1..(Len(p) + 1)
        PROVE  <<Append(p, x)[j], Append(q, y)[j]>> \in R
    BY <1>1, <2>2
  <2> QED BY <2>1, <2>3, <2>4
<1>4. CASE i.op # "dup" /\ ~(i.op \in Pushing /\ i.type # "void")
  <2>1. After(i, s, x) = p /\ After(i, t, y) = q
    BY <1>4 DEF After
  <2> QED BY <1>1, <2>1
<1>5. \/ i.op = "dup"
      \/ i.op # "dup" /\ i.op \in Pushing /\ i.type # "void"
      \/ i.op # "dup" /\ ~(i.op \in Pushing /\ i.type # "void")
  OBVIOUS
<1> QED BY <1>2, <1>3, <1>4, <1>5

-----------------------------------------------------------------------------
(* Frames                                                                  *)

StackTypes == Types \cup {"void"}

\* What the verifier knows at the address a: nothing is on the stack where the
\* code ends.
FrameAt(a) == Frames[method][a]
StackAt(a) == IF a \in Addresses THEN FrameAt(a).stack ELSE <<>>

\* How many operands an instruction needs.
LEMMA PopsFacts ==
    ASSUME method \in Methods, NEW a \in Addresses
    PROVE  /\ InstAt(a) \in Instruction
           /\ Pops(InstAt(a)) \in Nat
<1>1. InstAt(a) \in Instruction
  BY CodeFacts DEF Addresses
<1>2. CASE InstAt(a).op = "invoke"
  BY <1>1, <1>2, CodeFacts DEF Pops, Addresses
<1>3. CASE InstAt(a).op # "invoke"
  BY <1>1, <1>3 DEF Pops
<1> QED BY <1>1, <1>2, <1>3

\* The frames of a method, by the addresses of its instructions.
LEMMA FrameFacts ==
    ASSUME method \in Methods
    PROVE  /\ 0 \in Addresses
           /\ FrameAt(0).stack = <<>>
           /\ FrameAt(0).locals \subseteq
                 {<<Slot(i), method.params[i]>> : i \in DOMAIN method.params}
           /\ \A a \in Addresses :
                 /\ FrameAt(a) \in Frame
                 /\ Accepts(InstAt(a), FrameAt(a))
                 /\ \A b \in Nexts(InstAt(a), a) :
                       /\ b \in Addresses
                       /\ Merges(InstAt(a), FrameAt(a), FrameAt(b))
<1>1. Verified(method, Frames[method])
  BY FramesAssumption
<1>2. CodeLength \in Nat \ {0} /\ CodeLength = Len(method.code)
      /\ Addresses = 0..(Len(method.code) - 1)
  BY CodeFacts DEF CodeLength, Code, Addresses
<1>3. DOMAIN Frames[method] = Addresses
  BY <1>1, <1>2 DEF Verified
<1>4. \A a \in Addresses : FrameAt(a) \in Frame
  BY <1>1, <1>2 DEF Verified, FrameAt
<1>5. \A a \in Addresses :
         /\ Accepts(method.code[a + 1], Frames[method][a])
         /\ \A b \in Nexts(method.code[a + 1], a) :
               /\ b \in Addresses
               /\ Merges(method.code[a + 1], Frames[method][a],
                         Frames[method][b])
  BY <1>1, <1>3 DEF Verified
<1>6. 0 \in Addresses
  BY <1>2
<1>7. /\ FrameAt(0).stack = <<>>
      /\ FrameAt(0).locals \subseteq
            {<<Slot(i), method.params[i]>> : i \in DOMAIN method.params}
  BY <1>1 DEF Verified, FrameAt, Slot
<1>8. \A a \in Addresses : InstAt(a) = method.code[a + 1]
  BY DEF InstAt, Code
<1> QED BY <1>4, <1>5, <1>6, <1>7, <1>8 DEF FrameAt

\* What InStatements says, by the addresses of the instructions.
LEMMA StatementFacts ==
    ASSUME method \in Methods, InStatements(method)
    PROVE  \A a \in Addresses :
              /\ InstAt(a).op \in BranchOps =>
                    StackAt(a + 1) = <<>> /\ StackAt(Target(a)) = <<>>
              /\ InstAt(a).op = "return" =>
                    Len(FrameAt(a).stack) = Pops(InstAt(a))
<1> SUFFICES ASSUME NEW a \in Addresses
             PROVE  /\ InstAt(a).op \in BranchOps =>
                          StackAt(a + 1) = <<>> /\ StackAt(Target(a)) = <<>>
                    /\ InstAt(a).op = "return" =>
                          Len(FrameAt(a).stack) = Pops(InstAt(a))
  OBVIOUS
<1>1. Addresses = 0..(Len(method.code) - 1) /\ InstAt(a) = method.code[a + 1]
  BY DEF CodeLength, Code, Addresses, InstAt
<1>2. /\ InstAt(a).op \in BranchOps =>
            \A b \in {a + InstAt(a).arg, a + 1} \cap Addresses :
               FrameAt(b).stack = <<>>
      /\ InstAt(a).op = "return" =>
            Len(FrameAt(a).stack) = Pops(InstAt(a))
  BY <1>1 DEF InStatements, FrameAt
<1> QED BY <1>2 DEF StackAt, Target

\* Nothing is on the stack where a block starts.
LEMMA LeaderStacks ==
    ASSUME method \in Methods, InStatements(method), NEW l \in Leaders
    PROVE  StackAt(l) = <<>>
<1>1. CASE l = 0
  BY <1>1, FrameFacts DEF StackAt
<1>2. CASE \E a \in Branches : l = Target(a) \/ l = a + 1
  <2>1. PICK a \in Branches : l = Target(a) \/ l = a + 1
    BY <1>2
  <2>2. a \in Addresses /\ InstAt(a).op \in BranchOps
    BY DEF Branches, Addresses
  <2> QED BY <2>1, <2>2, StatementFacts
<1> QED BY <1>1, <1>2 DEF Leaders

\* The frames of instructions that lie one behind another: the stack of the
\* second is what the first leaves, even when no path leads from one to the
\* other, which is where the walk of the compiler differs from the program.
LEMMA StackBehind ==
    ASSUME method \in Methods, InStatements(method), NEW a \in Addresses,
           InstAt(a).op # "unknown"
    PROVE  StackAt(a + 1) = After(InstAt(a), StackAt(a), InstAt(a).type)
<1> DEFINE i == InstAt(a)
<1>1. /\ StackAt(a) = FrameAt(a).stack /\ StackAt(a) \in Seq(Types)
      /\ Accepts(i, FrameAt(a)) /\ a \in Nat /\ i \in Instruction
      /\ \A b \in Nexts(i, a) :
            b \in Addresses /\ Merges(i, FrameAt(a), FrameAt(b))
  BY FrameFacts, PopsFacts DEF StackAt, Frame, Addresses
<1>2. CASE a + 1 \in Nexts(i, a)
  BY <1>1, <1>2 DEF Merges, StackAt
<1>3. CASE i.op = "goto"
  <2>1. After(i, StackAt(a), i.type) = StackAt(Target(a))
    <3>1. Target(a) \in Nexts(i, a)
      BY <1>3 DEF Nexts, Target
    <3> QED BY <1>1, <3>1 DEF Merges, StackAt
  <2> QED BY <1>3, <2>1, StatementFacts DEF BranchOps
<1>4. CASE i.op = "return"
  <2>1. StackAt(a + 1) = <<>>
    <3>1. CASE a + 1 \in Addresses
      <4>1. a \in 0..(CodeLength - 2)
        BY <1>1, <3>1, CodeFacts DEF Addresses
      <4> QED BY <1>4, <4>1, CodeFacts, LeaderStacks
    <3> QED BY <3>1 DEF StackAt
  <2>2. Len(StackAt(a)) = Pops(i)
    BY <1>1, <1>4, StatementFacts
  <2>3. SubSeq(StackAt(a), 1, Len(StackAt(a)) - Pops(i)) = <<>>
    BY <1>1, <2>2
  <2> QED BY <1>4, <2>1, <2>3 DEF After, Pushing
<1>5. CASE i.op \notin {"goto", "return"}
  BY <1>2, <1>5 DEF Nexts
<1> QED BY <1>2, <1>3, <1>4, <1>5

-----------------------------------------------------------------------------
(* The stack of the compiler has the types of the frames                   *)

StackTyped ==
    Compiling => /\ Len(stack) = Len(StackAt(pos))
                 /\ \A k \in DOMAIN stack : stack[k].type = StackAt(pos)[k]

LayoutInv == InStatements(method) => /\ StackTyped
                                     /\ outcome \notin {"aborted", "undefined"}

LEMMA LayoutInit == Init => LayoutInv
<1> SUFFICES ASSUME Init PROVE LayoutInv
  OBVIOUS
<1>1. method \in Methods /\ pos = 0 /\ stack = <<>> /\ outcome = "compiling"
  BY DEF Init
<1>2. StackAt(0) = <<>>
  BY <1>1, FrameFacts DEF StackAt
<1> QED BY <1>1, <1>2 DEF LayoutInv, StackTyped

\* An instruction finds the operands and the types that the verifier found.
LEMMA OperandsFound ==
    ASSUME TypeInv, LayoutInv, InStatements(method), Compiling,
           pos \in Addresses
    PROVE  /\ Inst = InstAt(pos) /\ Inst \in Instruction
           /\ stack \in Seq(StackValue) /\ StackAt(pos) \in Seq(Types)
           /\ Len(stack) = Len(StackAt(pos))
           /\ \A k \in 1..Len(stack) : stack[k].type = StackAt(pos)[k]
           /\ Pops(Inst) \in 0..Len(stack)
           /\ Inst.op = "dup" => Len(stack) >= 1
           /\ Inst.op \in {"const", "load"} => Inst.type \in Types
           /\ Inst.op = "store" => Args[1].type = Inst.type
<1>1. /\ method \in Methods /\ stack \in Seq(StackValue)
      /\ Inst = InstAt(pos) /\ Inst \in Instruction
      /\ Pops(Inst) \in Nat
      /\ StackAt(pos) = FrameAt(pos).stack /\ StackAt(pos) \in Seq(Types)
      /\ Accepts(Inst, FrameAt(pos))
  BY FrameFacts, PopsFacts
     DEF TypeInv, TypeOK, StackValue, Inst, StackAt, Frame
<1>2. /\ Len(stack) = Len(StackAt(pos))
      /\ \A k \in 1..Len(stack) : stack[k].type = StackAt(pos)[k]
  BY <1>1 DEF LayoutInv, StackTyped
<1>3. Len(stack) >= IF Inst.op = "dup" THEN 1 ELSE Pops(Inst)
  BY <1>1, <1>2 DEF Accepts
<1>4. Pops(Inst) \in 0..Len(stack) /\ (Inst.op = "dup" => Len(stack) >= 1)
  <2>1. CASE Inst.op = "dup"
    BY <1>1, <1>3, <2>1 DEF Pops
  <2> QED BY <1>1, <1>3, <2>1
<1>5. Inst.op \in {"const", "load"} => Inst.type \in Types
  BY <1>1 DEF Accepts
<1>6. ASSUME Inst.op = "store" PROVE Args[1].type = Inst.type
  <2>1. Pops(Inst) = 1 /\ Len(stack) \in Nat /\ Len(stack) >= 1
    BY <1>1, <1>4, <1>6 DEF Pops
  <2>2. Args[1] = stack[Len(stack)]
    <3>1. SubSeq(stack, Len(stack) - 1 + 1, Len(stack))[1]
             = stack[Len(stack) - 1 + 1]
      BY <1>1, <2>1, TopFacts
    <3> QED BY <2>1, <3>1 DEF Args
  <2>3. stack[Len(stack)].type = StackAt(pos)[Len(stack)]
    BY <1>2, <2>1
  <2> QED BY <1>1, <1>2, <1>6, <2>2, <2>3 DEF Accepts
<1> QED BY <1>1, <1>2, <1>4, <1>5, <1>6

\* Every step keeps LayoutInv.
LEMMA LayoutStep ==
    TypeInv /\ TermInv /\ TermInv' /\ LayoutInv /\ [Next]_vars => LayoutInv'
<1> SUFFICES ASSUME TypeInv, TermInv, TermInv', LayoutInv, [Next]_vars,
                    InStatements(method)'
             PROVE  StackTyped' /\ outcome' \notin {"aborted", "undefined"}
  BY DEF LayoutInv
<1>1. /\ method' = method /\ method \in Methods
      /\ InStatements(method)
      /\ outcome \notin {"aborted", "undefined"}
      /\ Addresses' = Addresses
  <2>1. method' = method /\ Addresses' = Addresses
    BY MethodFixed
  <2>2. InStatements(method)' = InStatements(method)
    BY <2>1 DEF InStatements
  <2> QED BY <2>1, <2>2 DEF TypeInv, TypeOK, LayoutInv
<1>2. \A a : StackAt(a)' = StackAt(a)
  BY <1>1 DEF StackAt, FrameAt
<1>3. StackTyped /\ (UNCHANGED <<stack, pos>> => StackTyped' \/ ~Compiling)
  <2>1. StackTyped
    BY <1>1 DEF LayoutInv
  <2>2. ASSUME UNCHANGED <<stack, pos>>, Compiling PROVE StackTyped'
    <3>1. StackAt(pos)' = StackAt(pos)
      BY <1>1, <2>2 DEF StackAt, FrameAt
    <3> QED BY <2>1, <2>2, <3>1 DEF StackTyped
  <2> QED BY <2>1, <2>2
<1>4. CASE Waits
  BY <1>1, <1>3, <1>4 DEF Waits, StackTyped, Compiling
<1>5. CASE Emission
  <2>1. /\ Compiling /\ pos \in Addresses /\ pos' = pos + 1
        /\ outcome' \in {"compiling", "aborted", "BadBytecode"}
        /\ Inst.op # "unknown"
    BY <1>5 DEF Emission
  <2>2. /\ Inst = InstAt(pos) /\ Inst \in Instruction
        /\ stack \in Seq(StackValue) /\ StackAt(pos) \in Seq(Types)
        /\ Len(stack) = Len(StackAt(pos))
        /\ \A k \in 1..Len(stack) : stack[k].type = StackAt(pos)[k]
        /\ Pops(Inst) \in 0..Len(stack)
        /\ Inst.op = "dup" => Len(stack) >= 1
        /\ Inst.op \in {"const", "load"} => Inst.type \in Types
        /\ Inst.op = "store" => Args[1].type = Inst.type
    BY <1>1, <2>1, OperandsFound
  <2>3. outcome' # "aborted"
    BY <1>5, <2>2 DEF Emission
  <2>4. ASSUME outcome' = "compiling"
        PROVE  /\ Len(stack') = Len(StackAt(pos + 1))
               /\ \A k \in DOMAIN stack' :
                     stack'[k].type = StackAt(pos + 1)[k]
    <3> DEFINE R == {r \in StackValue \X StackTypes : r[1].type = r[2]}
               made == Made(Inst.type)
               t == After(Inst, StackAt(pos), Inst.type)
    <3>1. stack' = After(Inst, stack, made)
      BY <1>5, <2>2, <2>4 DEF Emission
    <3>2. StackAt(pos + 1) = t
      BY <1>1, <2>1, <2>2, StackBehind
    <3>3. made \in StackValue /\ Inst.type \in StackTypes /\ made.type = Inst.type
      BY <2>1, <2>2 DEF Made, StackValue, Instruction, StackTypes
    <3>4. <<made, Inst.type>> \in R
      BY <3>3
    <3>5. Related(stack, StackAt(pos), R)
      BY <2>2 DEF StackTypes, Related
    <3>6. StackAt(pos) \in Seq(StackTypes)
      BY <2>2 DEF StackTypes
    <3>7. \A v, u : <<v, u>> \in R => v.type = u
      OBVIOUS
    <3> HIDE DEF R, made
    <3>8. /\ stack \in Seq(StackValue)
          /\ Pops(Inst) \in 0..Len(stack)
          /\ Inst.op = "dup" => Len(stack) >= 1
      BY <2>2
    <3>9. /\ After(Inst, stack, made) \in Seq(StackValue)
          /\ t \in Seq(StackTypes)
          /\ Related(After(Inst, stack, made), t, R)
      BY <3>3, <3>4, <3>5, <3>6, <3>8, AfterFacts
    <3> HIDE DEF t
    <3>10. \A j \in 1..Len(stack') : stack'[j].type = t[j]
      BY <3>1, <3>7, <3>9 DEF Related
    <3>11. DOMAIN stack' = 1..Len(stack') /\ Len(stack') = Len(t)
      BY <3>1, <3>9 DEF Related
    <3> QED BY <3>2, <3>10, <3>11
  <2>5. Compiling' => outcome' = "compiling"
    BY DEF Compiling
  <2>6. StackAt(pos)' = StackAt(pos + 1)
    BY <1>1, <2>1 DEF StackAt, FrameAt
  <2> QED BY <2>1, <2>3, <2>4, <2>5, <2>6 DEF StackTyped
<1>6. CASE Refuses
  <2>1. /\ Compiling /\ pos \in Addresses
        /\ outcome' \in {"BadBytecode", "undefined"}
    BY <1>6 DEF Refuses
  <2>2. Len(stack) >= IF Inst.op = "dup" THEN 1 ELSE Pops(Inst)
    BY <1>1, <2>1, OperandsFound
  <2>3. Len(stack) \in Nat /\ Pops(Inst) \in Nat
    BY <1>1, <2>1, OperandsFound
  <2>4. outcome' # "undefined"
    BY <1>6, <2>2, <2>3 DEF Refuses
  <2> QED BY <2>1, <2>4 DEF StackTyped, Compiling
<1>7. CASE Closes
  <2>1. /\ stack' = stack /\ pos' = pos /\ Compiling
        /\ outcome' \in {"emitted", outcome}
    BY <1>7 DEF Closes
  <2> QED BY <1>1, <1>3, <2>1
<1> QED BY <1>4, <1>5, <1>6, <1>7, StepKinds

LEMMA LayoutAlways == Spec => [](TypeInv /\ TermInv /\ LayoutInv)
<1> DEFINE Inv == TypeInv /\ TermInv /\ LayoutInv
<1>1. Init => Inv
  BY TypeInit, TermInit, LayoutInit
<1>2. Inv /\ [Next]_vars => Inv'
  BY TypeStep, TermStep, LayoutStep
<1> HIDE DEF Inv
<1>3. Spec => []Inv
  BY <1>1, <1>2, PTL DEF Spec
<1> QED BY <1>3 DEF Inv

\* Nothing is on the stack of the compiler between two blocks, for every method
\* that leaves nothing there between two statements.
THEOREM StackAlwaysEmpty ==
    Spec => [](InStatements(method) => StackEmptyBetweenBlocks)
<1>1. TypeInv /\ TermInv /\ LayoutInv =>
         (InStatements(method) => StackEmptyBetweenBlocks)
  <2> SUFFICES ASSUME TypeInv, LayoutInv, InStatements(method), Compiling,
                      pos = block
               PROVE  stack = <<>>
    BY DEF StackEmptyBetweenBlocks
  <2>1. method \in Methods /\ block \in Leaders /\ stack \in Seq(StackValue)
    BY DEF TypeInv, TypeOK, StackValue
  <2>2. StackAt(pos) = <<>>
    BY <2>1, LeaderStacks
  <2> QED BY <2>1, <2>2 DEF LayoutInv, StackTyped
<1> QED BY <1>1, LayoutAlways, PTL

\* The assertion of EmitStore never fails, for every such method.
THEOREM StoresAlwaysTyped == Spec => [](InStatements(method) => StoresTyped)
<1>1. TypeInv /\ TermInv /\ LayoutInv => (InStatements(method) => StoresTyped)
  BY DEF LayoutInv, StoresTyped
<1> QED BY <1>1, LayoutAlways, PTL

\* No operand is popped off an empty stack, for every such method.
THEOREM OperandsAlwaysPresent == Spec => []OperandsPresent
<1>1. TypeInv /\ TermInv /\ LayoutInv => OperandsPresent
  BY DEF LayoutInv, OperandsPresent
<1> QED BY <1>1, LayoutAlways, PTL
-----------------------------------------------------------------------------
(* The terminators are those of the bytecode                               *)

\* What the last instruction of a block says about where to go on.
Terminator(b) ==
    IF /\ b < BlockEnd(b)
       /\ InstAt(BlockEnd(b) - 1).op \in BranchOps \cup {"return"}
    THEN Exits(BlockEnd(b) - 1) ELSE <<BlockEnd(b)>>

TermsExact == \A b \in DOMAIN term : term[b] = Terminator(b)

\* The code that lies behind was emitted, and in the end all of it was.
CodePassed ==
    outcome \in {"compiling", "emitted"} =>
        /\ \A a \in Addresses : a < pos => /\ a \in DOMAIN operands
                                           /\ InstAt(a).op # "unknown"
        /\ outcome = "emitted" => pos = CodeLength

ExactInv == TermsExact /\ CodePassed

LEMMA ExactInit == Init => ExactInv
<1> SUFFICES ASSUME Init PROVE ExactInv
  OBVIOUS
<1>1. \A a \in Addresses : ~(a < 0)
  BY CodeFacts DEF Init, Addresses
<1> QED BY <1>1 DEF Init, ExactInv, TermsExact, CodePassed

\* A terminator that is put where the block says so is exact.
LEMMA PutExact ==
    ASSUME TermsExact, NEW b, NEW x, x = Terminator(b)
    PROVE  \A c \in DOMAIN Put(term, b, x) :
              Put(term, b, x)[c] = Terminator(c)
BY DEF TermsExact, Put

\* Every step keeps ExactInv.
LEMMA ExactStep ==
    TypeInv /\ TermInv /\ TermInv' /\ ExactInv /\ [Next]_vars => ExactInv'
<1> SUFFICES ASSUME TypeInv, TermInv, TermInv', ExactInv, [Next]_vars
             PROVE  TermsExact' /\ CodePassed'
  BY DEF ExactInv
<1>1. /\ method' = method /\ method \in Methods
      /\ CodeLength' = CodeLength /\ Leaders' = Leaders
      /\ Addresses' = Addresses /\ Code' = Code
  BY MethodFixed DEF TypeInv, TypeOK, Code
<1>2. /\ block \in Leaders /\ BlockEnd(block) \in Nat /\ block \in Nat
      /\ pos \in block..BlockEnd(block) /\ CodeLength \in Nat
  BY <1>1, LeaderFacts, BlockEndFacts, CodeFacts DEF TypeInv, Located
<1>3. /\ \A a : InstAt(a)' = InstAt(a)
      /\ \A b : BlockEnd(b)' = BlockEnd(b)
      /\ \A b : Terminator(b)' = Terminator(b)
  BY <1>1 DEF Terminator, Exits, InstAt, Target, BlockEnd, Later
<1>4. TermsExact /\ CodePassed
  BY DEF ExactInv
<1>5. term' = term => TermsExact'
  BY <1>3, <1>4 DEF TermsExact
<1>6. CASE Waits
  <2>1. /\ UNCHANGED <<pos, operands, outcome>> /\ term' = term
    BY <1>6 DEF Waits
  <2> QED BY <1>1, <1>3, <1>4, <1>5, <2>1 DEF CodePassed
<1>7. CASE Emission
  <2>1. /\ Compiling /\ pos \in Addresses /\ pos < BlockEnd(block)
        /\ Inst.op # "unknown" /\ Inst = InstAt(pos)
        /\ block' = block /\ pos' = pos + 1
        /\ DOMAIN operands' = DOMAIN operands \cup {pos}
        /\ outcome' # "emitted"
    BY <1>7 DEF Emission, Inst, Put
  <2>2. CodePassed'
    <3>1. ASSUME NEW a \in Addresses, a < pos + 1
          PROVE  a \in DOMAIN operands' /\ InstAt(a).op # "unknown"
      <4>1. a \in Nat /\ (a < pos \/ a = pos)
        BY <1>2, <2>1, <3>1 DEF Addresses
      <4> QED BY <1>4, <2>1, <4>1 DEF CodePassed, Compiling
    <3> QED BY <1>1, <1>3, <2>1, <3>1 DEF CodePassed
  <2>3. CASE Inst.op \in BranchOps \cup {"return"}
    <3>1. term' = Put(term, block, Exits(pos))
      BY <1>7, <2>3 DEF Emission
    <3>2. block \in DOMAIN term'
      BY <3>1 DEF Put
    <3>3. pos + 1 >= BlockEnd(block)
      BY <1>3, <2>1, <3>2 DEF TermInv, TerminatorLast
    <3>4. pos = BlockEnd(block) - 1
      BY <1>2, <2>1, <3>3
    <3>5. Exits(pos) = Terminator(block)
      BY <1>2, <2>1, <2>3, <3>4 DEF Terminator
    <3> QED BY <1>3, <1>4, <2>2, <3>1, <3>5, PutExact DEF TermsExact
  <2>4. CASE Inst.op \notin BranchOps \cup {"return"}
    BY <1>5, <1>7, <2>2, <2>4 DEF Emission
  <2> QED BY <2>3, <2>4
<1>8. CASE Refuses
  <2>1. term' = term /\ outcome' \in {"BadBytecode", "undefined"}
    BY <1>8 DEF Refuses
  <2> QED BY <1>5, <2>1 DEF CodePassed
<1>9. CASE Closes
  <2>1. /\ Compiling /\ pos = BlockEnd(block) /\ pos' = pos
        /\ operands' = operands
        /\ outcome' = "emitted" => Later(block) = {}
    BY <1>9 DEF Closes, Compiling
  <2>2. CodePassed'
    <3>1. outcome' = "emitted" => pos = CodeLength
      BY <1>1, <1>2, <2>1, BlockEndFacts
    <3> QED BY <1>1, <1>3, <1>4, <2>1, <3>1 DEF CodePassed, Compiling
  <2>3. CASE block \in DOMAIN term
    BY <1>5, <1>9, <2>2, <2>3 DEF Closes
  <2>4. CASE block \notin DOMAIN term
    <3>1. term' = Put(term, block, <<BlockEnd(block)>>)
      BY <1>9, <2>4 DEF Closes
    <3>2. block < BlockEnd(block) =>
             InstAt(BlockEnd(block) - 1).op \notin BranchOps \cup {"return"}
      BY <1>2, <2>1, <2>4 DEF TermInv, LeftWithTerminator
    <3>3. <<BlockEnd(block)>> = Terminator(block)
      BY <3>2 DEF Terminator
    <3> QED BY <1>3, <1>4, <2>2, <3>1, <3>3, PutExact DEF TermsExact
  <2> QED BY <2>3, <2>4
<1> QED BY <1>6, <1>7, <1>8, <1>9, StepKinds

-----------------------------------------------------------------------------
(* The emitted code takes the same way                                     *)

\* A bounded set of natural numbers has a greatest one.
LEMMA MaxFacts ==
    ASSUME NEW n \in Nat, NEW S, S \subseteq 0..n, S # {}
    PROVE  Max(S) \in S /\ \A y \in S : Max(S) >= y
<1> DEFINE T == {n - y : y \in S}
<1>1. T \subseteq Nat /\ T # {}
  OBVIOUS
<1>2. Min(T) \in T /\ \A t \in T : Min(T) <= t
  BY <1>1, MinFacts
<1>3. PICK x \in S : Min(T) = n - x
  BY <1>2
<1>4. \A y \in S : x >= y
  <2> SUFFICES ASSUME NEW y \in S PROVE x >= y
    OBVIOUS
  <2>1. n - x <= n - y
    BY <1>2, <1>3
  <2> QED BY <2>1
<1> QED BY <1>4 DEF Max

\* The block an address is in.
LEMMA BlockOfFacts ==
    ASSUME method \in Methods, NEW a \in Addresses
    PROVE  /\ BlockOf(a) \in Leaders /\ BlockOf(a) \in Nat
           /\ BlockOf(a) <= a /\ a < BlockEnd(BlockOf(a))
           /\ BlockEnd(BlockOf(a)) \in Nat
<1> DEFINE S == {l \in Leaders : l <= a}
<1>1. /\ Leaders \subseteq 0..CodeLength /\ CodeLength \in Nat
      /\ 0 \in Leaders /\ a \in 0..(CodeLength - 1) /\ a \in Nat
  BY LeaderFacts, CodeFacts DEF Addresses
<1>2. S \subseteq Leaders /\ \A l \in Leaders : l \in S <=> l <= a
  OBVIOUS
<1>3. BlockOf(a) = Max(S)
  BY DEF BlockOf
<1> HIDE DEF S
<1>4. S \subseteq 0..CodeLength /\ S # {}
  <2>1. 0 \in S
    BY <1>1, <1>2
  <2> QED BY <1>1, <1>2, <2>1
<1>5. Max(S) \in S /\ \A y \in S : Max(S) >= y
  BY <1>1, <1>4, MaxFacts
<1>6. PICK b : b = BlockOf(a) /\ b = Max(S)
  BY <1>3
<1>7. b \in Leaders /\ b <= a /\ b \in Nat /\ \A l \in S : b >= l
  <2>1. b \in S /\ \A l \in S : b >= l
    BY <1>5, <1>6
  <2> QED BY <1>1, <1>2, <2>1
<1>8. BlockEnd(b) \in Nat
  BY <1>1, <1>7, BlockEndFacts
<1>9. a < BlockEnd(b)
  <2>1. CASE Later(b) = {}
    BY <1>1, <1>7, <2>1, BlockEndFacts
  <2>2. CASE Later(b) # {}
    <3>1. BlockEnd(b) \in Leaders /\ b < BlockEnd(b)
      BY <1>7, <2>2, BlockEndFacts
    <3>2. BlockEnd(b) \notin S
      BY <1>7, <1>8, <3>1
    <3> QED BY <1>1, <1>2, <1>8, <3>1, <3>2
  <2> QED BY <2>1, <2>2
<1> QED BY <1>6, <1>7, <1>8, <1>9

\* A branch or a return is the last instruction of its block, and an address
\* inside of a block starts none.
LEMMA InsideBlock ==
    ASSUME method \in Methods, NEW a \in Addresses,
           a + 1 < BlockEnd(BlockOf(a))
    PROVE  /\ a + 1 \notin Leaders
           /\ InstAt(a).op \notin BranchOps
<1>1. BlockOf(a) \in Leaders /\ BlockOf(a) \in Nat /\ BlockOf(a) <= a
      /\ BlockEnd(BlockOf(a)) \in Nat /\ a \in Nat
  BY BlockOfFacts, CodeFacts DEF Addresses
<1>2. a + 1 \notin Leaders
  BY <1>1, BlockEndFacts
<1>3. a \notin Branches
  BY <1>2, LeaderFacts
<1> QED BY <1>2, <1>3 DEF Branches, Addresses

\* The state of the machines, as far as the way goes that they take.
WayInv == /\ outcome # "emitted" => ~running /\ jpc = 0
          /\ running \in BOOLEAN
          /\ ~running /\ jpc = 0 => /\ ipc = 0 /\ jstack = <<>>
                                   /\ regs = [a \in {} |-> Unset]
          /\ running => jpc = ipc /\ jpc \in Addresses

\* One instruction of each machine leads both to the same address.
LEMMA SameWay ==
    ASSUME TypeInv, TermInv, ExactInv, outcome = "emitted",
           jpc = ipc, jpc \in Addresses, InstAt(jpc).op # "return",
           NEW taken \in BOOLEAN, JvmStep(taken), SsaStep(taken)
    PROVE  /\ jpc' = ipc'
           /\ jpc' \in Nexts(InstAt(jpc), jpc)
           /\ jpc' \in Addresses
<1> DEFINE i == InstAt(jpc)
           b == BlockOf(ipc)
           to == term[b]
<1>1. /\ method \in Methods /\ b \in Leaders /\ b \in Nat /\ b <= jpc
      /\ jpc < BlockEnd(b) /\ BlockEnd(b) \in Nat /\ jpc \in Nat
  BY BlockOfFacts, CodeFacts DEF TypeInv, TypeOK, Addresses
<1>2. i.op # "unknown"
  BY <1>1, CodeFacts DEF ExactInv, CodePassed, Addresses
<1>3. to = Terminator(b)
  BY <1>1 DEF ExactInv, TermsExact, TermInv, AllBlocksTerminated
<1>4. jpc' = IF i.op = "goto" \/ (i.op \in {"if", "ifcmp"} /\ taken)
             THEN Target(jpc) ELSE jpc + 1
  BY DEF JvmStep
<1>5. ipc' = IF ipc + 1 < BlockEnd(b) THEN ipc + 1
             ELSE IF Len(to) = 2 /\ ~taken THEN to[2]
             ELSE IF to = <<>> THEN ipc + 1 ELSE to[1]
  BY DEF SsaStep
<1>6. jpc' \in Nexts(i, jpc)
  BY <1>2, <1>4 DEF Nexts, Target
<1>7. jpc' \in Addresses
  BY <1>1, <1>6, FrameFacts
<1>8. jpc' = ipc'
  <2>1. CASE ipc + 1 < BlockEnd(b)
    <3>1. i.op \notin BranchOps
      BY <1>1, <2>1, InsideBlock
    <3> QED BY <1>4, <1>5, <2>1, <3>1 DEF BranchOps
  <2>2. CASE ~(ipc + 1 < BlockEnd(b))
    <3>1. jpc = BlockEnd(b) - 1 /\ b < BlockEnd(b) /\ BlockEnd(b) = jpc + 1
      BY <1>1, <2>2
    <3>2. CASE i.op \in {"if", "ifcmp"}
      <4>1. to = <<Target(jpc), jpc + 1>>
        BY <1>3, <3>1, <3>2 DEF Terminator, Exits, BranchOps
      <4> QED BY <1>4, <1>5, <2>2, <3>2, <4>1
    <3>3. CASE i.op = "goto"
      <4>1. to = <<Target(jpc)>>
        BY <1>3, <3>1, <3>3 DEF Terminator, Exits, BranchOps
      <4> QED BY <1>4, <1>5, <2>2, <3>3, <4>1
    <3>4. CASE i.op \notin BranchOps
      <4>1. to = <<jpc + 1>>
        BY <1>3, <3>1, <3>4 DEF Terminator
      <4> QED BY <1>4, <1>5, <2>2, <3>4, <4>1 DEF BranchOps
    <3> QED BY <3>2, <3>3, <3>4 DEF BranchOps
  <2> QED BY <2>1, <2>2
<1> QED BY <1>6, <1>7, <1>8
\* Every step of the program and of its compilation keeps WayInv.
LEMMA WayStep ==
    TypeInv /\ TermInv /\ ExactInv /\ WayInv /\ [ExecNext]_<<vars, machines>>
       => WayInv'
<1> SUFFICES ASSUME TypeInv, TermInv, ExactInv, WayInv,
                    [ExecNext]_<<vars, machines>>
             PROVE  WayInv'
  OBVIOUS
<1>1. method \in Methods /\ CodeLength \in Nat \ {0}
  BY CodeFacts DEF TypeInv, TypeOK
<1>2. CASE Emit /\ UNCHANGED machines
  <2>1. outcome = "compiling"
    BY <1>2 DEF Emit, CopyParameter, EmitConst, EmitLocalLoad, EmitLocalStore,
                EmitDup, EmitOperation, EmitConditionalBranch, EmitGoto,
                EmitReturn, EmitUnknown, PopEmpty, EndBlock, AtInst, BlockDone,
                Compiling
  <2> QED BY <1>2, <2>1 DEF WayInv, machines
<1>3. CASE Call
  <2>1. /\ outcome = "emitted" /\ ~running /\ jpc = 0 /\ running' = TRUE
        /\ UNCHANGED <<vars, jpc, ipc>>
    BY <1>3 DEF Call
  <2>2. outcome' = outcome /\ Addresses' = Addresses
    BY <2>1 DEF vars, Addresses, CodeLength, Code
  <2>3. 0 \in Addresses
    BY <1>1, FrameFacts
  <2> QED BY <2>1, <2>2, <2>3 DEF WayInv
<1>4. CASE Execute
  <2>1. /\ running /\ InstAt(jpc).op # "return"
        /\ UNCHANGED <<vars, running>>
    BY <1>4 DEF Execute
  <2>2. PICK taken \in BOOLEAN : JvmStep(taken) /\ SsaStep(taken)
    BY <1>4 DEF Execute
  <2>3. outcome = "emitted" /\ jpc = ipc /\ jpc \in Addresses
    BY <2>1 DEF WayInv
  <2>4. jpc' = ipc' /\ jpc' \in Addresses
    BY <2>1, <2>2, <2>3, SameWay
  <2>5. outcome' = outcome /\ Addresses' = Addresses
    BY <2>1 DEF vars, Addresses, CodeLength, Code
  <2> QED BY <2>1, <2>3, <2>4, <2>5 DEF WayInv
<1>5. CASE Return
  <2>1. /\ running /\ running' = FALSE /\ jpc' = CodeLength
        /\ outcome' = outcome
    BY <1>5 DEF Return, vars
  <2> QED BY <1>1, <2>1 DEF WayInv
<1>6. CASE UNCHANGED <<vars, machines>>
  <2>1. outcome' = outcome /\ Addresses' = Addresses
        /\ UNCHANGED <<running, jpc, ipc, jstack, regs>>
    BY <1>6 DEF vars, machines, Addresses, CodeLength, Code
  <2> QED BY <2>1 DEF WayInv
<1> QED BY <1>2, <1>3, <1>4, <1>5, <1>6 DEF ExecNext

\* The program's steps are none of the compilation.
LEMMA ExecCompiles == ExecSpec => Spec
<1>1. ExecInit => Init
  BY DEF ExecInit
<1>2. [ExecNext]_<<vars, machines>> => [Next]_vars
  BY DEF ExecNext, Next, Call, Execute, Return
<1> QED BY <1>1, <1>2, PTL DEF ExecSpec, Spec

LEMMA ExactAlways == Spec => [](TypeInv /\ TermInv /\ ExactInv)
<1> DEFINE Inv == TypeInv /\ TermInv /\ ExactInv
<1>1. Init => Inv
  BY TypeInit, TermInit, ExactInit
<1>2. Inv /\ [Next]_vars => Inv'
  BY TypeStep, TermStep, ExactStep
<1> HIDE DEF Inv
<1>3. Spec => []Inv
  BY <1>1, <1>2, PTL DEF Spec
<1> QED BY <1>3 DEF Inv

LEMMA WayAlways == ExecSpec => [](TypeInv /\ TermInv /\ ExactInv /\ WayInv)
<1> DEFINE Inv == TypeInv /\ TermInv /\ ExactInv
<1>1. ExecSpec => []Inv
  BY ExactAlways, ExecCompiles, PTL
<1>2. ExecInit => WayInv
  BY DEF ExecInit, Init, WayInv
<1>3. Inv /\ WayInv /\ [ExecNext]_<<vars, machines>> => WayInv'
  BY WayStep
<1>4. Inv /\ WayInv <=> TypeInv /\ TermInv /\ ExactInv /\ WayInv
  OBVIOUS
<1> HIDE DEF Inv
<1> QED BY <1>1, <1>2, <1>3, <1>4, PTL DEF ExecSpec

\* The emitted code and the bytecode are at the same instruction after every
\* branch, loop and fall through, for all methods that a verifier lets through.
THEOREM AlwaysSamePoint == ExecSpec => []SamePoint
<1>1. WayInv => SamePoint
  BY DEF WayInv, SamePoint
<1> QED BY <1>1, WayAlways, PTL
-----------------------------------------------------------------------------
(* The values that the compiler had on its stack                           *)

\* What an instruction at the address a makes, as the compiler knows it.
MadeAt(a) == [def |-> a, type |-> InstAt(a).type]

\* The compiler has its stack only while it walks.  S is what was on it before
\* each instruction that lies behind: the operands that were recorded are the
\* topmost values, and each of them was made before.
Recorded(S, a) ==
    /\ Len(S[a]) = Len(FrameAt(a).stack)
    /\ Len(operands[a]) = Pops(InstAt(a))
    /\ \A k \in 1..Pops(InstAt(a)) :
          operands[a][k] = S[a][Len(S[a]) - Pops(InstAt(a)) + k].def
    /\ a + 1 \notin Leaders =>
          S[a + 1] = After(InstAt(a), S[a], MadeAt(a))

Before(S, a) == \A k \in 1..Len(S[a]) : S[a][k].def < a

Kept(S) ==
    /\ S \in [0..CodeLength -> Seq(StackValue)]
    /\ \A l \in Leaders : l <= pos => S[l] = <<>>
    /\ \A a \in 0..CodeLength : a <= pos => Before(S, a)
    /\ \A a \in Addresses : a < pos => Recorded(S, a)
    /\ Compiling => S[pos] = stack

Sound == InStatements(method) /\ outcome \in {"compiling", "emitted"}

KeptInv == Sound => \E S : Kept(S)

LEMMA KeptInit == Init => KeptInv
<1> SUFFICES ASSUME Init PROVE \E S : Kept(S)
  BY DEF KeptInv
<1> DEFINE S == [a \in 0..CodeLength |-> <<>>]
<1>1. /\ pos = 0 /\ stack = <<>> /\ CodeLength \in Nat
      /\ Leaders \subseteq 0..CodeLength
  BY CodeFacts, LeaderFacts DEF Init
<1>2. \A a \in 0..CodeLength : S[a] = <<>>
  OBVIOUS
<1>3. S \in [0..CodeLength -> Seq(StackValue)]
  OBVIOUS
<1>4. \A a \in Addresses : ~(a < pos)
  BY <1>1 DEF Addresses
<1> HIDE DEF S
<1>5. \A a \in 0..CodeLength : Before(S, a)
  BY <1>2 DEF Before
<1>6. Kept(S)
  BY <1>1, <1>2, <1>3, <1>4, <1>5 DEF Kept
<1> QED BY <1>6

\* Emitting an instruction adds what the stack is behind it.
LEMMA KeptEmission ==
    ASSUME TypeInv, ExactInv, LayoutInv, LayoutInv', [Next]_vars, Emission,
           InStatements(method), outcome' = "compiling", NEW S, Kept(S),
           NEW T, T = [S EXCEPT ![pos + 1] = stack']
    PROVE  Kept(T)'
<1>1. /\ method' = method /\ method \in Methods
      /\ CodeLength' = CodeLength /\ Leaders' = Leaders
      /\ Addresses' = Addresses /\ Code' = Code
      /\ Leaders \subseteq 0..CodeLength /\ CodeLength \in Nat
  BY MethodFixed, LeaderFacts, CodeFacts DEF TypeInv, TypeOK, Code
<1>2. /\ Compiling /\ pos \in Addresses /\ pos' = pos + 1 /\ pos \in Nat
      /\ pos + 1 \in 0..CodeLength /\ Inst.op # "unknown"
      /\ operands' = Put(operands, pos, Operands)
  BY <1>1 DEF Emission, Addresses
<1>3. /\ Inst = InstAt(pos) /\ Inst \in Instruction
      /\ stack \in Seq(StackValue) /\ Len(stack) = Len(StackAt(pos))
      /\ Pops(Inst) \in 0..Len(stack)
      /\ Inst.op = "dup" => Len(stack) >= 1
      /\ Inst.op \in {"const", "load"} => Inst.type \in Types
  BY <1>2, OperandsFound
<1>4. stack' = After(Inst, stack, Made(Inst.type)) /\ Made(Inst.type) = MadeAt(pos)
  BY <1>3 DEF Emission, Made, MadeAt
<1>5. S[pos] = stack /\ S \in [0..CodeLength -> Seq(StackValue)]
  BY <1>2 DEF Kept
<1>6. stack' \in Seq(StackValue) /\ \A k \in 1..Len(stack') : stack'[k].def < pos + 1
  <2> DEFINE R == {r \in StackValue \X StackValue : r[1].def < pos + 1}
             made == Made(Inst.type)
  <2>1. made \in StackValue /\ made.def = pos
    BY <1>2, <1>3 DEF Made, StackValue, Instruction
  <2>2. \A k \in 1..Len(stack) : stack[k].def < pos /\ stack[k].def \in Nat
    <3>1. \A k \in 1..Len(stack) : stack[k].def < pos
      <4>1. pos \in 0..CodeLength /\ pos <= pos
        BY <1>1, <1>2 DEF Addresses
      <4>2. Before(S, pos)
        BY <4>1 DEF Kept
      <4> QED BY <1>5, <4>2 DEF Before
    <3>2. \A k \in 1..Len(stack) : stack[k] \in StackValue
      BY <1>3
    <3> QED BY <3>1, <3>2, <1>1 DEF StackValue, Addresses
  <2>3. Related(stack, stack, R)
    BY <1>2, <1>3, <2>2 DEF Related
  <2>4. <<made, made>> \in R
    BY <1>2, <2>1
  <2>5. \A v, u : <<v, u>> \in R => v.def < pos + 1
    OBVIOUS
  <2> HIDE DEF R, made
  <2>6. /\ After(Inst, stack, made) \in Seq(StackValue)
        /\ Related(After(Inst, stack, made), After(Inst, stack, made), R)
    BY <1>3, <2>1, <2>3, <2>4, AfterFacts
  <2> QED BY <1>4, <2>5, <2>6 DEF Related, made
<1>7. pos + 1 \in Leaders => stack' = <<>>
  <2> SUFFICES ASSUME pos + 1 \in Leaders PROVE stack' = <<>>
    OBVIOUS
  <2>1. StackAt(pos + 1) = <<>>
    BY <1>1, LeaderStacks
  <2>2. StackAt(pos)' = StackAt(pos + 1)
    BY <1>1, <1>2 DEF StackAt, FrameAt
  <2>3. InStatements(method)'
    BY <1>1 DEF InStatements
  <2>4. Len(stack') = Len(StackAt(pos)')
    BY <2>3 DEF LayoutInv, StackTyped, Compiling
  <2> QED BY <1>6, <2>1, <2>2, <2>4
<1>8. /\ T \in [0..CodeLength -> Seq(StackValue)]
      /\ T[pos + 1] = stack'
      /\ \A a \in 0..CodeLength : a <= pos => T[a] = S[a]
  BY <1>1, <1>2, <1>5, <1>6
<1>9. /\ Len(Operands) = Pops(Inst)
      /\ \A k \in 1..Pops(Inst) :
            Operands[k] = stack[Len(stack) - Pops(Inst) + k].def
  <2>1. /\ Args \in Seq(StackValue) /\ Len(Args) = Pops(Inst)
        /\ \A k \in 1..Pops(Inst) :
              Args[k] = stack[Len(stack) - Pops(Inst) + k]
    BY <1>3, TopFacts DEF Args
  <2> QED BY <1>3, <2>1 DEF Operands
<1>10. \A l \in Leaders : l <= pos + 1 => T[l] = <<>>
  <2> SUFFICES ASSUME NEW l \in Leaders, l <= pos + 1 PROVE T[l] = <<>>
    OBVIOUS
  <2>1. l \in Nat /\ (l = pos + 1 \/ l <= pos)
    BY <1>1, <1>2
  <2> QED BY <1>1, <1>7, <1>8, <2>1 DEF Kept
<1>11. \A a \in 0..CodeLength : a <= pos + 1 => Before(T, a)
  <2> SUFFICES ASSUME NEW a \in 0..CodeLength, a <= pos + 1
               PROVE  Before(T, a)
    OBVIOUS
  <2>1. CASE a = pos + 1
    BY <1>6, <1>8, <2>1 DEF Before
  <2>2. CASE a <= pos
    BY <1>8, <2>2 DEF Kept, Before
  <2> QED BY <1>1, <1>2, <2>1, <2>2
<1>12. \A a \in Addresses : a < pos + 1 => Recorded(T, a)'
  <2> SUFFICES ASSUME NEW a \in Addresses, a < pos + 1 PROVE Recorded(T, a)'
    OBVIOUS
  <2>1. /\ FrameAt(a)' = FrameAt(a) /\ InstAt(a)' = InstAt(a)
        /\ MadeAt(a)' = MadeAt(a)
    BY <1>1 DEF FrameAt, InstAt, MadeAt
  <2>2. CASE a < pos
    <3>1. Recorded(S, a) /\ a \in 0..CodeLength /\ a + 1 \in 0..CodeLength
          /\ a <= pos /\ a + 1 <= pos
      BY <1>1, <1>2, <2>2 DEF Kept, Addresses
    <3>2. operands'[a] = operands[a]
      <4>1. a \in DOMAIN operands /\ a # pos
        BY <1>2, <2>2 DEF ExactInv, CodePassed, Compiling, Addresses
      <4> QED BY <1>2, <4>1 DEF Put
    <3>3. T[a] = S[a] /\ T[a + 1] = S[a + 1]
      BY <1>8, <3>1
    <3> QED BY <1>1, <2>1, <3>1, <3>2, <3>3 DEF Recorded
  <2>3. CASE a = pos
    <3>1. operands'[a] = Operands
      BY <1>2, <2>3 DEF Put
    <3>2. T[a] = stack /\ T[a + 1] = stack'
      BY <1>1, <1>2, <1>5, <1>8, <2>3
    <3>3. Len(stack) = Len(FrameAt(a).stack)
      BY <1>2, <1>3, <2>3 DEF StackAt
    <3> QED
      BY <1>1, <1>3, <1>4, <1>9, <2>1, <2>3, <3>1, <3>2, <3>3 DEF Recorded
  <2>4. a < pos \/ a = pos
    BY <1>1, <1>2 DEF Addresses
  <2> QED BY <2>2, <2>3, <2>4
<1>13. \A a \in 0..CodeLength : Before(T, a)' <=> Before(T, a)
  BY DEF Before
<1>14. T \in [0..CodeLength -> Seq(StackValue)]'
  BY <1>1, <1>8 DEF StackValue
<1> QED
  BY <1>1, <1>2, <1>8, <1>10, <1>11, <1>12, <1>13, <1>14 DEF Kept

\* Every step keeps the record.
LEMMA KeptStep ==
    TypeInv /\ TermInv /\ TermInv' /\ ExactInv /\ LayoutInv /\ LayoutInv' /\ KeptInv
       /\ [Next]_vars => KeptInv'
<1> SUFFICES ASSUME TypeInv, TermInv, TermInv', ExactInv, LayoutInv,
                    LayoutInv', KeptInv, [Next]_vars, Sound'
             PROVE  \E S : Kept(S)'
  BY DEF KeptInv
<1>1. /\ method' = method /\ method \in Methods
      /\ CodeLength' = CodeLength /\ Leaders' = Leaders
      /\ Addresses' = Addresses /\ Code' = Code
      /\ InStatements(method)
      /\ outcome' \in {"compiling", "emitted"}
  <2>1. method' = method
    BY MethodFixed
  <2> QED BY <2>1, MethodFixed DEF TypeInv, TypeOK, Code, Sound, InStatements
<1>2. \A S, a : /\ Before(S, a)' <=> Before(S, a)
                /\ operands' = operands => (Recorded(S, a)' <=> Recorded(S, a))
  BY <1>1 DEF Before, Recorded, FrameAt, InstAt, MadeAt
<1>3. ASSUME outcome \in {"compiling", "emitted"}, NEW S, Kept(S),
             UNCHANGED <<pos, stack, operands>>, Compiling' => Compiling
      PROVE  Kept(S)'
  BY <1>1, <1>2, <1>3 DEF Kept, StackValue
<1>4. outcome \in {"compiling", "emitted"} => \E S : Kept(S)
  BY <1>1 DEF KeptInv, Sound
<1>5. CASE Waits
  BY <1>1, <1>3, <1>4, <1>5 DEF Waits, Compiling
<1>6. CASE Emission
  <2>1. outcome' = "compiling" /\ outcome = "compiling"
    BY <1>1, <1>6 DEF Emission, Compiling
  <2>2. PICK S : Kept(S)
    BY <1>4, <2>1
  <2>3. PICK T : T = [S EXCEPT ![pos + 1] = stack']
    OBVIOUS
  <2> QED BY <1>1, <1>6, <2>1, <2>2, <2>3, KeptEmission
<1>7. CASE Refuses
  BY <1>1, <1>7 DEF Refuses
<1>8. CASE Closes
  <2>1. /\ Compiling /\ UNCHANGED <<stack, operands>> /\ pos' = pos
    BY <1>8 DEF Closes
  <2> QED BY <1>3, <1>4, <2>1 DEF Compiling
<1> QED BY <1>5, <1>6, <1>7, <1>8, StepKinds

-----------------------------------------------------------------------------
(* Parameters                                                              *)

\* The slots behind a parameter: one more, and one more for a wide one.
LEMMA SlotFacts ==
    ASSUME method \in Methods
    PROVE  /\ Slot(1) = 0
           /\ \A n \in DOMAIN method.params :
                 Slot(n + 1) = Slot(n) + Width(method.params[n])
           /\ \A n \in DOMAIN method.params : Slot(n) \in Nat
           /\ \A n, o \in DOMAIN method.params : n # o => Slot(n) # Slot(o)
<1> DEFINE Wide(n) == {j \in 1..(n - 1) : Width(method.params[j]) = 2}
<1>1. \A n : Slot(n) = n - 1 + Cardinality(Wide(n))
  BY DEF Slot, SlotOf
<1>2. /\ method.params \in Seq(Types)
      /\ DOMAIN method.params = 1..Len(method.params)
      /\ Len(method.params) \in Nat
  BY MethodsAssumption
<1>3. \A n \in Nat : IsFiniteSet(Wide(n)) /\ Cardinality(Wide(n)) \in Nat
  <2> SUFFICES ASSUME NEW n \in Nat
               PROVE  IsFiniteSet(Wide(n)) /\ Cardinality(Wide(n)) \in Nat
    OBVIOUS
  <2>1. IsFiniteSet(1..(n - 1)) /\ Wide(n) \subseteq 1..(n - 1)
    BY FS_Interval
  <2> HIDE DEF Wide
  <2>2. IsFiniteSet(Wide(n))
    BY <2>1, FS_Subset
  <2> QED BY <2>2, FS_CardinalityType
<1>4. Slot(1) = 0
  <2>1. Wide(1) = {}
    OBVIOUS
  <2>2. Cardinality(Wide(1)) = 0
    BY <2>1, FS_EmptySet
  <2> HIDE DEF Wide
  <2> QED BY <1>1, <2>2
<1>5. ASSUME NEW n \in 1..Len(method.params)
      PROVE  Slot(n + 1) = Slot(n) + Width(method.params[n])
  <2>1. n \in Nat /\ n + 1 \in Nat /\ n \notin Wide(n)
    OBVIOUS
  <2>2. CASE Width(method.params[n]) = 2
    <3>1. Wide(n + 1) = Wide(n) \cup {n}
      BY <2>1, <2>2
    <3> HIDE DEF Wide
    <3>2. Cardinality(Wide(n + 1)) = Cardinality(Wide(n)) + 1
      BY <1>3, <2>1, <3>1, FS_AddElement
    <3> QED BY <1>1, <1>3, <2>1, <2>2, <3>2
  <2>3. CASE Width(method.params[n]) # 2
    <3>1. Wide(n + 1) = Wide(n)
      BY <2>1, <2>3
    <3>2. Width(method.params[n]) = 1
      BY <2>3 DEF Width
    <3> HIDE DEF Wide
    <3> QED BY <1>1, <1>3, <2>1, <3>1, <3>2
  <2> QED BY <2>2, <2>3
<1>6. ASSUME NEW n \in 1..Len(method.params) PROVE Slot(n) \in Nat
  <2>1. n \in Nat /\ n - 1 \in Nat
    BY <1>2
  <2> HIDE DEF Wide
  <2>2. Cardinality(Wide(n)) \in Nat /\ Slot(n) = n - 1 + Cardinality(Wide(n))
    BY <1>1, <1>3, <2>1
  <2> QED BY <2>1, <2>2
<1>7. ASSUME NEW n \in 1..Len(method.params), NEW o \in 1..Len(method.params),
             n < o
      PROVE  Slot(n) < Slot(o)
  <2>1. Wide(n) \subseteq Wide(o) /\ n \in Nat /\ o \in Nat
    BY <1>7
  <2> HIDE DEF Wide
  <2>2. Cardinality(Wide(n)) <= Cardinality(Wide(o))
    BY <1>3, <2>1, FS_Subset
  <2> QED BY <1>1, <1>3, <1>7, <2>1, <2>2
<1>8. ASSUME NEW n \in 1..Len(method.params), NEW o \in 1..Len(method.params),
             n # o
      PROVE  Slot(n) # Slot(o)
  <2>1. n < o \/ o < n
    BY <1>8
  <2>2. Slot(n) \in Nat /\ Slot(o) \in Nat
    BY <1>6
  <2> QED BY <1>7, <2>1, <2>2
<1> QED BY <1>2, <1>4, <1>5, <1>6, <1>8

\* The compiler copies each parameter to the slot that the JVM gives it.
CopiedInv ==
    /\ Len(copied) <= Len(method.params)
    /\ javaIndex = Slot(Len(copied) + 1)
    /\ \A i \in 1..Len(copied) : copied[i] = <<Slot(i), method.params[i]>>
    /\ outcome = "emitted" => Len(copied) = Len(method.params)

LEMMA CopiedInit == Init => CopiedInv
<1> SUFFICES ASSUME Init PROVE CopiedInv
  OBVIOUS
<1>1. method \in Methods /\ copied = <<>> /\ javaIndex = 0
      /\ outcome = "compiling"
  BY DEF Init
<1>2. Slot(1) = 0 /\ Len(method.params) \in Nat
  BY <1>1, SlotFacts, MethodsAssumption
<1> QED BY <1>1, <1>2 DEF CopiedInv

LEMMA CopiedStep == TypeInv /\ CopiedInv /\ [Next]_vars => CopiedInv'
<1> SUFFICES ASSUME TypeInv, CopiedInv, [Next]_vars PROVE CopiedInv'
  OBVIOUS
<1>1. /\ method' = method /\ method \in Methods /\ copied \in Seq(Nat \X Types)
      /\ method.params \in Seq(Types)
      /\ DOMAIN method.params = 1..Len(method.params)
      /\ \A i : Slot(i)' = Slot(i)
  BY MethodFixed, MethodsAssumption DEF TypeInv, TypeOK, Slot
<1>2. CASE CopyParameter
  <2> DEFINE n == Len(copied) + 1
  <2>1. /\ n \in DOMAIN method.params /\ Len(copied) \in Nat
        /\ copied' = Append(copied, <<javaIndex, method.params[n]>>)
        /\ javaIndex' = javaIndex + Width(method.params[n])
        /\ outcome' = outcome /\ outcome = "compiling"
    BY <1>1, <1>2 DEF CopyParameter, Local, Compiling
  <2>2. javaIndex = Slot(n)
    BY DEF CopiedInv
  <2>3. javaIndex' = Slot(n + 1)
    BY <1>1, <2>1, <2>2, SlotFacts
  <2>4. Len(copied') = n
    BY <1>1, <2>1
  <2>5. ASSUME NEW i \in 1..n PROVE copied'[i] = <<Slot(i), method.params[i]>>
    <3>1. CASE i = n
      BY <1>1, <2>1, <2>2, <3>1
    <3>2. CASE i # n
      <4>1. i \in 1..Len(copied) /\ copied'[i] = copied[i]
        BY <1>1, <2>1, <3>2
      <4> QED BY <4>1 DEF CopiedInv
    <3> QED BY <3>1, <3>2
  <2>6. n <= Len(method.params)
    BY <1>1, <2>1
  <2>7. javaIndex' = Slot(Len(copied) + 1)'
    <3>1. PICK c : c = Len(copied') + 1
      OBVIOUS
    <3> QED BY <1>1, <2>3, <2>4, <3>1
  <2> QED BY <1>1, <2>1, <2>4, <2>5, <2>6, <2>7 DEF CopiedInv
<1>3. CASE /\ UNCHANGED <<javaIndex, copied>>
           /\ outcome' = "emitted" => outcome = "emitted"
                                      \/ Len(copied) = Len(method.params)
  <2>1. javaIndex' = Slot(Len(copied) + 1)'
    BY <1>1, <1>3 DEF CopiedInv, Slot
  <2> QED BY <1>1, <1>3, <2>1 DEF CopiedInv
<1>4. UNCHANGED <<javaIndex, copied>> \/ CopyParameter
  BY DEF Next, Emit, vars, EmitConst, EmitLocalLoad, EmitLocalStore, EmitDup,
         EmitOperation, EmitConditionalBranch, EmitGoto, EmitReturn,
         EmitUnknown, PopEmpty, EndBlock, Advance
<1>5. \/ outcome' # "emitted"
      \/ outcome' = outcome
      \/ Len(copied) = Len(method.params)
  BY DEF Next, Emit, vars, CopyParameter, EmitConst, EmitLocalLoad,
         EmitLocalStore, EmitDup, EmitOperation, EmitConditionalBranch,
         EmitGoto, EmitReturn, EmitUnknown, PopEmpty, EndBlock, AtInst,
         BlockDone, Terminate
<1> QED BY <1>2, <1>3, <1>4, <1>5

-----------------------------------------------------------------------------
(* The values of the program                                               *)

Value == {"unset", "parameter", "result"} \X Nat

MachineTypes ==
    /\ jstack \in Seq(Value)
    /\ \A k \in DOMAIN jlocals : jlocals[k] \in Value
    /\ \A k \in DOMAIN regs : regs[k] \in Value
    /\ \A k \in DOMAIN mem : mem[k] \in Value

\* The register of a value that the compiler knows holds what the JVM has.
Held == {r \in StackValue \X Value : Read(regs, r[1].def) = r[2]}

\* The JVM has on its stack what the registers hold of the values that the
\* compiler had there; a local of a type that a load may ask for is in the memory
\* cell of its slot and that type.
Matches(S) ==
    /\ Related(S[jpc], jstack, Held)
    /\ \A l \in FrameAt(jpc).locals : Read(mem, l) = Read(jlocals, l[1])

MatchInv ==
    InStatements(method) /\ running =>
        MachineTypes /\ \A S : Kept(S) => Matches(S)

LEMMA ReadFacts ==
    ASSUME MachineTypes, NEW k
    PROVE  /\ Read(regs, k) \in Value
           /\ Read(mem, k) \in Value
           /\ Read(jlocals, k) \in Value
BY DEF MachineTypes, Read, Unset, Value

\* What is put is read back, and the rest is as it was.
LEMMA ReadPut ==
    ASSUME NEW f, NEW k, NEW v
    PROVE  /\ Read(Put(f, k, v), k) = v
           /\ \A x : x # k => Read(Put(f, k, v), x) = Read(f, x)
           /\ \A x \in DOMAIN Put(f, k, v) :
                 Put(f, k, v)[x] = v \/ (x \in DOMAIN f /\ Put(f, k, v)[x] = f[x])
BY DEF Read, Put

\* The operands of an instruction are the same in both machines.
LEMMA SameArgs ==
    ASSUME TypeInv, ExactInv, outcome = "emitted", NEW S, Kept(S),
           MachineTypes, NEW a \in Addresses, Related(S[a], jstack, Held)
    PROVE  /\ Pops(InstAt(a)) \in 0..Len(jstack)
           /\ InstAt(a).op = "dup" => Len(jstack) >= 1
           /\ Len(S[a]) = Len(jstack) /\ S[a] \in Seq(StackValue)
           /\ IArgs(a) = JArgs(InstAt(a))
<1> DEFINE i == InstAt(a)
           p == Pops(i)
           n == Len(jstack)
<1>1. /\ method \in Methods /\ a \in 0..CodeLength /\ a < pos
      /\ Recorded(S, a) /\ S[a] \in Seq(StackValue)
      /\ jstack \in Seq(Value) /\ n \in Nat /\ Len(S[a]) = n
      /\ a \in DOMAIN operands /\ operands[a] \in Seq(Addresses)
  BY CodeFacts DEF TypeInv, TypeOK, ExactInv, CodePassed, Kept, Addresses,
                   MachineTypes, Related
<1>2. /\ Len(FrameAt(a).stack) >= IF i.op = "dup" THEN 1 ELSE p
      /\ p \in Nat
  BY <1>1, FrameFacts, PopsFacts DEF Accepts
<1>3. p \in 0..n /\ (i.op = "dup" => n >= 1)
  <2>1. i.op = "dup" => p = 0
    BY DEF Pops
  <2>2. Len(FrameAt(a).stack) = n
    BY <1>1 DEF Recorded
  <2> QED BY <1>1, <1>2, <2>1, <2>2
<1>4. /\ JArgs(i) \in Seq(Value) /\ Len(JArgs(i)) = p
      /\ \A k \in 1..p : JArgs(i)[k] = jstack[n - p + k]
  BY <1>1, <1>3, TopFacts DEF JArgs
<1>5. /\ Len(operands[a]) = p
      /\ \A k \in 1..p : operands[a][k] = S[a][n - p + k].def
  BY <1>1 DEF Recorded
<1>6. DOMAIN operands[a] = 1..p /\ DOMAIN JArgs(i) = 1..p
  BY <1>1, <1>4, <1>5
<1>7. ASSUME NEW k \in 1..p PROVE Read(regs, operands[a][k]) = JArgs(i)[k]
  <2>1. n - p + k \in 1..n
    BY <1>1, <1>3
  <2>2. <<S[a][n - p + k], jstack[n - p + k]>> \in Held
    BY <1>1, <2>1 DEF Related
  <2>3. Read(regs, S[a][n - p + k].def) = jstack[n - p + k]
    BY <2>2 DEF Held
  <2> QED BY <1>4, <1>5, <2>3
<1>8. IArgs(a) = JArgs(i)
  <2>1. IArgs(a) = [k \in 1..p |-> Read(regs, operands[a][k])]
    BY <1>6 DEF IArgs
  <2>2. JArgs(i) = [k \in 1..p |-> JArgs(i)[k]]
    BY <1>4, <1>6
  <2> QED BY <1>7, <2>1, <2>2
<1> QED BY <1>1, <1>3, <1>8

\* An instruction that both machines execute leaves what the compiler had on its
\* stack behind it.
LEMMA MatchExecute ==
    ASSUME TypeInv, TermInv, ExactInv, outcome = "emitted",
           InStatements(method), NEW S, Kept(S), MachineTypes, Matches(S),
           jpc = ipc, jpc \in Addresses, InstAt(jpc).op # "return",
           NEW taken \in BOOLEAN, JvmStep(taken), SsaStep(taken),
           UNCHANGED vars
    PROVE  MachineTypes' /\ Matches(S)'
<1>1. PICK a : a = jpc
  OBVIOUS
<1> DEFINE i == InstAt(a)
           jm == IF i.op = "load" THEN Read(jlocals, i.arg) ELSE Result(a)
           HeldNow == {r \in StackValue \X Value : Read(regs', r[1].def) = r[2]}
<1>2. /\ method \in Methods /\ a \in Addresses /\ a \in Nat /\ ipc = a
      /\ a \in 0..CodeLength /\ a < pos /\ a <= pos /\ pos = CodeLength
      /\ jstack \in Seq(Value) /\ i \in Instruction
      /\ Addresses \subseteq Nat
  BY <1>1, CodeFacts, PopsFacts
     DEF TypeInv, TypeOK, ExactInv, CodePassed, Addresses, MachineTypes
<1>3. /\ Related(S[a], jstack, Held)
      /\ \A l \in FrameAt(a).locals : Read(mem, l) = Read(jlocals, l[1])
  BY <1>1 DEF Matches
<1>4. /\ Pops(i) \in 0..Len(jstack)
      /\ i.op = "dup" => Len(jstack) >= 1
      /\ Len(S[a]) = Len(jstack) /\ S[a] \in Seq(StackValue)
      /\ IArgs(a) = JArgs(i)
      /\ Len(jstack) \in Nat
  BY <1>2, <1>3, SameArgs
<1>5. /\ Recorded(S, a) /\ Before(S, a)
      /\ Accepts(i, FrameAt(a)) /\ FrameAt(a) \in Frame
  BY <1>2, FrameFacts DEF Kept
<1>6. /\ a' = a /\ jpc' \in Nexts(i, a) /\ jpc' \in Addresses
      /\ Merges(i, FrameAt(a), FrameAt(jpc'))
      /\ i.op # "unknown"
  <2>1. jpc' \in Nexts(i, a) /\ jpc' \in Addresses
    BY <1>1, SameWay
  <2>2. i.op # "unknown"
    BY <1>2 DEF ExactInv, CodePassed
  <2> QED BY <1>2, <2>1, <2>2, FrameFacts
<1>7. jm \in Value /\ MadeAt(a) \in StackValue
  BY <1>2, ReadFacts DEF Result, Value, MadeAt, StackValue, Instruction
\* The JVM
<1>8. jstack' = After(i, jstack, jm)
  <2>1. jstack' =
            CASE i.op \in {"const", "binary", "cast", "invoke"}
                      /\ i.type # "void" -> Append(JRest(i), Result(a))
              [] i.op = "load" -> Append(jstack, Read(jlocals, i.arg))
              [] i.op = "dup" -> Append(jstack, jstack[Len(jstack)])
              [] OTHER -> JRest(i)
    BY <1>1 DEF JvmStep
  <2>2. JRest(i) = SubSeq(jstack, 1, Len(jstack) - Pops(i))
    BY DEF JRest
  <2>3. CASE i.op = "load"
    <3>1. i.type # "void" /\ Pops(i) = 0
      BY <1>5, <2>3 DEF Accepts, Types, Pops
    <3>2. SubSeq(jstack, 1, Len(jstack) - 0) = jstack
      BY <1>2
    <3> QED BY <2>1, <2>3, <3>1, <3>2 DEF After, Pushing
  <2>4. CASE i.op = "dup"
    BY <2>1, <2>4 DEF After, Pushing
  <2>5. CASE i.op \in {"const", "binary", "cast", "invoke"} /\ i.type # "void"
    BY <2>1, <2>2, <2>5 DEF After, Pushing
  <2>6. CASE /\ i.op \notin {"load", "dup"}
             /\ ~(i.op \in {"const", "binary", "cast", "invoke"}
                     /\ i.type # "void")
    BY <2>1, <2>2, <2>6 DEF After, Pushing
  <2> QED BY <2>3, <2>4, <2>5, <2>6
\* The registers
<1>9. /\ \A k : k # a => Read(regs', k) = Read(regs, k)
      /\ i.op \in Pushing /\ i.type # "void" => Read(regs', a) = jm
      /\ \A k \in DOMAIN regs' : regs'[k] \in Value
  <2>1. regs' = CASE i.op \in {"const", "binary", "cast", "invoke"} ->
                        Put(regs, a, Result(a))
                  [] i.op = "load" ->
                        Put(regs, a, Read(mem, <<i.arg, i.type>>))
                  [] OTHER -> regs
    BY <1>2 DEF SsaStep
  <2>2. \A k \in DOMAIN regs : regs[k] \in Value
    BY DEF MachineTypes
  <2>3. CASE i.op = "load"
    <3>1. <<i.arg, i.type>> \in FrameAt(a).locals
      BY <1>5, <2>3 DEF Accepts
    <3>2. Read(mem, <<i.arg, i.type>>) = Read(jlocals, i.arg)
      BY <1>3, <3>1
    <3>3. regs' = Put(regs, a, jm)
      BY <2>1, <2>3, <3>2
    <3> HIDE DEF jm
    <3> QED BY <1>7, <2>2, <3>3, ReadPut
  <2>4. CASE i.op \in {"const", "binary", "cast", "invoke"}
    <3>1. regs' = Put(regs, a, jm)
      BY <2>1, <2>4
    <3> HIDE DEF jm
    <3> QED BY <1>7, <2>2, <3>1, ReadPut
  <2>5. CASE i.op \notin {"const", "binary", "cast", "invoke", "load"}
    BY <2>1, <2>2, <2>5 DEF Pushing
  <2> QED BY <2>3, <2>4, <2>5
<1>10. /\ After(i, S[a], MadeAt(a)) \in Seq(StackValue)
       /\ jstack' \in Seq(Value)
       /\ Related(After(i, S[a], MadeAt(a)), jstack', HeldNow)
  <2>1. Related(S[a], jstack, HeldNow)
    <3>1. ASSUME NEW k \in 1..Len(S[a])
          PROVE  <<S[a][k], jstack[k]>> \in HeldNow
      <4>1. /\ <<S[a][k], jstack[k]>> \in Held /\ S[a][k] \in StackValue
            /\ jstack[k] \in Value
        BY <1>2, <1>3, <1>4 DEF Related
      <4>2. S[a][k].def \in Nat /\ S[a][k].def < a
        BY <1>2, <1>5, <4>1 DEF Before, StackValue
      <4>3. Read(regs', S[a][k].def) = Read(regs, S[a][k].def)
        BY <1>2, <1>9, <4>2
      <4> QED BY <4>1, <4>3 DEF Held
    <3> QED BY <1>4, <3>1 DEF Related
  <2>2. i.op \in Pushing /\ i.type # "void" => <<MadeAt(a), jm>> \in HeldNow
    BY <1>7, <1>9 DEF MadeAt
  <2> HIDE DEF HeldNow, jm
  <2> QED BY <1>2, <1>4, <1>7, <1>8, <2>1, <2>2, AfterFacts
<1>11. Related(S[jpc'], jstack', HeldNow)
  <2>1. CASE jpc' \in Leaders
    <3>1. S[jpc'] = <<>>
      <4>1. jpc' <= pos
        BY <1>2, <1>6, CodeFacts DEF Addresses
      <4> QED BY <2>1, <4>1 DEF Kept
    <3>2. FrameAt(jpc').stack = <<>>
      BY <1>2, <1>6, <2>1, LeaderStacks DEF StackAt
    <3>3. After(i, FrameAt(a).stack, i.type) = <<>>
      BY <1>6, <3>2 DEF Merges
    <3>4. Len(jstack') = Len(After(i, FrameAt(a).stack, i.type))
      <4> DEFINE R == Value \X StackTypes
                 t == FrameAt(a).stack
      <4>1. t \in Seq(StackTypes) /\ i.type \in StackTypes
        BY <1>2, <1>5 DEF Frame, StackTypes, Instruction
      <4>2. Len(t) = Len(jstack)
        BY <1>4, <1>5 DEF Recorded
      <4>3. Related(jstack, t, R) /\ <<jm, i.type>> \in R
        BY <1>2, <1>7, <4>1, <4>2 DEF Related
      <4> HIDE DEF R, t, jm
      <4>4. Related(After(i, jstack, jm), After(i, t, i.type), R)
        BY <1>2, <1>4, <1>7, <4>1, <4>3, AfterFacts
      <4> QED BY <1>8, <4>4 DEF Related, t
    <3>5. jstack' = <<>>
      BY <1>10, <3>3, <3>4
    <3> QED BY <3>1, <3>5 DEF Related
  <2>2. CASE jpc' \notin Leaders
    <3>1. jpc' = a + 1
      <4>1. a \in Branches => Target(a) \in Leaders /\ a + 1 \in Leaders
        BY <1>2, LeaderFacts
      <4>2. i.op \in BranchOps => a \in Branches
        BY <1>2 DEF Branches, Addresses
      <4> QED BY <1>6, <2>2, <4>1, <4>2 DEF Nexts, BranchOps, Target
    <3>2. S[jpc'] = After(i, S[a], MadeAt(a))
      BY <1>5, <2>2, <3>1 DEF Recorded
    <3> QED BY <1>10, <3>2
  <2> QED BY <2>1, <2>2
\* The locals
<1>12. /\ \A l \in FrameAt(jpc').locals : Read(mem', l) = Read(jlocals', l[1])
       /\ \A k \in DOMAIN mem' : mem'[k] \in Value
       /\ \A k \in DOMAIN jlocals' : jlocals'[k] \in Value
  <2>1. /\ mem' = IF i.op = "store"
                  THEN Put(mem, <<i.arg, i.type>>, IArgs(a)[1]) ELSE mem
        /\ jlocals' = IF i.op = "store" THEN Put(jlocals, i.arg, JArgs(i)[1])
                                        ELSE jlocals
    BY <1>1, <1>2 DEF SsaStep, JvmStep
  <2>2. FrameAt(jpc').locals \subseteq LocalsAfter(i, FrameAt(a).locals)
    BY <1>6 DEF Merges
  <2>3. /\ \A k \in DOMAIN mem : mem[k] \in Value
        /\ \A k \in DOMAIN jlocals : jlocals[k] \in Value
    BY DEF MachineTypes
  <2>4. CASE i.op # "store"
    BY <1>3, <2>1, <2>2, <2>3, <2>4 DEF LocalsAfter
  <2>5. CASE i.op = "store"
    <3> DEFINE v == JArgs(i)[1]
    <3>1. v \in Value
      <4>1. Pops(i) = 1 /\ 1 \in 0..Len(jstack)
        BY <1>4, <2>5 DEF Pops
      <4>2. /\ SubSeq(jstack, Len(jstack) - 1 + 1, Len(jstack)) \in Seq(Value)
            /\ Len(SubSeq(jstack, Len(jstack) - 1 + 1, Len(jstack))) = 1
        BY <1>2, <4>1, TopFacts
      <4> QED BY <4>1, <4>2 DEF JArgs
    <3>2. /\ mem' = Put(mem, <<i.arg, i.type>>, v)
          /\ jlocals' = Put(jlocals, i.arg, v)
      BY <1>4, <2>1, <2>5
    <3> HIDE DEF v
    <3>3. ASSUME NEW l \in FrameAt(jpc').locals
          PROVE  Read(mem', l) = Read(jlocals', l[1])
      <4>1. CASE l = <<i.arg, i.type>>
        BY <3>2, <4>1, ReadPut
      <4>2. CASE l \in FrameAt(a).locals /\ l[1] # i.arg
        <5>1. l # <<i.arg, i.type>>
          BY <4>2
        <5> QED BY <1>3, <3>2, <4>2, <5>1, ReadPut
      <4> QED BY <2>2, <2>5, <4>1, <4>2 DEF LocalsAfter
    <3> QED BY <2>3, <3>1, <3>2, <3>3, ReadPut
  <2> QED BY <2>4, <2>5
<1>13. MachineTypes'
  BY <1>9, <1>10, <1>12 DEF MachineTypes
<1>14. Matches(S)'
  <2>1. Held' = HeldNow
    BY DEF vars, Held, StackValue, Addresses, CodeLength, Code
  <2>2. FrameAt(jpc)' = FrameAt(jpc')
    BY DEF FrameAt, vars
  <2> HIDE DEF HeldNow
  <2> QED BY <1>11, <1>12, <2>1, <2>2 DEF Matches, Related
<1> QED BY <1>13, <1>14

\* What the program is called with is where the compiler copied it to.
LEMMA MatchCall ==
    ASSUME TypeInv, CopiedInv, WayInv, Call, NEW S, Kept(S)
    PROVE  MachineTypes' /\ Matches(S)'
<1> DEFINE P == method.params
           D == DOMAIN method.params
<1>1. /\ method \in Methods /\ outcome = "emitted" /\ ~running /\ jpc = 0
      /\ jlocals' = [s \in {Slot(i) : i \in D} |->
                        Param(CHOOSE i \in D : Slot(i) = s)]
      /\ mem' = [l \in {copied[i] : i \in DOMAIN copied} |->
                    Param(CHOOSE i \in DOMAIN copied : copied[i] = l)]
      /\ UNCHANGED <<vars, jpc, jstack, regs>>
  BY DEF Call, TypeInv, TypeOK
<1>2. jstack = <<>> /\ jpc' = 0 /\ jstack' = <<>>
  BY <1>1 DEF WayInv
<1>3. /\ D = 1..Len(P) /\ DOMAIN copied = D
      /\ \A i \in D : copied[i] = <<Slot(i), P[i]>>
      /\ \A i \in D : i \in Nat
  <2>1. P \in Seq(Types) /\ copied \in Seq(Nat \X Types)
    BY <1>1, MethodsAssumption DEF TypeInv, TypeOK
  <2>2. Len(copied) = Len(P)
    BY <1>1 DEF CopiedInv
  <2> QED BY <2>1, <2>2 DEF CopiedInv
<1>4. \A i, j \in D : Slot(i) = Slot(j) => i = j
  BY <1>1, SlotFacts
<1>5. ASSUME NEW i \in D
      PROVE  /\ (CHOOSE j \in D : Slot(j) = Slot(i)) = i
             /\ (CHOOSE j \in DOMAIN copied : copied[j] = copied[i]) = i
  BY <1>3, <1>4
<1>6. ASSUME NEW i \in D
      PROVE  /\ Read(jlocals', Slot(i)) = Param(i)
             /\ Read(mem', <<Slot(i), P[i]>>) = Param(i)
  <2>1. Slot(i) \in DOMAIN jlocals' /\ jlocals'[Slot(i)] = Param(i)
    BY <1>1, <1>5
  <2>2. copied[i] \in DOMAIN mem' /\ mem'[copied[i]] = Param(i)
    <3>1. i \in DOMAIN copied
      BY <1>3
    <3>2. mem'[copied[i]] = Param(CHOOSE j \in DOMAIN copied :
                                     copied[j] = copied[i])
      BY <1>1, <3>1
    <3> QED BY <1>1, <1>5, <3>1, <3>2
  <2> QED BY <1>3, <2>1, <2>2 DEF Read
<1>7. \A l \in FrameAt(0).locals : Read(mem', l) = Read(jlocals', l[1])
  <2> SUFFICES ASSUME NEW l \in FrameAt(0).locals
               PROVE  Read(mem', l) = Read(jlocals', l[1])
    OBVIOUS
  <2>1. PICK i \in D : l = <<Slot(i), P[i]>>
    BY <1>1, FrameFacts
  <2> QED BY <1>6, <2>1
<1>8. MachineTypes'
  <2>1. \A i \in D : Param(i) \in Value
    BY <1>3 DEF Param, Value
  <2>2. \A k \in DOMAIN jlocals' : jlocals'[k] \in Value
    BY <1>1, <1>5, <2>1
  <2>3. \A k \in DOMAIN mem' : mem'[k] \in Value
    BY <1>1, <1>3, <1>5, <2>1
  <2>4. regs' = [a \in {} |-> Unset]
    BY <1>1 DEF WayInv
  <2> QED BY <1>2, <2>2, <2>3, <2>4 DEF MachineTypes
<1>9. Matches(S)'
  <2>1. S[0] = <<>>
    <3>1. 0 \in Leaders /\ pos \in Nat
      BY <1>1, LeaderFacts, CodeFacts DEF TypeInv, TypeOK
    <3> QED BY <3>1 DEF Kept
  <2>2. FrameAt(jpc)' = FrameAt(0)
    BY <1>1, <1>2 DEF FrameAt, vars
  <2>3. Related(S[jpc], jstack, Held)'
    BY <1>2, <2>1 DEF Related
  <2> QED BY <1>7, <2>2, <2>3 DEF Matches
<1> QED BY <1>8, <1>9

\* Every step of the program and of its compilation keeps MatchInv.
LEMMA MatchStep ==
    TypeInv /\ TermInv /\ ExactInv /\ CopiedInv /\ KeptInv /\ WayInv /\ MatchInv
       /\ [ExecNext]_<<vars, machines>> => MatchInv'
<1> SUFFICES ASSUME TypeInv, TermInv, ExactInv, CopiedInv, KeptInv, WayInv,
                    MatchInv, [ExecNext]_<<vars, machines>>,
                    InStatements(method)', running'
             PROVE  MachineTypes' /\ \A S : Kept(S)' => Matches(S)'
  BY DEF MatchInv
<1>1. CASE Emit /\ UNCHANGED machines
  <2>1. outcome = "compiling"
    BY <1>1 DEF Emit, CopyParameter, EmitConst, EmitLocalLoad, EmitLocalStore,
                EmitDup, EmitOperation, EmitConditionalBranch, EmitGoto,
                EmitReturn, EmitUnknown, PopEmpty, EndBlock, AtInst, BlockDone,
                Compiling
  <2> QED BY <1>1, <2>1 DEF WayInv, machines
<1>2. ASSUME UNCHANGED vars
      PROVE  /\ InStatements(method) = InStatements(method)'
             /\ \A S : Kept(S)' <=> Kept(S)
  BY <1>2 DEF vars, InStatements, Kept, Before, Recorded, FrameAt, InstAt,
              MadeAt, StackValue, Addresses, Compiling, CodeLength, Code,
              Leaders, Branches, Target
<1>3. ASSUME UNCHANGED vars, outcome = "emitted" PROVE \E S : Kept(S)
  BY <1>2, <1>3 DEF KeptInv, Sound
<1>4. CASE Call
  <2>1. UNCHANGED vars /\ outcome = "emitted"
    BY <1>4 DEF Call
  <2>2. ASSUME NEW S, Kept(S) PROVE MachineTypes' /\ Matches(S)'
    BY <1>4, <2>2, MatchCall
  <2> QED BY <1>2, <1>3, <2>1, <2>2
<1>5. CASE Execute
  <2>1. /\ running /\ InstAt(jpc).op # "return" /\ UNCHANGED vars
    BY <1>5 DEF Execute
  <2>2. PICK taken \in BOOLEAN : JvmStep(taken) /\ SsaStep(taken)
    BY <1>5 DEF Execute
  <2>3. outcome = "emitted" /\ jpc = ipc /\ jpc \in Addresses
        /\ InStatements(method)
    BY <1>2, <2>1 DEF WayInv
  <2>4. MachineTypes /\ \A S : Kept(S) => Matches(S)
    BY <2>1, <2>3 DEF MatchInv
  <2>5. ASSUME NEW S, Kept(S) PROVE MachineTypes' /\ Matches(S)'
    BY <2>1, <2>2, <2>3, <2>4, <2>5, MatchExecute
  <2> QED BY <1>2, <1>3, <2>1, <2>3, <2>5
<1>6. CASE Return
  BY <1>6 DEF Return
<1>7. CASE UNCHANGED <<vars, machines>>
  <2>1. UNCHANGED vars /\ UNCHANGED machines /\ running
    BY <1>7 DEF machines
  <2>2. MachineTypes /\ \A S : Kept(S) => Matches(S)
    BY <1>2, <2>1 DEF MatchInv
  <2>3. MachineTypes'
    BY <2>1, <2>2 DEF MachineTypes, machines
  <2>4. \A S : Matches(S)' <=> Matches(S)
    BY <2>1 DEF Matches, Held, FrameAt, machines, vars, StackValue, Addresses,
                CodeLength, Code
  <2> QED BY <1>2, <2>1, <2>2, <2>3, <2>4
<1> QED BY <1>1, <1>4, <1>5, <1>6, <1>7 DEF ExecNext

LEMMA KeptAlways ==
    Spec => [](TypeInv /\ TermInv /\ ExactInv /\ LayoutInv /\ CopiedInv /\ KeptInv)
<1> DEFINE Inv == TypeInv /\ TermInv /\ ExactInv /\ LayoutInv /\ CopiedInv
                  /\ KeptInv
<1>1. Init => Inv
  BY TypeInit, TermInit, ExactInit, LayoutInit, CopiedInit, KeptInit
<1>2. Inv /\ [Next]_vars => Inv'
  BY TypeStep, TermStep, ExactStep, LayoutStep, CopiedStep, KeptStep
<1> HIDE DEF Inv
<1>3. Spec => []Inv
  BY <1>1, <1>2, PTL DEF Spec
<1> QED BY <1>3 DEF Inv

LEMMA MatchAlways ==
    ExecSpec => [](TypeInv /\ ExactInv /\ KeptInv /\ WayInv /\ MatchInv)
<1> DEFINE Inv == TypeInv /\ TermInv /\ ExactInv /\ LayoutInv /\ CopiedInv
                  /\ KeptInv
           All == TypeInv /\ ExactInv /\ KeptInv /\ WayInv /\ MatchInv
<1>1. ExecSpec => []Inv
  BY KeptAlways, ExecCompiles, PTL
<1>2. ExecInit => WayInv /\ MatchInv
  BY DEF ExecInit, Init, WayInv, MatchInv
<1>3. Inv /\ WayInv /\ MatchInv /\ [ExecNext]_<<vars, machines>>
         => WayInv' /\ MatchInv'
  BY WayStep, MatchStep
<1>4. Inv /\ WayInv /\ MatchInv => All
  OBVIOUS
<1> HIDE DEF Inv, All
<1>5. ExecSpec => []All
  BY <1>1, <1>2, <1>3, <1>4, PTL DEF ExecSpec
<1> QED BY <1>5 DEF All

\* Every instruction of the emitted code finds the values that the bytecode finds
\* on its stack, on every path, for all methods that leave nothing on the stack
\* between two statements.
THEOREM AlwaysSameOperands ==
    ExecSpec => [](InStatements(method) => SameOperands)
<1>1. TypeInv /\ ExactInv /\ KeptInv /\ WayInv /\ MatchInv =>
         (InStatements(method) => SameOperands)
  <2> SUFFICES ASSUME TypeInv, ExactInv, KeptInv, WayInv, MatchInv,
                      InStatements(method), running, jpc = ipc
               PROVE  IArgs(ipc) = JArgs(InstAt(jpc))
    BY DEF SameOperands
  <2>1. outcome = "emitted" /\ jpc \in Addresses
    BY DEF WayInv
  <2>2. PICK S : Kept(S)
    BY <2>1 DEF KeptInv, Sound
  <2>3. MachineTypes /\ Matches(S)
    BY <2>2 DEF MatchInv
  <2>4. PICK a : a = jpc
    OBVIOUS
  <2>5. Related(S[a], jstack, Held)
    BY <2>3, <2>4 DEF Matches
  <2> QED BY <2>1, <2>2, <2>3, <2>4, <2>5, SameArgs
<1> QED BY <1>1, MatchAlways, PTL
=============================================================================
