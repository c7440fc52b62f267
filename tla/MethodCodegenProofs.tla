------------------------- MODULE MethodCodegenProofs -------------------------
(***************************************************************************)
(* Proofs about MethodCodegen, for methods of any length and any shape of  *)
(* control flow, as long as a verifier accepts them and nothing but a      *)
(* branch leads behind a return.                                           *)
(***************************************************************************)
EXTENDS MethodCodegen, SequenceTheorems, FiniteSetTheorems, TLAPS

-----------------------------------------------------------------------------
(* The control flow graph                                                  *)

\* A set of natural numbers has a least one.
LEMMA MinFacts ==
    ASSUME NEW S, S \subseteq Nat, S # {}
    PROVE  Min(S) \in S /\ \A y \in S : Min(S) <= y
<1>1. \E x \in S : \A y \in S : x <= y
  <2> DEFINE T == {0..n : n \in S}
             R == StrictSubsetOrdering(Nat)
  <2>1. IsWellFoundedOn(R, FiniteSubsetsOf(Nat))
    BY FS_StrictSubsetOrderingWellFounded
  <2>2. \A n \in S : 0..n \subseteq Nat /\ IsFiniteSet(0..n)
    BY FS_Interval
  <2>3. T \subseteq FiniteSubsetsOf(Nat) /\ T # {}
    BY <2>2 DEF FiniteSubsetsOf
  <2> HIDE DEF T, R
  <2>4. PICK t \in T : \A u \in T : <<u, t>> \notin R
    BY <2>1, <2>3, WFMin
  <2>5. PICK x \in S : t = 0..x
    BY DEF T
  <2>6. ASSUME NEW y \in S, ~(x <= y) PROVE FALSE
    <3>1. 0..y \in T
      BY DEF T
    <3>2. 0..y \subseteq 0..x /\ x \notin 0..y /\ x \in 0..x
      BY <2>6
    <3>3. <<0..y, t>> \in R
      BY <3>2, <2>2, <2>5 DEF R, StrictSubsetOrdering
    <3> QED BY <3>1, <3>3, <2>4
  <2> QED BY <2>6
<1> QED BY <1>1 DEF Min

\* The instructions of a method, by their addresses.
LEMMA CodeFacts ==
    ASSUME method \in Methods
    PROVE  /\ CodeLength \in Nat \ {0}
           /\ \A a \in 0..(CodeLength - 1) : InstAt(a) \in Instruction
           /\ \A a \in Branches : Target(a) \in 0..(CodeLength - 1)
           /\ \A a \in 0..(CodeLength - 1) :
                 InstAt(a).op = "invoke" => InstAt(a).arg \in Nat
           /\ InstAt(CodeLength - 1).op
                 \in BranchOps \cup {"return", "unknown"}
           /\ \A a \in 0..(CodeLength - 2) :
                 InstAt(a).op = "return" => a + 1 \in Leaders
<1>1. /\ Code \in Seq(Instruction) /\ Code # <<>>
      /\ CodeLength \in Nat \ {0} /\ DOMAIN Code = 1..CodeLength
  BY MethodsAssumption DEF Code, CodeLength
<1>2. \A a \in 0..(CodeLength - 1) : a + 1 \in DOMAIN Code
  BY <1>1
<1>3. \A a \in 0..(CodeLength - 1) : InstAt(a) \in Instruction
  BY <1>1, <1>2 DEF InstAt
<1>4. ASSUME NEW a \in Branches PROVE Target(a) \in 0..(CodeLength - 1)
  <2>1. a \in 0..(CodeLength - 1) /\ InstAt(a).op \in BranchOps
    BY DEF Branches
  <2>2. a + 1 + InstAt(a).arg \in 1..CodeLength
    BY <1>1, <1>2, <2>1, VerifiedAssumption DEF InstAt, Code
  <2>3. InstAt(a).arg \in Int
    BY <1>3, <2>1 DEF Instruction
  <2> QED BY <1>1, <2>1, <2>2, <2>3 DEF Target
<1>5. ASSUME NEW a \in 0..(CodeLength - 1), InstAt(a).op = "invoke"
      PROVE  InstAt(a).arg \in Nat
  BY <1>2, <1>5, MethodsAssumption DEF InstAt, Code
<1>6. InstAt(CodeLength - 1).op \in BranchOps \cup {"return", "unknown"}
  BY <1>1, VerifiedAssumption DEF InstAt, Code, CodeLength
<1>7. ASSUME NEW a \in 0..(CodeLength - 2), InstAt(a).op = "return"
      PROVE  a + 1 \in Leaders
  <2>1. a + 1 \in DOMAIN Code /\ a + 1 < CodeLength
    BY <1>1
  <2>2. PICK j \in DOMAIN Code : /\ Code[j].op \in BranchOps
                                 /\ j + Code[j].arg = a + 2
    BY <2>1, <1>7, NoHandlerAssumption DEF InstAt, Code, CodeLength
  <2>3. j - 1 \in 0..(CodeLength - 1) /\ InstAt(j - 1) = Code[j]
    BY <1>1, <2>2 DEF InstAt
  <2>4. j - 1 \in Branches
    BY <2>2, <2>3 DEF Branches
  <2>5. Target(j - 1) = a + 1
    <3>1. Code[j].arg \in Int /\ j \in Int /\ a \in Int
      BY <1>3, <2>3, <1>1 DEF Instruction
    <3> QED BY <2>2, <2>3, <3>1 DEF Target
  <2> QED BY <2>4, <2>5 DEF Leaders
<1> QED BY <1>1, <1>3, <1>4, <1>5, <1>6, <1>7

\* Leaders are addresses, or the end of the code.
LEMMA LeaderFacts ==
    ASSUME method \in Methods
    PROVE  /\ Leaders \subseteq 0..CodeLength
           /\ 0 \in Leaders
           /\ \A a \in Branches : Target(a) \in Leaders /\ a + 1 \in Leaders
BY CodeFacts DEF Leaders, Branches

\* A block ends at the next leader, or with the code.
LEMMA BlockEndFacts ==
    ASSUME method \in Methods, NEW b \in Leaders
    PROVE  /\ BlockEnd(b) \in 0..CodeLength
           /\ b <= BlockEnd(b)
           /\ Later(b) = {} => BlockEnd(b) = CodeLength
           /\ Later(b) # {} => BlockEnd(b) \in Leaders /\ b < BlockEnd(b)
           /\ \A l \in Leaders : b < l => BlockEnd(b) <= l
<1>1. /\ Leaders \subseteq 0..CodeLength /\ CodeLength \in Nat
      /\ Later(b) \subseteq Nat
  BY LeaderFacts, CodeFacts DEF Later
<1>2. CASE Later(b) = {}
  BY <1>1, <1>2 DEF BlockEnd, Later
<1>3. CASE Later(b) # {}
  <2>1. Min(Later(b)) \in Later(b) /\ \A l \in Later(b) : Min(Later(b)) <= l
    BY <1>1, <1>3, MinFacts
  <2>2. BlockEnd(b) = Min(Later(b))
    BY <1>3 DEF BlockEnd
  <2> QED BY <1>1, <1>3, <2>1, <2>2 DEF Later
<1> QED BY <1>2, <1>3

-----------------------------------------------------------------------------
(* Types                                                                   *)

StackValue == [def : Addresses, type : Types \cup {"void"}]

\* Where the walk is: inside the block, or just behind it.
Located == /\ block \in Leaders
           /\ pos \in block..BlockEnd(block)

TypeInv == TypeOK /\ Located

\* The variables that say which method is compiled are never written.
LEMMA MethodFixed ==
    [Next]_vars => /\ method' = method
                   /\ CodeLength' = CodeLength
                   /\ Leaders' = Leaders
                   /\ Addresses' = Addresses
<1> SUFFICES ASSUME [Next]_vars PROVE method' = method
  BY DEF CodeLength, Code, Leaders, Branches, InstAt, Target, Addresses
<1> QED
  BY DEF Next, Emit, vars, CopyParameter, EmitConst, EmitLocalLoad,
         EmitLocalStore, EmitDup, EmitOperation, EmitConditionalBranch,
         EmitGoto, EmitReturn, EmitUnknown, PopEmpty, EndBlock, Advance

\* Init starts the walk at the first block.
LEMMA TypeInit == Init => TypeInv
<1> SUFFICES ASSUME Init PROVE TypeInv
  OBVIOUS
<1>1. method \in Methods /\ 0 \in Leaders /\ CodeLength \in Nat
  BY LeaderFacts, CodeFacts DEF Init
<1>2. BlockEnd(0) \in Nat
  BY <1>1, BlockEndFacts, CodeFacts
<1>3. TypeOK
  BY <1>1 DEF Init, TypeOK, Outcomes
<1>4. Located
  BY <1>1, <1>2 DEF Init, Located
<1> QED BY <1>3, <1>4 DEF TypeInv

\* An instruction that is reached and finds its operands leaves the rest of the
\* stack, and is inside its block.
LEMMA InstFacts ==
    ASSUME TypeInv, Compiling, pos < BlockEnd(block), Len(stack) >= Pops(Inst)
    PROVE  /\ pos \in Addresses
           /\ Inst \in Instruction
           /\ pos + 1 \in block..BlockEnd(block)
           /\ pos + 1 \in 0..CodeLength
           /\ Rest \in Seq(StackValue)
           /\ Args \in Seq(StackValue)
           /\ Len(Args) = Pops(Inst)
<1>1. /\ method \in Methods /\ block \in Leaders
      /\ block \in Nat /\ pos \in Nat
      /\ BlockEnd(block) \in 0..CodeLength
      /\ CodeLength \in Nat
      /\ pos \in block..BlockEnd(block)
  BY LeaderFacts, BlockEndFacts, CodeFacts DEF TypeInv, TypeOK, Located
<1>2. pos \in Addresses /\ pos \in 0..(CodeLength - 1)
  BY <1>1 DEF Addresses
<1>3. Inst \in Instruction
  BY <1>1, <1>2, CodeFacts DEF Inst
<1>4. Pops(Inst) \in Nat
  <2>1. CASE Inst.op = "invoke"
    BY <1>1, <1>2, <2>1, CodeFacts DEF Pops, Inst
  <2>2. CASE Inst.op # "invoke"
    BY <2>2 DEF Pops
  <2> QED BY <2>1, <2>2
<1>5. stack \in Seq(StackValue) /\ Len(stack) \in Nat
  BY DEF TypeInv, TypeOK, StackValue
<1> DEFINE n == Len(stack)
           k == Pops(Inst)
<1>6. n \in Nat /\ k \in Nat /\ k <= n /\ n - k \in Nat
  BY <1>4, <1>5
<1>7. \A i \in 1..n : stack[i] \in StackValue
  BY <1>5
<1> HIDE DEF n, k
<1>8. SubSeq(stack, 1, n - k) \in Seq(StackValue)
  BY <1>6, <1>7
<1>9. /\ SubSeq(stack, n - k + 1, n) \in Seq(StackValue)
      /\ Len(SubSeq(stack, n - k + 1, n)) = k
  <2>1. \A i \in (n - k + 1)..n : stack[i] \in StackValue
    BY <1>6, <1>7
  <2>2. CASE k = 0
    BY <1>6, <2>1, <2>2
  <2>3. CASE k # 0
    BY <1>6, <2>1, <2>3
  <2> QED BY <2>2, <2>3
<1> QED BY <1>1, <1>2, <1>3, <1>8, <1>9 DEF Rest, Args, n, k

\* What an instruction records of its operands.
LEMMA UseFacts ==
    ASSUME TypeInv, Args \in Seq(StackValue), pos \in Addresses, Use
    PROVE  /\ DOMAIN operands' \subseteq Addresses
           /\ \A a \in DOMAIN operands' : operands'[a] \in Seq(Addresses)
<1> DEFINE used == [i \in DOMAIN Args |-> Args[i].def]
<1>1. DOMAIN Args = 1..Len(Args) /\ Len(Args) \in Nat
      /\ \A i \in DOMAIN Args : Args[i].def \in Addresses
  <2>1. DOMAIN Args = 1..Len(Args) /\ Len(Args) \in Nat
        /\ \A i \in DOMAIN Args : Args[i] \in StackValue
    OBVIOUS
  <2>2. \A v \in StackValue : v.def \in Addresses
    BY DEF StackValue
  <2> QED BY <2>1, <2>2
<1>2. used \in Seq(Addresses)
  BY <1>1
<1> HIDE DEF used
<1>3. operands' = Put(operands, pos, used)
  BY DEF Use, used
<1>4. DOMAIN operands \subseteq Addresses
      /\ \A a \in DOMAIN operands : operands[a] \in Seq(Addresses)
  BY DEF TypeInv, TypeOK
<1> QED BY <1>2, <1>3, <1>4 DEF Put

\* A terminator leads to leaders; every block a branch names is found.
LEMMA TerminateFacts ==
    ASSUME TypeInv, NEW blocks \in Seq(Leaders), Terminate(blocks)
    PROVE  /\ outcome' = outcome
           /\ term' = Put(term, block, blocks)
           /\ DOMAIN term' = DOMAIN term \cup {block}
           /\ DOMAIN term' \subseteq Leaders
           /\ \A b \in DOMAIN term' : term'[b] \in Seq(Leaders)
<1>1. Found({blocks[i] : i \in DOMAIN blocks})
  BY DEF Found
<1>2. /\ outcome' = outcome
      /\ term' = Put(term, block, blocks)
  BY <1>1 DEF Terminate
<1> QED BY <1>2 DEF TypeInv, TypeOK, Located, Put

\* The instruction at pos, one of ops, is emitted into its block.
Emits(ops) == AtInst(ops) /\ Use /\ Advance

\* What every instruction does: it moves the iterator on by one and records
\* its operands.
LEMMA EmitsFacts ==
    ASSUME TypeInv, NEW ops, Emits(ops)
    PROVE  /\ Compiling /\ Inst.op \in ops
           /\ pos \in Addresses /\ pos < BlockEnd(block)
           /\ Inst \in Instruction
           /\ pos' = pos + 1 /\ pos' \in block..BlockEnd(block)
           /\ pos' \in 0..CodeLength
           /\ method' = method /\ javaIndex' = javaIndex
           /\ copied' = copied /\ block' = block
           /\ DOMAIN operands' \subseteq Addresses
           /\ \A a \in DOMAIN operands' : operands'[a] \in Seq(Addresses)
           /\ Rest \in Seq(StackValue) /\ Args \in Seq(StackValue)
           /\ Len(Args) = Pops(Inst)
           /\ Made(Inst.type) \in StackValue
<1>1. /\ Compiling /\ Inst.op \in ops /\ pos < BlockEnd(block)
      /\ Len(stack) >= Pops(Inst)
      /\ pos' = pos + 1
      /\ method' = method /\ javaIndex' = javaIndex
      /\ copied' = copied /\ block' = block
      /\ Use
  BY DEF Emits, AtInst, Advance
<1>2. Made(Inst.type) \in StackValue
  BY <1>1, InstFacts DEF Made, StackValue, Instruction
<1> QED BY <1>1, <1>2, InstFacts, UseFacts

\* An instruction keeps the types, given what it does to the rest.
LEMMA EmitsTyped ==
    ASSUME TypeInv, [Next]_vars, NEW ops, Emits(ops),
           stack' \in Seq(StackValue),
           allocas' \subseteq Int \X (Types \cup {"void"}),
           outcome' \in Outcomes,
           DOMAIN term' \subseteq Leaders,
           \A b \in DOMAIN term' : term'[b] \in Seq(Leaders)
    PROVE  TypeInv'
<1>1. /\ method' = method /\ javaIndex' = javaIndex
      /\ copied' = copied /\ block' = block
      /\ pos' \in block..BlockEnd(block) /\ pos' \in 0..CodeLength
      /\ DOMAIN operands' \subseteq Addresses
      /\ \A a \in DOMAIN operands' : operands'[a] \in Seq(Addresses)
  BY EmitsFacts
<1>2. /\ CodeLength' = CodeLength /\ Leaders' = Leaders
      /\ Addresses' = Addresses
  BY MethodFixed
<1>3. BlockEnd(block)' = BlockEnd(block)
  BY <1>1, <1>2 DEF BlockEnd, Later
<1>4. TypeOK'
  BY <1>1, <1>2 DEF TypeInv, TypeOK, StackValue
<1>5. Located'
  BY <1>1, <1>2, <1>3 DEF TypeInv, Located
<1> QED BY <1>4, <1>5 DEF TypeInv

\* Pushing a value on a stack gives a stack.
LEMMA PushFacts ==
    ASSUME NEW s \in Seq(StackValue), NEW v \in StackValue
    PROVE  Append(s, v) \in Seq(StackValue)
OBVIOUS

\* Every step keeps the types.
LEMMA TypeStep == TypeInv /\ [Next]_vars => TypeInv'
<1> SUFFICES ASSUME TypeInv, [Next]_vars PROVE TypeInv'
  OBVIOUS
<1>1. /\ method \in Methods /\ method' = method
      /\ CodeLength' = CodeLength /\ Leaders' = Leaders
      /\ Addresses' = Addresses
  BY MethodFixed DEF TypeInv, TypeOK
<1>2. /\ stack \in Seq(StackValue)
      /\ allocas \subseteq Int \X (Types \cup {"void"})
      /\ outcome \in Outcomes
      /\ block \in Leaders
      /\ DOMAIN term \subseteq Leaders
      /\ \A b \in DOMAIN term : term[b] \in Seq(Leaders)
  BY DEF TypeInv, TypeOK, StackValue
<1>3. CASE CopyParameter
  <2> DEFINE type == method.params[Len(copied) + 1]
  <2>1. type \in Types
    <3>1. method.params \in Seq(Types)
      BY <1>1, MethodsAssumption
    <3>2. Len(copied) + 1 \in 1..Len(method.params)
      BY <3>1, <1>3 DEF CopyParameter, TypeInv, TypeOK
    <3> QED BY <3>1, <3>2
  <2> HIDE DEF type
  <2>2. /\ copied' = Append(copied, <<javaIndex, type>>)
        /\ allocas' = allocas \cup {<<javaIndex, type>>}
        /\ javaIndex' = javaIndex + Width(type)
        /\ UNCHANGED <<method, block, pos, stack, operands, term, outcome>>
    BY <1>3 DEF CopyParameter, Local, type
  <2>3. javaIndex' \in Nat /\ javaIndex \in Nat
    BY <2>2 DEF TypeInv, TypeOK, Width
  <2>4. copied' \in Seq(Nat \X Types)
    <3>1. <<javaIndex, type>> \in Nat \X Types
      BY <2>1, <2>3
    <3>2. copied \in Seq(Nat \X Types)
      BY DEF TypeInv, TypeOK
    <3> HIDE DEF type
    <3> QED BY <2>2, <3>1, <3>2
  <2>5. allocas' \subseteq Int \X (Types \cup {"void"})
    BY <2>1, <2>2, <2>3, <1>2
  <2>6. TypeOK'
    BY <1>1, <2>2, <2>3, <2>4, <2>5 DEF TypeInv, TypeOK
  <2>7. BlockEnd(block)' = BlockEnd(block)
    BY <1>1, <2>2 DEF BlockEnd, Later
  <2> QED BY <1>1, <2>2, <2>6, <2>7 DEF TypeInv, Located
<1>4. CASE EmitConst
  <2>1. Emits({"const"}) /\ stack' = Append(stack, Made(Inst.type))
        /\ UNCHANGED <<allocas, term, outcome>>
    BY <1>4 DEF EmitConst, Emits
  <2>2. stack' \in Seq(StackValue)
    BY <1>2, <2>1, EmitsFacts, PushFacts
  <2> QED BY <1>2, <2>1, <2>2, EmitsTyped
<1>5. CASE EmitLocalLoad
  <2>1. Emits({"load"}) /\ stack' = Append(stack, Made(Inst.type))
        /\ allocas' = allocas \cup {<<Inst.arg, Inst.type>>}
        /\ UNCHANGED <<term, outcome>>
    BY <1>5 DEF EmitLocalLoad, Emits, Local
  <2>2. stack' \in Seq(StackValue)
    BY <1>2, <2>1, EmitsFacts, PushFacts
  <2>3. allocas' \subseteq Int \X (Types \cup {"void"})
    BY <1>2, <2>1, EmitsFacts DEF Instruction
  <2> QED BY <1>2, <2>1, <2>2, <2>3, EmitsTyped
<1>6. CASE EmitLocalStore
  <2>1. Emits({"store"}) /\ stack' = Rest
        /\ allocas' = allocas \cup {<<Inst.arg, Inst.type>>}
        /\ outcome' \in {outcome, "aborted"} /\ term' = term
    BY <1>6 DEF EmitLocalStore, Emits, Local
  <2>2. stack' \in Seq(StackValue)
    BY <2>1, EmitsFacts
  <2>3. allocas' \subseteq Int \X (Types \cup {"void"})
    BY <1>2, <2>1, EmitsFacts DEF Instruction
  <2>4. outcome' \in Outcomes
    BY <1>2, <2>1 DEF Outcomes
  <2> QED BY <1>2, <2>1, <2>2, <2>3, <2>4, EmitsTyped
<1>7. CASE EmitDup
  <2>1. Emits({"dup"}) /\ stack # <<>>
        /\ stack' \in {stack, Append(stack, stack[Len(stack)])}
        /\ outcome' \in {outcome, "BadBytecode"}
        /\ UNCHANGED <<allocas, term>>
    BY <1>7 DEF EmitDup, Emits
  <2>2. stack' \in Seq(StackValue)
    <3>1. stack[Len(stack)] \in StackValue
      BY <1>2, <2>1
    <3> QED BY <1>2, <2>1, <3>1, PushFacts
  <2>3. outcome' \in Outcomes
    BY <1>2, <2>1 DEF Outcomes
  <2> QED BY <1>2, <2>1, <2>2, <2>3, EmitsTyped
<1>8. CASE EmitOperation
  <2>1. Emits({"binary", "cast", "invoke"})
        /\ stack' \in {Rest, Append(Rest, Made(Inst.type))}
        /\ UNCHANGED <<allocas, term, outcome>>
    BY <1>8 DEF EmitOperation, Emits
  <2>2. stack' \in Seq(StackValue)
    BY <2>1, EmitsFacts, PushFacts
  <2> QED BY <1>2, <2>1, <2>2, EmitsTyped
<1>9. CASE EmitConditionalBranch
  <2>1. Emits({"if", "ifcmp"}) /\ stack' = Rest
        /\ Terminate(<<Target(pos), pos + 1>>) /\ allocas' = allocas
    BY <1>9 DEF EmitConditionalBranch, Emits
  <2>2. pos \in Branches
    BY <2>1, EmitsFacts DEF Branches, Addresses, Inst, BranchOps
  <2>3. <<Target(pos), pos + 1>> \in Seq(Leaders)
    BY <1>1, <2>2, LeaderFacts
  <2>4. stack' \in Seq(StackValue)
    BY <2>1, EmitsFacts
  <2> QED BY <1>2, <2>1, <2>3, <2>4, TerminateFacts, EmitsTyped
<1>10. CASE EmitGoto
  <2>1. Emits({"goto"}) /\ Terminate(<<Target(pos)>>)
        /\ UNCHANGED <<allocas, stack>>
    BY <1>10 DEF EmitGoto, Emits
  <2>2. pos \in Branches
    BY <2>1, EmitsFacts DEF Branches, Addresses, Inst, BranchOps
  <2>3. <<Target(pos)>> \in Seq(Leaders)
    BY <1>1, <2>2, LeaderFacts
  <2> QED BY <1>2, <2>1, <2>3, TerminateFacts, EmitsTyped
<1>11. CASE EmitReturn
  <2>1. Emits({"return"}) /\ stack' = Rest
        /\ term' = Put(term, block, <<>>)
        /\ UNCHANGED <<allocas, outcome>>
    BY <1>11 DEF EmitReturn, Emits
  <2>2. stack' \in Seq(StackValue)
    BY <2>1, EmitsFacts
  <2>3. DOMAIN term' \subseteq Leaders
        /\ \A b \in DOMAIN term' : term'[b] \in Seq(Leaders)
    BY <1>2, <2>1 DEF Put
  <2> QED BY <1>2, <2>1, <2>2, <2>3, EmitsTyped
<1>12. CASE EmitUnknown \/ PopEmpty
  <2>1. /\ outcome' \in {"BadBytecode", "undefined"}
        /\ UNCHANGED <<method, javaIndex, copied, allocas, block, pos, stack,
                       operands, term>>
    BY <1>12 DEF EmitUnknown, PopEmpty
  <2>2. TypeOK'
    BY <1>1, <2>1 DEF TypeInv, TypeOK, Outcomes
  <2>3. BlockEnd(block)' = BlockEnd(block)
    BY <1>1, <2>1 DEF BlockEnd, Later
  <2> QED BY <1>1, <2>1, <2>2, <2>3 DEF TypeInv, Located
<1>13. CASE EndBlock
  <2>1. /\ UNCHANGED <<method, javaIndex, copied, allocas, stack, operands>>
        /\ \/ outcome' = "out_of_range" /\ UNCHANGED <<block, pos, term>>
           \/ NextBlock
        /\ \/ term' = term
           \/ /\ term' = Put(term, block, <<BlockEnd(block)>>)
              /\ BlockEnd(block) \in Leaders
    BY <1>13 DEF EndBlock, Found
  <2>2. DOMAIN term' \subseteq Leaders
        /\ \A b \in DOMAIN term' : term'[b] \in Seq(Leaders)
    <3>1. CASE term' = term
      BY <1>2, <3>1
    <3>2. CASE /\ term' = Put(term, block, <<BlockEnd(block)>>)
               /\ BlockEnd(block) \in Leaders
      <4>1. <<BlockEnd(block)>> \in Seq(Leaders)
        BY <3>2
      <4> QED BY <1>2, <3>2, <4>1 DEF Put
    <3> QED BY <2>1, <3>1, <3>2
  <2>3. /\ block' \in Leaders
        /\ pos' \in block'..BlockEnd(block)' /\ pos' \in 0..CodeLength
        /\ outcome' \in Outcomes
    <3>1. \A b : BlockEnd(b)' = BlockEnd(b)
      BY <1>1 DEF BlockEnd, Later
    <3>2. CASE UNCHANGED <<block, pos>>
      <4>1. BlockEnd(block)' = BlockEnd(block)
        BY <1>1, <3>2 DEF BlockEnd, Later
      <4>2. outcome' \in Outcomes
        BY <1>2, <2>1 DEF NextBlock, Outcomes
      <4> QED BY <3>2, <4>1, <4>2 DEF TypeInv, TypeOK, Located
    <3>3. CASE Later(block) # {} /\ NextBlock
      <4>1. /\ block' = BlockEnd(block) /\ pos' = BlockEnd(block)
            /\ outcome' = outcome
        BY <3>3 DEF NextBlock
      <4>2. block' \in Leaders /\ pos' = block'
        BY <1>1, <1>2, <3>3, <4>1, BlockEndFacts
      <4>3. BlockEnd(block)' >= block' /\ BlockEnd(block)' \in Nat
            /\ block' \in 0..CodeLength
        <5>1. PICK b : b = block'
          OBVIOUS
        <5>2. BlockEnd(b) >= b /\ BlockEnd(b) \in Nat /\ b \in 0..CodeLength
          BY <1>1, <4>2, <5>1, BlockEndFacts, LeaderFacts, CodeFacts
        <5>3. BlockEnd(block)' = BlockEnd(b)
          BY <1>1, <5>1 DEF BlockEnd, Later
        <5> QED BY <5>1, <5>2, <5>3
      <4> QED BY <1>2, <4>1, <4>2, <4>3
    <3> QED BY <2>1, <3>2, <3>3 DEF NextBlock
  <2>4. TypeOK'
    BY <1>1, <2>1, <2>2, <2>3 DEF TypeInv, TypeOK
  <2> QED BY <1>1, <2>3, <2>4 DEF TypeInv, Located
<1>14. CASE UNCHANGED vars
  <2>1. BlockEnd(block)' = BlockEnd(block)
    BY <1>1, <1>14 DEF BlockEnd, Later, vars
  <2> QED BY <1>1, <1>14, <2>1 DEF vars, TypeInv, TypeOK, Located
<1> QED
  BY <1>3, <1>4, <1>5, <1>6, <1>7, <1>8, <1>9, <1>10, <1>11, <1>12, <1>13,
     <1>14 DEF Next, Emit

\* Every variable of the compilation of a method keeps its type, for all
\* methods: no instruction outside of the code is read, and every terminator
\* leads to blocks of the graph.
THEOREM CodegenTypesCorrect == Spec => []TypeOK
<1>1. Spec => []TypeInv
  BY TypeInit, TypeStep, PTL DEF Spec
<1>2. TypeInv => TypeOK
  BY DEF TypeInv
<1> QED BY <1>1, <1>2, PTL

-----------------------------------------------------------------------------
(* Terminators                                                             *)

\* The blocks that lie behind have terminators, those that lie ahead have none,
\* and the one that is emitted has one if and only if nothing more goes in.
BlocksBehind == \A l \in Leaders : l < block => l \in DOMAIN term
BlocksAhead == \A l \in DOMAIN term : l <= block

\* A block that was left by a branch or a return has its terminator.
LeftWithTerminator ==
    Compiling /\ pos > block =>
        /\ InstAt(pos - 1).op # "unknown"
        /\ InstAt(pos - 1).op \in BranchOps \cup {"return"} =>
              block \in DOMAIN term

TermInv == /\ BlocksBehind
           /\ BlocksAhead
           /\ TerminatorLast
           /\ LeftWithTerminator
           /\ BlocksFound
           /\ AllBlocksTerminated

LEMMA TermInit == Init => TermInv
<1> SUFFICES ASSUME Init PROVE TermInv
  OBVIOUS
<1>1. Leaders \subseteq Nat
  BY LeaderFacts, CodeFacts DEF Init
<1>2. BlocksBehind
  BY <1>1 DEF Init, BlocksBehind
<1> QED
  BY <1>2 DEF Init, TermInv, BlocksAhead, TerminatorLast, LeftWithTerminator,
              BlocksFound, AllBlocksTerminated

\* An instruction that does not end its block.
LEMMA PlainStep ==
    ASSUME TypeInv, TermInv, [Next]_vars, NEW ops, Emits(ops),
           ops \cap (BranchOps \cup {"return", "unknown"}) = {},
           term' = term, outcome' \notin {"out_of_range", "emitted"}
    PROVE  TermInv'
<1>1. /\ block' = block /\ pos' = pos + 1 /\ pos < BlockEnd(block)
      /\ Inst.op \in ops /\ pos \in Addresses /\ block \in Leaders
      /\ pos \in block..BlockEnd(block) /\ Compiling
  BY EmitsFacts DEF TypeInv, Located
<1>2. /\ method' = method /\ method \in Methods
      /\ CodeLength' = CodeLength /\ Leaders' = Leaders
      /\ BlockEnd(block)' = BlockEnd(block)
      /\ CodeLength \in Nat /\ Leaders \subseteq 0..CodeLength
  BY <1>1, MethodFixed, CodeFacts, LeaderFacts
     DEF TypeInv, TypeOK, BlockEnd, Later
<1>3. block \notin DOMAIN term
  BY <1>1, <1>2, BlockEndFacts DEF TermInv, TerminatorLast, Addresses
<1>4. BlocksBehind' /\ BlocksAhead' /\ TerminatorLast'
  BY <1>1, <1>2, <1>3 DEF TermInv, BlocksBehind, BlocksAhead, TerminatorLast
<1>5. LeftWithTerminator'
  <2>1. Code' = Code /\ pos' - 1 + 1 = pos + 1
    BY <1>1, <1>2 DEF Addresses, Code
  <2>2. Inst = Code[pos + 1]
    BY DEF Inst, InstAt
  <2> QED BY <1>1, <2>1, <2>2 DEF LeftWithTerminator, InstAt
<1> QED
  BY <1>4, <1>5 DEF TermInv, BlocksFound, AllBlocksTerminated

\* An instruction that gives its block a terminator is the last one of the
\* block: the next address starts another, or is the end of the code.
LEMMA TerminatorStep ==
    ASSUME TypeInv, TermInv, [Next]_vars, NEW ops, Emits(ops),
           ops \subseteq BranchOps \cup {"return"},
           DOMAIN term' = DOMAIN term \cup {block}, outcome' = outcome
    PROVE  TermInv'
<1>1. /\ block' = block /\ pos' = pos + 1 /\ pos < BlockEnd(block)
      /\ Inst.op \in ops /\ pos \in Addresses /\ block \in Leaders
      /\ pos \in block..BlockEnd(block) /\ Compiling
  BY EmitsFacts DEF TypeInv, Located
<1>2. /\ method' = method /\ method \in Methods
      /\ CodeLength' = CodeLength /\ Leaders' = Leaders
      /\ BlockEnd(block)' = BlockEnd(block)
      /\ CodeLength \in Nat /\ Leaders \subseteq 0..CodeLength
  BY <1>1, MethodFixed, CodeFacts, LeaderFacts
     DEF TypeInv, TypeOK, BlockEnd, Later
<1>3. BlockEnd(block) <= pos + 1
  <2>1. CASE pos + 1 \in Leaders
    <3>1. block < pos + 1
      BY <1>1, <1>2, BlockEndFacts
    <3> QED BY <1>1, <1>2, <2>1, <3>1, BlockEndFacts
  <2>2. CASE pos + 1 \notin Leaders
    <3>1. pos \notin Branches
      BY <1>2, <2>2, LeaderFacts
    <3>2. Inst.op = "return"
      BY <1>1, <3>1 DEF Branches, Inst, Addresses
    <3>3. pos \notin 0..(CodeLength - 2)
      BY <1>2, <2>2, <3>2, CodeFacts DEF Inst
    <3>4. pos + 1 = CodeLength
      BY <1>1, <1>2, <3>3 DEF Addresses
    <3> QED BY <1>1, <1>2, <3>4, BlockEndFacts
  <2> QED BY <2>1, <2>2
<1>4. BlocksBehind' /\ BlocksAhead' /\ TerminatorLast'
  <2>1. block <= block /\ BlockEnd(block) \in Nat /\ pos \in Nat
    BY <1>1, <1>2, BlockEndFacts DEF Addresses
  <2> QED BY <1>1, <1>2, <1>3, <2>1
          DEF TermInv, BlocksBehind, BlocksAhead, TerminatorLast
<1>5. LeftWithTerminator'
  <2>1. Code' = Code /\ pos' - 1 + 1 = pos + 1
    BY <1>1, <1>2 DEF Addresses, Code
  <2>2. Inst = Code[pos + 1]
    BY DEF Inst, InstAt
  <2> QED BY <1>1, <2>1, <2>2 DEF LeftWithTerminator, BranchOps, InstAt
<1> QED
  BY <1>1, <1>4, <1>5
     DEF TermInv, BlocksFound, AllBlocksTerminated, Compiling

\* Every step keeps TermInv.
LEMMA TermStep == TypeInv /\ TermInv /\ [Next]_vars => TermInv'
<1> SUFFICES ASSUME TypeInv, TermInv, [Next]_vars PROVE TermInv'
  OBVIOUS
<1>1. /\ method \in Methods /\ method' = method
      /\ CodeLength' = CodeLength /\ Leaders' = Leaders
      /\ Code' = Code
  BY MethodFixed DEF TypeInv, TypeOK, Code
<1>2. outcome = "compiling" => outcome \notin {"out_of_range", "emitted"}
  OBVIOUS
<1>3. CASE CopyParameter
  <2>1. UNCHANGED <<method, block, pos, term, outcome>>
    BY <1>3 DEF CopyParameter
  <2>2. BlockEnd(block)' = BlockEnd(block)
    BY <1>1, <2>1 DEF BlockEnd, Later
  <2> QED
    BY <1>1, <2>1, <2>2
       DEF TermInv, BlocksBehind, BlocksAhead, TerminatorLast,
           LeftWithTerminator, BlocksFound, AllBlocksTerminated, Compiling,
           InstAt
<1>4. CASE EmitConst
  <2>1. Emits({"const"}) /\ UNCHANGED <<term, outcome>> /\ Compiling
    BY <1>4 DEF EmitConst, Emits, AtInst
  <2> QED BY <2>1, PlainStep DEF BranchOps, Compiling
<1>5. CASE EmitLocalLoad
  <2>1. Emits({"load"}) /\ UNCHANGED <<term, outcome>> /\ Compiling
    BY <1>5 DEF EmitLocalLoad, Emits, AtInst
  <2> QED BY <2>1, PlainStep DEF BranchOps, Compiling
<1>6. CASE EmitLocalStore
  <2>1. Emits({"store"}) /\ term' = term /\ Compiling
        /\ outcome' \in {outcome, "aborted"}
    BY <1>6 DEF EmitLocalStore, Emits, AtInst
  <2> QED BY <2>1, PlainStep DEF BranchOps, Compiling
<1>7. CASE EmitDup
  <2>1. Emits({"dup"}) /\ term' = term /\ Compiling
        /\ outcome' \in {outcome, "BadBytecode"}
    BY <1>7 DEF EmitDup, Emits, AtInst
  <2> QED BY <2>1, PlainStep DEF BranchOps, Compiling
<1>8. CASE EmitOperation
  <2>1. Emits({"binary", "cast", "invoke"}) /\ UNCHANGED <<term, outcome>>
        /\ Compiling
    BY <1>8 DEF EmitOperation, Emits, AtInst
  <2> QED BY <2>1, PlainStep DEF BranchOps, Compiling
<1>9. CASE EmitConditionalBranch
  <2>1. Emits({"if", "ifcmp"}) /\ Terminate(<<Target(pos), pos + 1>>)
    BY <1>9 DEF EmitConditionalBranch, Emits
  <2>2. pos \in Branches
    BY <2>1, EmitsFacts DEF Branches, Addresses, Inst, BranchOps
  <2>3. <<Target(pos), pos + 1>> \in Seq(Leaders)
    BY <1>1, <2>2, LeaderFacts
  <2> QED BY <2>1, <2>3, TerminateFacts, TerminatorStep DEF BranchOps
<1>10. CASE EmitGoto
  <2>1. Emits({"goto"}) /\ Terminate(<<Target(pos)>>)
    BY <1>10 DEF EmitGoto, Emits
  <2>2. pos \in Branches
    BY <2>1, EmitsFacts DEF Branches, Addresses, Inst, BranchOps
  <2>3. <<Target(pos)>> \in Seq(Leaders)
    BY <1>1, <2>2, LeaderFacts
  <2> QED BY <2>1, <2>3, TerminateFacts, TerminatorStep DEF BranchOps
<1>11. CASE EmitReturn
  <2>1. Emits({"return"}) /\ term' = Put(term, block, <<>>)
        /\ outcome' = outcome
    BY <1>11 DEF EmitReturn, Emits
  <2>2. DOMAIN term' = DOMAIN term \cup {block}
    BY <2>1 DEF Put
  <2> QED BY <2>1, <2>2, TerminatorStep
<1>12. CASE EmitUnknown \/ PopEmpty
  <2>1. /\ outcome' \in {"BadBytecode", "undefined"}
        /\ UNCHANGED <<method, block, pos, term>>
    BY <1>12 DEF EmitUnknown, PopEmpty
  <2>2. BlockEnd(block)' = BlockEnd(block)
    BY <1>1, <2>1 DEF BlockEnd, Later
  <2> QED
    BY <1>1, <2>1, <2>2
       DEF TermInv, BlocksBehind, BlocksAhead, TerminatorLast,
           LeftWithTerminator, BlocksFound, AllBlocksTerminated, Compiling
<1>13. CASE EndBlock
  <2>1. /\ Compiling /\ pos = BlockEnd(block) /\ pos \in Nat
        /\ block \in Leaders /\ block \in Nat /\ CodeLength \in Nat \ {0}
        /\ Leaders \subseteq 0..CodeLength
    BY <1>1, <1>13, LeaderFacts, CodeFacts, BlockEndFacts
       DEF EndBlock, BlockDone, TypeInv, Located
  <2>2. block \notin DOMAIN term => BlockEnd(block) \in Leaders
    <3> SUFFICES ASSUME block \notin DOMAIN term,
                        BlockEnd(block) \notin Leaders
                 PROVE  FALSE
      OBVIOUS
    <3>1. pos = CodeLength
      BY <1>1, <2>1, BlockEndFacts
    <3>2. pos > block
      BY <2>1, <3>1
    <3>3. InstAt(pos - 1).op \in BranchOps \cup {"return", "unknown"}
      BY <1>1, <3>1, CodeFacts
    <3> QED BY <2>1, <3>2, <3>3 DEF TermInv, LeftWithTerminator
  <2>3. /\ NextBlock
        /\ DOMAIN term' = DOMAIN term \cup {block}
    <3>1. CASE block \in DOMAIN term
      BY <1>13, <3>1 DEF EndBlock
    <3>2. CASE block \notin DOMAIN term
      BY <1>13, <2>2, <3>2 DEF EndBlock, Found, Put
    <3> QED BY <3>1, <3>2
  <2>4. CASE Later(block) = {}
    <3>1. outcome' = "emitted" /\ UNCHANGED <<block, pos>>
      BY <2>3, <2>4 DEF NextBlock
    <3>2. \A l \in Leaders : l < block \/ l = block
      BY <2>1, <2>4 DEF Later
    <3>3. DOMAIN term' = Leaders
      BY <2>1, <2>3, <3>2 DEF TermInv, BlocksBehind, TypeInv, TypeOK
    <3>4. BlockEnd(block)' = BlockEnd(block)
      BY <1>1, <3>1 DEF BlockEnd, Later
    <3>5. BlocksBehind' /\ BlocksAhead' /\ TerminatorLast'
      <4>1. \A l \in Leaders : l <= block
        BY <2>1, <3>2
      <4>2. BlocksBehind'
        BY <1>1, <3>3 DEF BlocksBehind
      <4>3. BlocksAhead'
        BY <3>1, <3>3, <4>1 DEF BlocksAhead
      <4>4. pos' >= BlockEnd(block)'
        BY <2>1, <3>1, <3>4
      <4> QED BY <4>2, <4>3, <4>4 DEF TerminatorLast
    <3> QED
      BY <1>1, <3>1, <3>3, <3>5
         DEF TermInv, LeftWithTerminator, BlocksFound, AllBlocksTerminated,
             Compiling
  <2>5. CASE Later(block) # {}
    <3>1. /\ block' = BlockEnd(block) /\ pos' = BlockEnd(block)
          /\ outcome' = outcome
      BY <2>3, <2>5 DEF NextBlock
    <3>2. /\ block < BlockEnd(block)
          /\ \A l \in Leaders : l < BlockEnd(block) => l <= block
      BY <1>1, <2>1, <2>5, BlockEndFacts
    <3>3. BlocksBehind' /\ BlocksAhead'
      <4>1. ASSUME NEW l \in Leaders, l < block'
            PROVE  l \in DOMAIN term'
        <5>1. l < block \/ l = block
          BY <2>1, <3>1, <3>2, <4>1
        <5> QED BY <2>3, <5>1 DEF TermInv, BlocksBehind
      <4>2. ASSUME NEW l \in DOMAIN term'
            PROVE  l <= block'
        <5>1. l \in Leaders /\ l <= block
          BY <2>1, <2>3 DEF TermInv, BlocksAhead, TypeInv, TypeOK
        <5>2. l \in Nat /\ block \in Nat /\ BlockEnd(block) \in Nat
          <6>1. BlockEnd(block) \in Nat
            BY <2>1
          <6>2. \A k \in Leaders : k \in Nat
            BY <2>1
          <6> QED BY <2>1, <5>1, <6>1, <6>2
        <5> QED BY <3>1, <3>2, <5>1, <5>2
      <4> QED BY <1>1, <4>1, <4>2 DEF BlocksBehind, BlocksAhead
    <3>4. block' \notin DOMAIN term'
      BY <2>1, <2>3, <3>1, <3>2 DEF TermInv, BlocksAhead
    <3> QED
      BY <2>1, <3>1, <3>3, <3>4
         DEF TermInv, TerminatorLast, LeftWithTerminator, BlocksFound,
             AllBlocksTerminated, Compiling
  <2> QED BY <2>4, <2>5
<1>14. CASE UNCHANGED vars
  <2>1. BlockEnd(block)' = BlockEnd(block)
    BY <1>1, <1>14 DEF BlockEnd, Later, vars
  <2> QED
    BY <1>1, <1>14, <2>1
       DEF vars, TermInv, BlocksBehind, BlocksAhead, TerminatorLast,
           LeftWithTerminator, BlocksFound, AllBlocksTerminated, Compiling,
           InstAt
<1> QED
  BY <1>3, <1>4, <1>5, <1>6, <1>7, <1>8, <1>9, <1>10, <1>11, <1>12, <1>13,
     <1>14 DEF Next, Emit

\* The inductive invariant of the walk over the blocks.
LEMMA TermAlways == Spec => []TermInv
<1> DEFINE Inv == TypeInv /\ TermInv
<1>1. Init => Inv
  BY TypeInit, TermInit
<1>2. Inv /\ [Next]_vars => Inv'
  BY TypeStep, TermStep
<1>3. Inv => TermInv
  OBVIOUS
<1> HIDE DEF Inv
<1> QED BY <1>1, <1>2, <1>3, PTL DEF Spec

\* Nothing is emitted behind the terminator of a block, however the blocks of a
\* method lie.
THEOREM TerminatorsAlwaysLast == Spec => []TerminatorLast
<1>1. TermInv => TerminatorLast
  BY DEF TermInv
<1> QED BY TermAlways, <1>1, PTL

\* A method that is emitted has a terminator in each of its blocks, in the empty
\* one behind a last branch too.
THEOREM BlocksAlwaysTerminated == Spec => []AllBlocksTerminated
<1>1. TermInv => AllBlocksTerminated
  BY DEF TermInv
<1> QED BY TermAlways, <1>1, PTL

\* The control flow graph has every block that is asked for: its look-up throws
\* for no verified method.
THEOREM BlocksAlwaysFound == Spec => []BlocksFound
<1>1. TermInv => BlocksFound
  BY DEF TermInv
<1> QED BY TermAlways, <1>1, PTL
=============================================================================
