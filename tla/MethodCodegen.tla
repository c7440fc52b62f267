---------------------------- MODULE MethodCodegen ----------------------------
(***************************************************************************)
(* The body of one method: how codegen::EmitMethod turns stack code into   *)
(* SSA code.  The compiler keeps the operand stack of the JVM at compile   *)
(* time, as a stack of SSA values, and walks the basic blocks ONCE, in the *)
(* order of their addresses, not along the paths of the program.           *)
(*                                                                         *)
(* An instruction is one address long.  Opcodes that do the same to the    *)
(* stack are one instruction here: "invoke" stands for the invocations and *)
(* for the accesses of fields, with the operands and result they have.     *)
(***************************************************************************)
EXTENDS Integers, Sequences, FiniteSets, FiniteSetsExt

CONSTANTS Methods       \* what may be compiled: the parameters and the code

Types == {"int", "long", "float", "double", "object"}
Width(t) == IF t \in {"long", "double"} THEN 2 ELSE 1

\* arg is the slot of a local variable, the relative target of a branch or the
\* number of operands of an invocation.
Instruction == [op : {"const", "load", "store", "dup", "binary", "cast", "if",
                      "ifcmp", "goto", "return", "invoke", "unknown"},
                type : Types \cup {"void"},
                arg : Int]

\* Loads and stores name one of the slots 0 to 3: the other forms, with the slot
\* behind the opcode, are opcodes the compiler does not know.
ASSUME MethodsAssumption ==
    \A m \in Methods :
        /\ m.params \in Seq(Types)
        /\ m.code \in Seq(Instruction)
        /\ m.code # <<>>
        /\ \A i \in DOMAIN m.code :
              /\ m.code[i].op = "invoke" => m.code[i].arg \in Nat
              /\ m.code[i].op \in {"load", "store"} => m.code[i].arg \in 0..3

BranchOps == {"if", "ifcmp", "goto"}

\* What the verifier of a JVM makes sure of: branches stay inside the code and
\* no path runs off its end.
ASSUME VerifiedAssumption ==
    \A m \in Methods :
        /\ \A i \in DOMAIN m.code :
              m.code[i].op \in BranchOps => i + m.code[i].arg \in DOMAIN m.code
        /\ m.code[Len(m.code)].op \in BranchOps \cup {"return", "unknown"}

\* There are no exception handlers: only a branch leads behind a return.
ASSUME NoHandlerAssumption ==
    \A m \in Methods : \A i \in DOMAIN m.code :
        m.code[i].op = "return" /\ i < Len(m.code) =>
            \E j \in DOMAIN m.code : /\ m.code[j].op \in BranchOps
                                     /\ j + m.code[j].arg = i + 1

VARIABLES
    method,     \* the method compiled
    javaIndex,  \* slot of the next parameter
    copied,     \* the local each parameter was copied to, in order
    allocas,    \* locals that have a stack slot: one for each slot and type
    block,      \* start of the block being emitted
    pos,        \* position of the code iterator
    stack,      \* SSA values on the stack: the address that made it, its type
    operands,   \* address emitted -> the SSA values it uses
    term,       \* block -> the blocks its terminator leads to
    outcome     \* "compiling", or how the compilation of the method ended

vars == <<method, javaIndex, copied, allocas, block, pos, stack, operands,
          term, outcome>>

Code == method.code
CodeLength == Len(Code)
InstAt(a) == Code[a + 1]
Inst == InstAt(pos)

\* LocalVariables::Get: one stack slot for each slot and type, made when it is
\* first asked for.
Local(slot, type) == <<slot, type>>

Put(f, k, v) == [x \in DOMAIN f \cup {k} |-> IF x = k THEN v ELSE f[x]]

-----------------------------------------------------------------------------
(* The control flow graph                                                  *)

Branches ==
    {a \in 0..(CodeLength - 1) : InstAt(a).op \in BranchOps}
Target(a) == a + InstAt(a).arg

\* Mutant of Leaders: only the targets of branches start a block.
LeadersOfTargets == {0} \cup {Target(a) : a \in Branches}

\* Where a block starts: the entry, each target and each successor of a branch,
\* which is the end of the code when the branch is the last instruction.
Leaders == {0} \cup {Target(a) : a \in Branches} \cup {a + 1 : a \in Branches}

Later(b) == {l \in Leaders : l > b}

\* Mutant of BlockEnd: the end of a block is taken to be inside.
BlockEndInclusive(b) == IF Later(b) = {} THEN CodeLength ELSE Min(Later(b)) + 1

BlockEnd(b) == IF Later(b) = {} THEN CodeLength ELSE Min(Later(b))

\* GetBlock throws when no block starts there.
Found(blocks) == \A l \in blocks : l \in Leaders

-----------------------------------------------------------------------------
Init ==
    /\ method \in Methods
    /\ javaIndex = 0
    /\ copied = <<>>
    /\ allocas = {}
    /\ block = 0
    /\ pos = 0
    /\ stack = <<>>
    /\ operands = [a \in {} |-> <<>>]
    /\ term = [b \in {} |-> <<>>]
    /\ outcome = "compiling"

Compiling == outcome = "compiling"

CopyParameter ==
    /\ Compiling
    /\ Len(copied) < Len(method.params)
    /\ LET type == method.params[Len(copied) + 1]
           local == Local(javaIndex, type)
       IN /\ copied' = Append(copied, local)
          /\ allocas' = allocas \cup {local}
          /\ javaIndex' = javaIndex + Width(type)
    /\ UNCHANGED <<method, block, pos, stack, operands, term, outcome>>

-----------------------------------------------------------------------------
(* Instructions                                                            *)

Pops(i) ==
    CASE i.op \in {"store", "cast", "if"} -> 1
      [] i.op \in {"binary", "ifcmp"} -> 2
      [] i.op = "return" -> IF i.type = "void" THEN 0 ELSE 1
      [] i.op = "invoke" -> i.arg
      [] OTHER -> 0

\* The instruction the iterator is at is one of ops and finds its operands.
AtInst(ops) ==
    /\ Compiling
    /\ Len(copied) = Len(method.params)
    /\ pos < BlockEnd(block)
    /\ Inst.op \in ops
    /\ Len(stack) >= Pops(Inst)

Rest == SubSeq(stack, 1, Len(stack) - Pops(Inst))
Args == SubSeq(stack, Len(stack) - Pops(Inst) + 1, Len(stack))

\* The instruction uses the operands in the order they were pushed.
Use == operands' = Put(operands, pos, [i \in DOMAIN Args |-> Args[i].def])

Made(type) == [def |-> pos, type |-> type]

Advance == pos' = pos + 1 /\ UNCHANGED <<method, javaIndex, copied, block>>

EmitConst ==
    /\ AtInst({"const"})
    /\ stack' = Append(stack, Made(Inst.type))
    /\ Use /\ Advance
    /\ UNCHANGED <<allocas, term, outcome>>

EmitLocalLoad ==
    /\ AtInst({"load"})
    /\ allocas' = allocas \cup {Local(Inst.arg, Inst.type)}
    /\ stack' = Append(stack, Made(Inst.type))
    /\ Use /\ Advance
    /\ UNCHANGED <<term, outcome>>

\* The value must have the type of the local: the assertion of EmitStore.
EmitLocalStore ==
    /\ AtInst({"store"})
    /\ allocas' = allocas \cup {Local(Inst.arg, Inst.type)}
    /\ stack' = Rest
    /\ outcome' = IF Args[1].type = Inst.type THEN outcome ELSE "aborted"
    /\ Use /\ Advance
    /\ UNCHANGED term

\* Mutant of EmitDup: the value is not pushed.
EmitDupNothing ==
    /\ AtInst({"dup"})
    /\ stack # <<>>
    /\ outcome' = IF Width(stack[Len(stack)].type) = 1 THEN outcome
                                                      ELSE "BadBytecode"
    /\ Use /\ Advance
    /\ UNCHANGED <<allocas, stack, term>>

\* A wide value is refused; Top of an empty stack is undefined.
EmitDup ==
    /\ AtInst({"dup"})
    /\ stack # <<>>
    /\ LET top == stack[Len(stack)]
       IN IF Width(top.type) = 1
          THEN stack' = Append(stack, top) /\ UNCHANGED outcome
          ELSE outcome' = "BadBytecode" /\ UNCHANGED stack
    /\ Use /\ Advance
    /\ UNCHANGED <<allocas, term>>

\* Mutant of EmitOperation: the result has the type of the operand.
EmitUntypedOperation ==
    /\ AtInst({"binary", "cast", "invoke"})
    /\ stack' = IF Inst.type = "void" THEN Rest
                ELSE Append(Rest, Made(IF Args = <<>> THEN Inst.type
                                                      ELSE Args[1].type))
    /\ Use /\ Advance
    /\ UNCHANGED <<allocas, term, outcome>>

\* Mutant of EmitOperation: the operands are in the order they were popped.
EmitReversedOperation ==
    /\ AtInst({"binary", "cast", "invoke"})
    /\ stack' = IF Inst.type = "void" THEN Rest
                                      ELSE Append(Rest, Made(Inst.type))
    /\ operands' = Put(operands, pos, [i \in DOMAIN Args |->
                                          Args[Len(Args) - i + 1].def])
    /\ Advance
    /\ UNCHANGED <<allocas, term, outcome>>

\* Mutant of EmitOperation: the operands stay on the stack.
EmitPeekingOperation ==
    /\ AtInst({"binary", "cast", "invoke"})
    /\ stack' = IF Inst.type = "void" THEN stack
                                      ELSE Append(stack, Made(Inst.type))
    /\ Use /\ Advance
    /\ UNCHANGED <<allocas, term, outcome>>

\* The types of the operands are not looked at.
EmitOperation ==
    /\ AtInst({"binary", "cast", "invoke"})
    /\ stack' = IF Inst.type = "void" THEN Rest
                                      ELSE Append(Rest, Made(Inst.type))
    /\ Use /\ Advance
    /\ UNCHANGED <<allocas, term, outcome>>

\* The terminator leads to the blocks the instruction names.
Terminate(blocks) ==
    IF Found({blocks[i] : i \in DOMAIN blocks})
    THEN term' = Put(term, block, blocks) /\ UNCHANGED outcome
    ELSE outcome' = "out_of_range" /\ UNCHANGED term

\* Mutant of EmitConditionalBranch: the branch is taken when it should not be.
EmitInvertedBranch ==
    /\ AtInst({"if", "ifcmp"})
    /\ stack' = Rest
    /\ Terminate(<<pos + 1, Target(pos)>>)
    /\ Use /\ Advance
    /\ UNCHANGED allocas

EmitConditionalBranch ==
    /\ AtInst({"if", "ifcmp"})
    /\ stack' = Rest
    /\ Terminate(<<Target(pos), pos + 1>>)
    /\ Use /\ Advance
    /\ UNCHANGED allocas

\* Mutant of EmitGoto: the code iterator jumps too.
EmitGotoAndJump ==
    /\ AtInst({"goto"})
    /\ Terminate(<<Target(pos)>>)
    /\ Use
    /\ pos' = Target(pos)
    /\ UNCHANGED <<method, javaIndex, copied, allocas, block, stack>>

EmitGoto ==
    /\ AtInst({"goto"})
    /\ Terminate(<<Target(pos)>>)
    /\ Use /\ Advance
    /\ UNCHANGED <<allocas, stack>>

EmitReturn ==
    /\ AtInst({"return"})
    /\ stack' = Rest
    /\ term' = Put(term, block, <<>>)
    /\ Use /\ Advance
    /\ UNCHANGED <<allocas, outcome>>

EmitUnknown ==
    /\ AtInst({"unknown"})
    /\ outcome' = "BadBytecode"
    /\ UNCHANGED <<method, javaIndex, copied, allocas, block, pos, stack,
                   operands, term>>

\* back and pop_back of an empty vector are undefined; nothing that follows
\* means anything.
PopEmpty ==
    /\ Compiling
    /\ Len(copied) = Len(method.params)
    /\ pos < BlockEnd(block)
    /\ \/ Len(stack) < Pops(Inst)
       \/ Inst.op = "dup" /\ stack = <<>>
    /\ outcome' = "undefined"
    /\ UNCHANGED <<method, javaIndex, copied, allocas, block, pos, stack,
                   operands, term>>

-----------------------------------------------------------------------------
(* Blocks                                                                  *)

\* After the last block the method is done.
NextBlock ==
    IF Later(block) = {}
    THEN outcome' = "emitted" /\ UNCHANGED <<block, pos>>
    ELSE /\ block' = BlockEnd(block)
         /\ pos' = BlockEnd(block)
         /\ UNCHANGED outcome

BlockDone ==
    /\ Compiling
    /\ Len(copied) = Len(method.params)
    /\ pos >= BlockEnd(block)

\* Mutant of EndBlock: a block is left without a terminator.
EndBlockOpen ==
    /\ BlockDone
    /\ NextBlock
    /\ UNCHANGED <<method, javaIndex, copied, allocas, stack, operands, term>>

\* A block without a terminator leads to the next one.  A branch at the end of
\* the code is followed by an empty block, which leads to itself; other code
\* that runs off its end has no block there.
EndBlock ==
    /\ BlockDone
    /\ IF block \in DOMAIN term
       THEN NextBlock /\ UNCHANGED term
       ELSE IF Found({BlockEnd(block)})
       THEN NextBlock /\ term' = Put(term, block, <<BlockEnd(block)>>)
       ELSE outcome' = "out_of_range" /\ UNCHANGED <<block, pos, term>>
    /\ UNCHANGED <<method, javaIndex, copied, allocas, stack, operands>>

Emit ==
    \/ CopyParameter
    \/ EmitConst \/ EmitLocalLoad \/ EmitLocalStore \/ EmitDup
    \/ EmitOperation \/ EmitConditionalBranch \/ EmitGoto \/ EmitReturn
    \/ EmitUnknown \/ PopEmpty
    \/ EndBlock

Next == Emit \/ (~Compiling /\ UNCHANGED vars)

Spec == Init /\ [][Next]_vars

-----------------------------------------------------------------------------
(* Properties                                                              *)

Outcomes == {"compiling", "emitted", "aborted", "BadBytecode", "undefined",
             "out_of_range"}

Addresses == 0..(CodeLength - 1)

\* Every variable holds a value of its type.
TypeOK ==
    /\ method \in Methods
    /\ javaIndex \in Nat
    /\ copied \in Seq(Nat \X Types)
    /\ allocas \subseteq Int \X (Types \cup {"void"})
    /\ block \in Leaders
    /\ pos \in 0..CodeLength
    /\ stack \in Seq([def : Addresses, type : Types \cup {"void"}])
    /\ DOMAIN operands \subseteq Addresses
    /\ \A a \in DOMAIN operands : operands[a] \in Seq(Addresses)
    /\ DOMAIN term \subseteq Leaders
    /\ \A b \in DOMAIN term : term[b] \in Seq(Leaders)
    /\ outcome \in Outcomes

\* A terminator is the last instruction of its block: nothing is emitted into a
\* block that has one.
TerminatorLast == block \in DOMAIN term => pos >= BlockEnd(block)

\* The emitted function is well formed: every block has a terminator, the empty
\* one behind a last branch included.
AllBlocksTerminated == outcome = "emitted" => DOMAIN term = Leaders

\* No branch and no fall through asks for a block that the graph does not have.
BlocksFound == outcome # "out_of_range"

\* Nothing is on the stack between two blocks, which is when the order of the
\* addresses and that of the program cannot disagree on what is there.
StackEmptyBetweenBlocks ==
    Compiling /\ pos = block => stack = <<>>

\* local-variables.cc asserts that the value stored has the type of the local.
StoresTyped == outcome # "aborted"

\* Every method is compiled or refused in the end.
CompilationEnds == <>~Compiling
=============================================================================
