--------------------------- MODULE MethodExecution ---------------------------
(***************************************************************************)
(* The emitted code and the bytecode it was made from, executed side by    *)
(* side: the JVM, with its operand stack and local variables, and the SSA  *)
(* code, with a register for each instruction and a memory cell for each   *)
(* slot and type.  Both take each branch alike, and every path is taken.   *)
(*                                                                         *)
(* A value is known by the address of the instruction, or by the number of *)
(* the parameter, that it came from.                                       *)
(***************************************************************************)
EXTENDS MethodCodegen

VARIABLES
    running,    \* both machines are executing
    jpc,        \* the JVM: address, operand stack, local variables
    jstack,
    jlocals,
    ipc,        \* the SSA code: address, registers, memory
    regs,
    mem

machines == <<running, jpc, jstack, jlocals, ipc, regs, mem>>

Unset == <<"unset", 0>>
Read(f, k) == IF k \in DOMAIN f THEN f[k] ELSE Unset

Param(i) == <<"parameter", i>>
Result(a) == <<"result", a>>

\* The JVM puts each parameter behind the slots of those before it, two for each
\* wide one.
SlotOf(params, i) ==
    i - 1 + Cardinality({j \in 1..(i - 1) : Width(params[j]) = 2})

Slot(i) == SlotOf(method.params, i)

ExecInit ==
    /\ Init
    /\ running = FALSE
    /\ jpc = 0 /\ ipc = 0
    /\ jstack = <<>>
    /\ jlocals = [s \in {} |-> Unset]
    /\ regs = [a \in {} |-> Unset]
    /\ mem = [l \in {} |-> Unset]

\* The caller passes the parameters; the params block copies them.
Call ==
    /\ outcome = "emitted"
    /\ ~running /\ jpc = 0
    /\ running' = TRUE
    /\ jlocals' = [s \in {Slot(i) : i \in DOMAIN method.params} |->
                     Param(CHOOSE i \in DOMAIN method.params : Slot(i) = s)]
    /\ mem' = [l \in {copied[i] : i \in DOMAIN copied} |->
                 Param(CHOOSE i \in DOMAIN copied : copied[i] = l)]
    /\ UNCHANGED <<vars, jpc, jstack, ipc, jstack, regs>>

-----------------------------------------------------------------------------
(* One instruction                                                         *)

JArgs(i) == SubSeq(jstack, Len(jstack) - Pops(i) + 1, Len(jstack))
JRest(i) == SubSeq(jstack, 1, Len(jstack) - Pops(i))

JvmStep(taken) ==
    LET i == InstAt(jpc)
    IN /\ jstack' =
            CASE i.op \in {"const", "binary", "cast", "invoke"}
                      /\ i.type # "void" -> Append(JRest(i), Result(jpc))
              [] i.op = "load" -> Append(jstack, Read(jlocals, i.arg))
              [] i.op = "dup" -> Append(jstack, jstack[Len(jstack)])
              [] OTHER -> JRest(i)
       /\ jlocals' = IF i.op = "store" THEN Put(jlocals, i.arg, JArgs(i)[1])
                                       ELSE jlocals
       /\ jpc' = IF i.op = "goto" \/ (i.op \in {"if", "ifcmp"} /\ taken)
                 THEN Target(jpc) ELSE jpc + 1

IArgs(a) == [k \in DOMAIN operands[a] |-> Read(regs, operands[a][k])]

BlockOf(a) == Max({l \in Leaders : l <= a})

\* The terminator of a block is executed with its last instruction.
SsaStep(taken) ==
    LET i == InstAt(ipc)
        b == BlockOf(ipc)
        to == term[b]
    IN /\ regs' = CASE i.op \in {"const", "binary", "cast", "invoke"} ->
                            Put(regs, ipc, Result(ipc))
                    [] i.op = "load" ->
                            Put(regs, ipc, Read(mem, <<i.arg, i.type>>))
                    [] OTHER -> regs
       /\ mem' = IF i.op = "store"
                 THEN Put(mem, <<i.arg, i.type>>, IArgs(ipc)[1]) ELSE mem
       /\ ipc' = IF ipc + 1 < BlockEnd(b) THEN ipc + 1
                 ELSE IF Len(to) = 2 /\ ~taken THEN to[2]
                 ELSE IF to = <<>> THEN ipc + 1 ELSE to[1]

Execute ==
    /\ running
    /\ InstAt(jpc).op # "return"
    /\ \E taken \in BOOLEAN : JvmStep(taken) /\ SsaStep(taken)
    /\ UNCHANGED <<vars, running>>

Return ==
    /\ running
    /\ InstAt(jpc).op = "return"
    /\ running' = FALSE
    /\ jpc' = CodeLength /\ ipc' = CodeLength
    /\ UNCHANGED <<vars, jstack, jlocals, regs, mem>>

Halted == ~Compiling /\ ~running /\ (jpc # 0 \/ outcome # "emitted")

ExecNext ==
    \/ Emit /\ UNCHANGED machines
    \/ Call \/ Execute \/ Return
    \/ Halted /\ UNCHANGED <<vars, machines>>

\* The compiler is one thread: it goes on until it has an outcome.  The program
\* may be stopped at any point.
ExecSpec == /\ ExecInit
            /\ [][ExecNext]_<<vars, machines>>
            /\ WF_<<vars, machines>>(Emit /\ UNCHANGED machines)

-----------------------------------------------------------------------------
(* Properties                                                              *)

\* Both machines are at the same instruction, after every branch, loop and
\* fall through: the blocks and terminators are those of the bytecode.
SamePoint == running => jpc = ipc

\* The instruction both are at finds the same values: what the compile time
\* stack gave it as operands is what the JVM has on its stack on this path.
SameOperands ==
    running /\ jpc = ipc => IArgs(ipc) = JArgs(InstAt(jpc))
=============================================================================
