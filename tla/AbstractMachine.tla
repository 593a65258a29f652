-------------------------- MODULE AbstractMachine ---------------------------
(***************************************************************************)
(* What Commands.h promises to a program: an operand stack that is a       *)
(* sequence, and calls that return to where they came from, last in first  *)
(* out.  No canaries, capacities, call array or address arithmetic.  An    *)
(* instruction takes its operands off the stack, puts its results on it,   *)
(* and fails when the operands are missing or (MayFail) memory runs out.   *)
(***************************************************************************)
EXTENDS Bytecode

CONSTANTS Images, SizeMem, NumberReg, DepthRecursion, Moves, MayFail

VARIABLES image, pc, registers, dynMem,
          phase,      (* "new", "open" or "closed": the operand stack        *)
          contents,   (* its elements, the top one last                      *)
          calls,      (* the addresses the calls under way return to         *)
          output, result

memory == <<registers, dynMem>>
vars   == <<image, pc, memory, phase, contents, calls, output, result>>

Init ==
  /\ image \in Images
  /\ pc = 0
  /\ registers = [r \in 0 .. NumberReg-1 |-> 0]
  /\ dynMem = [a \in 0 .. 2*SizeMem-1 |-> 0]
  /\ phase = "new"
  /\ contents = <<>>
  /\ calls = <<>>
  /\ output = <<>>
  /\ result = "running"

Running == result = "running" /\ pc < image.size
Instr == image.code[pc]
Fetched(op) == Running /\ pc \in DOMAIN image.code /\ Instr.op = op
NextPc == pc + InstrSize(Instr)

Operand(depth) == contents[Len(contents) - depth]

(* The instruction replaces the n topmost elements by those of `pushed'.   *)
Succeeds(n, pushed) ==
  /\ Len(contents) >= n
  /\ pushed # <<>> => phase = "open"
  /\ contents' = SubSeq(contents, 1, Len(contents) - n) \o pushed
  /\ UNCHANGED result

Fails(n, pushed) ==
  /\ UNCHANGED <<pc, phase>>
  /\ \/ /\ Len(contents) < n \/ MayFail
        /\ result' = "CPU_STACK_ERROR"
        /\ contents' = <<>>
     \/ /\ phase = "new" /\ pushed # <<>>
        /\ result' = "abort"
        /\ UNCHANGED contents

Create ==
  /\ Fetched("CRT")
  /\ \/ phase = "new" /\ phase' = "open" /\ pc' = NextPc /\ UNCHANGED <<contents, result>>
     \/ phase = "new" /\ Fails(0, <<>>)
     \/ phase = "open" /\ result' = "CPU_STACK_ERROR" /\ UNCHANGED <<pc, phase, contents>>
  /\ UNCHANGED <<image, memory, calls, output>>

(* Instructions that only push: IN, PUSH and MOVE.                         *)
Address ==
  CASE Instr.mode = "memimm" -> Instr.arg - 1
    [] Instr.mode = "memreg" /\ Instr.arg - 1 \in DOMAIN registers
                             -> registers[Instr.arg - 1] - 1
    [] OTHER                 -> -1

Values(op) ==
  CASE op = "IN"   -> Word
    [] op = "MOVE" -> Moves
    [] op = "PUSH" ->
         CASE Instr.mode = "imm" -> {Instr.arg}
           [] Instr.mode = "reg" /\ Instr.arg - 1 \in DOMAIN registers
                                 -> {registers[Instr.arg - 1]}
           [] Instr.mode \in {"memimm", "memreg"} /\ Address \in DOMAIN dynMem
                                 -> {dynMem[Address]}
           [] OTHER              -> {}

Supply(op) ==
  /\ Fetched(op)
  /\ \E v \in Values(op) :
       \/ Succeeds(0, <<v>>) /\ pc' = NextPc /\ UNCHANGED phase
       \/ Fails(0, <<v>>)
  /\ UNCHANGED <<image, memory, calls, output>>

Operate(op) ==
  /\ Fetched(op)
  /\ \/ /\ Len(contents) >= 2
        /\ ~Traps(op, Operand(1), Operand(0))
        /\ Succeeds(2, <<Compute(op, Operand(1), Operand(0))>>)
        /\ pc' = NextPc
        /\ UNCHANGED phase
     \/ Fails(2, <<>>)
  /\ UNCHANGED <<image, memory, calls, output>>

Out ==
  /\ Fetched("OUT")
  /\ \/ Succeeds(1, <<>>) /\ pc' = NextPc /\ output' = Append(output, Operand(0))
        /\ UNCHANGED phase
     \/ Fails(1, <<>>) /\ UNCHANGED output
  /\ UNCHANGED <<image, memory, calls>>

StoreArg(v) ==
  \/ /\ Instr.mode = "reg" /\ Instr.arg - 1 \in DOMAIN registers
     /\ registers' = [registers EXCEPT ![Instr.arg - 1] = v]
     /\ UNCHANGED dynMem
  \/ /\ Instr.mode \in {"memimm", "memreg"} /\ Address \in DOMAIN dynMem
     /\ dynMem' = [dynMem EXCEPT ![Address] = v]
     /\ UNCHANGED registers

Pop ==
  /\ Fetched("POP")
  /\ \/ Succeeds(1, <<>>) /\ StoreArg(Operand(0)) /\ pc' = NextPc /\ UNCHANGED phase
     \/ Fails(1, <<>>) /\ (UNCHANGED memory \/ (contents # <<>> /\ StoreArg(Operand(0))))
  /\ UNCHANGED <<image, calls, output>>

Sqrt ==
  /\ Fetched("SQRT")
  /\ \/ Instr.mode = "reg" /\ StoreArg(SquareRoot(registers[Instr.arg - 1]))
     \/ Instr.mode # "reg" /\ StoreArg(SquareRoot(dynMem[Address]))
  /\ pc' = NextPc
  /\ UNCHANGED <<image, phase, contents, calls, output, result>>

CondJmp(op) ==
  /\ Fetched(op)
  /\ \/ /\ Succeeds(2, <<>>)
        /\ pc' = IF Holds(op, Operand(1), Operand(0)) THEN Instr.arg ELSE NextPc
        /\ UNCHANGED phase
     \/ Fails(2, <<>>)
  /\ UNCHANGED <<image, memory, calls, output>>

Goto ==
  /\ \/ Fetched("JMP") /\ UNCHANGED calls
     \/ Fetched("CALL") /\ Len(calls) < DepthRecursion /\ calls' = Append(calls, NextPc)
  /\ pc' = Instr.arg
  /\ UNCHANGED <<image, memory, phase, contents, output, result>>

Ret ==
  /\ Fetched("RET")
  /\ calls # <<>>
  /\ pc' = calls[Len(calls)]
  /\ calls' = SubSeq(calls, 1, Len(calls) - 1)
  /\ UNCHANGED <<image, memory, phase, contents, output, result>>

(* DRAW, P_CDOT, P_SPACE and NEW_LINE print something and do nothing else. *)
Show(op) ==
  /\ Fetched(op)
  /\ Len(output') = Len(output) + 1
  /\ SubSeq(output', 1, Len(output)) = output
  /\ pc' = NextPc
  /\ UNCHANGED <<image, memory, phase, contents, calls, result>>

Halt ==
  /\ Fetched("HLT")
  /\ phase' = "closed" /\ contents' = <<>> /\ pc' = image.size
  /\ UNCHANGED <<image, memory, calls, output, result>>

Finish ==
  /\ result = "running" /\ pc >= image.size
  /\ result' = "CPU_NO_ERROR"
  /\ UNCHANGED <<image, pc, memory, phase, contents, calls, output>>

(* Where nothing is promised: no instruction at the program counter, no    *)
(* register or cell of that number, a trap, too many calls or returns.     *)
NoPlace == Instr.op \in ArgOps
           /\ CASE Instr.mode = "imm" -> Instr.op # "PUSH"
                [] Instr.mode = "reg" -> Instr.arg - 1 \notin DOMAIN registers
                [] OTHER              -> Address \notin DOMAIN dynMem

Unpromised ==
  \/ pc \notin DOMAIN image.code
  \/ NoPlace
  \/ Instr.op = "DIV" /\ Len(contents) >= 2 /\ Traps("DIV", Operand(1), Operand(0))
  \/ Instr.op = "CALL" /\ Len(calls) = DepthRecursion
  \/ Instr.op = "RET" /\ calls = <<>>

Lose ==
  /\ Running
  /\ Unpromised
  /\ result' \in {"undefined", "CPU_NO_COMMAND"}
  /\ contents' \in {SubSeq(contents, 1, n) : n \in 0 .. Len(contents)}
  /\ UNCHANGED <<image, pc, memory, phase, calls, output>>

Next ==
  \/ Create \/ Out \/ Pop \/ Sqrt \/ Goto \/ Ret \/ Halt \/ Finish \/ Lose
  \/ \E op \in {"IN", "PUSH", "MOVE"} : Supply(op)
  \/ \E op \in Operators : Operate(op)
  \/ \E op \in ConditionalJumps : CondJmp(op)
  \/ \E op \in Printers \cup {"DRAW"} : Show(op)

Spec == Init /\ [][Next]_vars
=============================================================================
