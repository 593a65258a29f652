-------------------------------- MODULE CPU ---------------------------------
(***************************************************************************)
(* The virtual machine: executeCode of CPU/CPU/main.cpp with the commands  *)
(* of CPU/include/Commands.h and Commands_help.h.  One action is one turn  *)
(* of the loop: it fetches the instruction at the program counter and runs *)
(* its code, every StackPush and StackPop of it included.                  *)
(*                                                                         *)
(* The program is an image: its instructions by their addresses, which     *)
(* count from cpu->program, and its size in bytes.  A step into undefined  *)
(* behaviour (an access outside an array, a trapped division) ends the     *)
(* behaviour with result "undefined": what follows in the process is       *)
(* whatever the build makes of it, and nothing is promised.                *)
(***************************************************************************)
EXTENDS Bytecode, StackOps

CONSTANTS
  Images,          (* the programs the machine may be given                 *)
  Inputs,          (* the values scanf("%d") may read                       *)
  NoInput,         (* scanf reads none: the end of the input, or no digits  *)
  SizeMem,         (* SIZE_MEM, 1000                                        *)
  NumberReg,       (* NUMBER_REG, 7                                         *)
  DepthRecursion,  (* DEPTH_RECURSION, 20                                   *)
  FieldWidth,      (* FIELD_WIDTH, 31                                       *)
  Capacity,        (* the capacity of CRT, 10                               *)
  MaxOutput        (* bound: the items a program may print                  *)

(***************************************************************************)
(* What every file decodes to: the two OPERATION_USE_* bits of a code give *)
(* four modes, and the value behind an immediate one is a stackData_t.     *)
(***************************************************************************)
Decodes(i) ==
  /\ i.arg \in Int
  /\ i.op \in ArgOps => i.mode \in {"imm", "reg", "memimm", "memreg"}
  /\ i.mode = "imm" => i.arg \in Word

ASSUME ImagesAssumption ==
  \A im \in Images : /\ im.size \in Nat
                     /\ DOMAIN im.code \subseteq Nat
                     /\ \A a \in DOMAIN im.code : Decodes(im.code[a])

ASSUME InputsAssumption   == Inputs \subseteq Word
ASSUME SizesAssumption    == SizeMem \in Nat /\ NumberReg \in Nat
ASSUME DepthAssumption    == DepthRecursion \in Nat
ASSUME FieldAssumption    == FieldWidth \in 0 .. MaxInt
ASSUME CapacityAssumption == Capacity \in Nat \ {0}
ASSUME GarbageAssumption  == Garbage \notin Word

VARIABLES image, pc, registers, dynMem, stack, callArray, cntNumAddress,
          elem1,      (* the local variable IN reads into                   *)
          cpuError,   (* the local variable getArg stores its error in      *)
          output,     (* what the program printed                           *)
          result      (* "running", or how the machine stopped              *)

machine == <<registers, dynMem, callArray, cntNumAddress>>
locals  == <<elem1, cpuError>>
vars    == <<image, pc, stack, output, result, machine, locals>>

Results == {"running", "CPU_NO_ERROR", "CPU_STACK_ERROR", "CPU_NO_COMMAND",
            "abort", "undefined"}

(* dynMem is calloc(SIZE_MEM, sizeof(size_t)): twice as many ints.         *)
IntsPerSizeT == 2
MemCells == 0 .. IntsPerSizeT * SizeMem - 1
Regs     == 0 .. NumberReg - 1

(* fillStructCPU and the locals of executeCode: all but the program.       *)
Idle ==
  /\ pc = 0
  /\ registers = [r \in Regs |-> 0]
  /\ dynMem = [a \in MemCells |-> 0]
  /\ stack = UnconstructedStack
  /\ callArray = [i \in 0 .. DepthRecursion-1 |-> 0]
  /\ cntNumAddress = 0
  /\ elem1 = 0
  /\ cpuError = "CPU_NO_ERROR"
  /\ output = <<>>
  /\ result = "running"

Init == image \in Images /\ Idle

-----------------------------------------------------------------------------
Instr == image.code[pc]

Fetched(op) ==
  /\ result = "running"
  /\ pc < image.size
  /\ pc \in DOMAIN image.code
  /\ Instr.op = op

(* Variant: the argument is not stepped over.                              *)
NextPcAfterCode == pc + CodeBytes

NextPc == pc + InstrSize(Instr)

Stop(r) == result' = r /\ UNCHANGED pc

(* IS_CPU_ERROR_, and the assertion of ReallocStack before it.             *)
Failure(err) == IF err = "abort" THEN "abort" ELSE "CPU_STACK_ERROR"

(* Variant: the error of the stack is not looked at.                       *)
SettleBlindly(r, next) ==
  /\ stack' = r.stack
  /\ pc' = next
  /\ UNCHANGED result

(* The instruction leaves the stack of r and goes on at `next', unless a   *)
(* call of the stack failed.                                               *)
Settle(r, next) ==
  /\ stack' = r.stack
  /\ IF r.err = Ok THEN pc' = next /\ UNCHANGED result
                   ELSE Stop(Failure(r.err))

(***************************************************************************)
(* getArg: where the argument is.  Only an immediate address and a         *)
(* register number are checked, and the error found is merely stored.      *)
(***************************************************************************)
BadReg == Instr.arg - 1 \notin Regs
Place  ==
  CASE Instr.mode = "imm"    -> [in |-> "program", at |-> 0]
    [] Instr.mode = "reg"    -> [in |-> "registers", at |-> Instr.arg - 1]
    [] Instr.mode = "memimm" -> [in |-> "dynMem", at |-> Instr.arg - 1]
    [] Instr.mode = "memreg" ->
         IF BadReg THEN [in |-> "dynMem", at |-> -1]
                   ELSE [in |-> "dynMem", at |-> registers[Instr.arg - 1] - 1]

ArgError ==
  CASE Instr.mode = "memimm" /\ Instr.arg - 1 \notin 0 .. SizeMem-1
         -> "CPU_NO_NUMBER_DYN_MEM"
    [] Instr.mode \in {"reg", "memreg"} /\ BadReg
         -> "CPU_NO_NUMBER_REGISTER"
    [] OTHER -> cpuError

GetArg == cpuError' = ArgError

(* The assembler gives POP and SQRT no immediate, so the cell of the       *)
(* program such an argument lies in is never written.                      *)
Readable == CASE Place.in = "program"   -> TRUE
              [] Place.in = "registers" -> Place.at \in Regs
              [] Place.in = "dynMem"    -> Place.at \in MemCells
Writable == Place.in # "program" /\ Readable

ArgValue == CASE Place.in = "program"   -> Instr.arg
              [] Place.in = "registers" -> registers[Place.at]
              [] Place.in = "dynMem"    -> dynMem[Place.at]

StoreArg(v) ==
  /\ registers' = IF Place.in = "registers" THEN [registers EXCEPT ![Place.at] = v]
                                            ELSE registers
  /\ dynMem' = IF Place.in = "dynMem" THEN [dynMem EXCEPT ![Place.at] = v]
                                      ELSE dynMem

-----------------------------------------------------------------------------
(* Sequences of calls of the stack: the first failure ends the instruction. *)
PopTwo(s, ok1, ok2) ==
  LET first == StackPop(s, ok1)
  IN  IF first.err = Ok THEN StackPop(first.stack, ok2) ELSE first

ThenPush(r, v, ok) == IF r.err = Ok THEN StackPush(r.stack, v, ok) ELSE r

(* The element `depth' below the top. *)
Peek(depth) == stack.block[stack.size - 1 - depth]

Crt ==
  /\ Fetched("CRT")
  /\ \E ok \in AllocOutcomes : Settle(StackCtor(stack, Capacity, ok), NextPc)
  /\ UNCHANGED <<image, output, machine, locals>>

(* When nothing is read elem1 keeps its old value, and that is pushed.     *)
In ==
  /\ Fetched("IN")
  /\ \E v \in Inputs \cup {NoInput} :
       elem1' = IF v = NoInput THEN elem1 ELSE v
  /\ \E ok \in AllocOutcomes : Settle(StackPush(stack, elem1', ok), NextPc)
  /\ UNCHANGED <<image, output, machine, cpuError>>

Push ==
  /\ Fetched("PUSH")
  /\ GetArg
  /\ IF Readable
     THEN \E ok \in AllocOutcomes : Settle(StackPush(stack, ArgValue, ok), NextPc)
     ELSE Stop("undefined") /\ UNCHANGED stack
  /\ UNCHANGED <<image, output, machine, elem1>>

(* The argument is stored even when the stack then fails to shrink.        *)
Pop ==
  /\ Fetched("POP")
  /\ GetArg
  /\ \E ok \in AllocOutcomes :
       LET r == StackPop(stack, ok)
       IN  CASE r.top = Garbage -> Settle(r, NextPc) /\ UNCHANGED <<registers, dynMem>>
             [] r.top # Garbage /\ Writable -> Settle(r, NextPc) /\ StoreArg(r.top)
             [] r.top # Garbage /\ ~Writable ->
                  Stop("undefined") /\ UNCHANGED <<stack, registers, dynMem>>
  /\ UNCHANGED <<image, output, callArray, cntNumAddress, elem1>>

(* ADD, SUB, MUL and DIV pop elem1, then elem2, and push the result.       *)
Operate(op) ==
  /\ Fetched(op)
  /\ \E ok1, ok2, ok3 \in AllocOutcomes :
       LET popped == PopTwo(stack, ok1, ok2)
           x      == Peek(1)
           y      == Peek(0)
       IN  IF popped.err = Ok
           THEN /\ elem1' = y
                /\ IF Traps(op, x, y)
                   THEN Stop("undefined") /\ stack' = popped.stack
                   ELSE Settle(ThenPush(popped, Compute(op, x, y), ok3), NextPc)
           ELSE Settle(popped, NextPc) /\ UNCHANGED elem1
  /\ UNCHANGED <<image, output, machine, cpuError>>

Out ==
  /\ Fetched("OUT")
  /\ Len(output) < MaxOutput
  /\ \E ok \in AllocOutcomes :
       LET r == StackPop(stack, ok)
       IN  /\ Settle(r, NextPc)
           /\ elem1'  = IF r.top = Garbage THEN elem1 ELSE r.top
           /\ output' = IF r.err = Ok THEN Append(output, r.top) ELSE output
  /\ UNCHANGED <<image, machine, cpuError>>

Hlt ==
  /\ Fetched("HLT")
  /\ Settle(StackDtor(stack), image.size)
  /\ UNCHANGED <<image, output, machine, locals>>

Jmp ==
  /\ Fetched("JMP")
  /\ pc' = Instr.arg
  /\ UNCHANGED <<image, stack, output, result, machine, locals>>

CondJmp(op) ==
  /\ Fetched(op)
  /\ \E ok1, ok2 \in AllocOutcomes :
       LET popped == PopTwo(stack, ok1, ok2)
       IN  IF popped.err = Ok
           THEN /\ elem1' = Peek(0)
                /\ Settle(popped, IF Holds(op, Peek(1), Peek(0)) THEN Instr.arg
                                                                 ELSE NextPc)
           ELSE Settle(popped, NextPc) /\ UNCHANGED elem1
  /\ UNCHANGED <<image, output, machine, cpuError>>

(* Variant: the address of the CALL itself is kept.                        *)
CallKeepsOwnAddress ==
  /\ Fetched("CALL")
  /\ IF cntNumAddress < DepthRecursion
     THEN /\ callArray' = [callArray EXCEPT ![cntNumAddress] = pc]
          /\ cntNumAddress' = cntNumAddress + 1
          /\ pc' = Instr.arg
          /\ UNCHANGED result
     ELSE Stop("undefined") /\ UNCHANGED <<callArray, cntNumAddress>>
  /\ UNCHANGED <<image, stack, output, registers, dynMem, locals>>

(* The entry after the last one of callArray is cntNumAddress itself.      *)
Call ==
  /\ Fetched("CALL")
  /\ IF cntNumAddress < DepthRecursion
     THEN /\ callArray' = [callArray EXCEPT ![cntNumAddress] = NextPc]
          /\ cntNumAddress' = cntNumAddress + 1
          /\ pc' = Instr.arg
          /\ UNCHANGED result
     ELSE Stop("undefined") /\ UNCHANGED <<callArray, cntNumAddress>>
  /\ UNCHANGED <<image, stack, output, registers, dynMem, locals>>

(* Variant: the address stays in callArray.                                *)
RetKeepsAddress ==
  /\ Fetched("RET")
  /\ IF cntNumAddress > 0
     THEN pc' = callArray[cntNumAddress - 1] /\ UNCHANGED result
     ELSE Stop("undefined")
  /\ UNCHANGED <<image, stack, output, registers, dynMem, callArray, cntNumAddress, locals>>

Ret ==
  /\ Fetched("RET")
  /\ IF cntNumAddress > 0
     THEN /\ cntNumAddress' = cntNumAddress - 1
          /\ pc' = callArray[cntNumAddress - 1]
          /\ UNCHANGED result
     ELSE Stop("undefined") /\ UNCHANGED cntNumAddress
  /\ UNCHANGED <<image, stack, output, registers, dynMem, callArray, locals>>

Sqrt ==
  /\ Fetched("SQRT")
  /\ GetArg
  /\ IF Writable
     THEN /\ StoreArg(SquareRoot(ArgValue))
          /\ pc' = NextPc
          /\ UNCHANGED result
     ELSE Stop("undefined") /\ UNCHANGED <<registers, dynMem>>
  /\ UNCHANGED <<image, stack, output, callArray, cntNumAddress, elem1>>

(* DRAW prints the cells before the first -1 as one picture.               *)
Picture ==
  LET ends == {a \in 0 .. SizeMem-1 : dynMem[a] = -1}
      last == IF ends = {} THEN SizeMem ELSE CHOOSE a \in ends : \A b \in ends : a <= b
  IN  [i \in 1 .. last |-> IF dynMem[i-1] = 1 THEN "*" ELSE " "]

Draw ==
  /\ Fetched("DRAW")
  /\ Len(output) < MaxOutput
  /\ output' = Append(output, Picture)
  /\ pc' = NextPc
  /\ UNCHANGED <<image, stack, result, machine, locals>>

(* What MOVE pushes for the key read: a, d, w, s or any other.             *)
Moves == {-1, 1, -FieldWidth, FieldWidth, 0}

Move ==
  /\ Fetched("MOVE")
  /\ \E step \in Moves, ok \in AllocOutcomes :
       Settle(StackPush(stack, step, ok), NextPc)
  /\ UNCHANGED <<image, output, machine, locals>>

PrintChar(op) ==
  /\ Fetched(op)
  /\ Len(output) < MaxOutput
  /\ output' = Append(output, op)
  /\ pc' = NextPc
  /\ UNCHANGED <<image, stack, result, machine, locals>>

(* The program counter is on no instruction: the bytes there decode to     *)
(* anything, an unknown command included.                                  *)
BadFetch ==
  /\ result = "running"
  /\ pc < image.size
  /\ pc \notin DOMAIN image.code
  /\ \E r \in {"undefined", "CPU_NO_COMMAND"} : Stop(r)
  /\ UNCHANGED <<image, stack, output, machine, locals>>

(* The loop is over: CPU_NO_ERROR whatever cpuError holds.                 *)
Finish ==
  /\ result = "running"
  /\ pc >= image.size
  /\ Stop("CPU_NO_ERROR")
  /\ UNCHANGED <<image, stack, output, machine, locals>>

Next ==
  \/ Crt \/ In \/ Push \/ Pop \/ Out \/ Hlt \/ Jmp \/ Call \/ Ret
  \/ Sqrt \/ Draw \/ Move \/ BadFetch \/ Finish
  \/ \E op \in Operators : Operate(op)
  \/ \E op \in ConditionalJumps : CondJmp(op)
  \/ \E op \in Printers : PrintChar(op)

Spec == Init /\ [][Next]_vars

(* The loop of executeCode keeps turning: nothing in it waits but IN and   *)
(* MOVE, and their input is taken to come.                                 *)
FairSpec == Spec /\ WF_vars(Next)

-----------------------------------------------------------------------------
(* Type invariant. *)
TypeOK ==
  /\ pc \in Int
  /\ registers \in [Regs -> Word]
  /\ dynMem \in [MemCells -> Word]
  /\ stack.status \in Status /\ stack.data \in Data
  /\ cntNumAddress \in 0 .. DepthRecursion
  /\ callArray \in [0 .. DepthRecursion-1 -> Nat]
  /\ elem1 \in Word
  /\ cpuError \in {"CPU_NO_ERROR", "CPU_NO_NUMBER_REGISTER", "CPU_NO_NUMBER_DYN_MEM"}
  /\ result \in Results

(***************************************************************************)
(* Every address callArray holds for a RET to come is that of the          *)
(* instruction after a CALL of the program.                                *)
(***************************************************************************)
ReturnsFollowCalls ==
  \A i \in 0 .. cntNumAddress - 1 :
    \E a \in DOMAIN image.code :
      /\ image.code[a].op = "CALL"
      /\ callArray[i] = a + InstrSize(image.code[a])

(***************************************************************************)
(* Between two instructions the block of the operand stack is sound        *)
(* however many times an instruction grew or shrank it, and once a realloc *)
(* has taken the block away, in the first or the second call of an         *)
(* instruction, the machine has stopped with CPU_STACK_ERROR: no           *)
(* instruction runs on the freed block.  Of GetStackError, which every     *)
(* ASSERT_OK was to call, the tests of pointer and sizes all pass; it ends *)
(* at the canaries of the struct, which are filled in nowhere.             *)
(***************************************************************************)
SoundOrStopped ==
  /\ stack.data = "live" =>
       /\ 0 <= stack.size /\ GetStackError(stack) = "STACK_LEFT_CANARY_DIED"
       /\ stack.block[-1] = LeftCanary
       /\ stack.block[stack.capacity] = RightCanary
       /\ \A i \in 0 .. stack.size - 1 : stack.block[i] \in Word
  /\ stack.data \in {"dangling", "corrupted"} => result = "CPU_STACK_ERROR"

(***************************************************************************)
(* The machine is a machine with a sequence for its operand stack and a    *)
(* sequence for its calls: blocks, capacities and the call array change    *)
(* nothing a program can see.                                              *)
(***************************************************************************)
Abstract == INSTANCE AbstractMachine
              WITH phase    <- PhaseOf(stack),
                   contents <- ContentsOf(stack),
                   calls    <- [i \in 1 .. cntNumAddress |-> callArray[i-1]],
                   MayFail  <- (FALSE \in AllocOutcomes)

ImplementsAbstractMachine == Abstract!Spec

(***************************************************************************)
(* A program whose loops count down and whose recursion has a base case    *)
(* brings the machine to a stop.                                           *)
(***************************************************************************)
Stops == <>(result # "running")
=============================================================================
