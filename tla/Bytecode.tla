------------------------------ MODULE Bytecode ------------------------------
(***************************************************************************)
(* CPU/include/Commands.h as the assembler and the machine share it: the   *)
(* commands, the bytes each encoded instruction takes and what the         *)
(* arithmetic ones compute on a stackData_t, an int of two's complement.   *)
(*                                                                         *)
(* An instruction is a record op, mode, arg.  The mode stands for the      *)
(* OPERATION_USE_* bits of the code: "none", "reg", "imm", "memreg" or     *)
(* "memimm"; the arg is the register number, the value or the address that *)
(* follows the code.                                                       *)
(***************************************************************************)
EXTENDS Integers, Sequences

CONSTANT MaxInt   (* INT_MAX: stackData_t is an int, of 32 bits in the build *)

ASSUME WordAssumption == MaxInt \in Nat \ {0}

ConditionalJumps == {"JA", "JAE", "JB", "JBE", "JE", "JNE"}
Jumps     == ConditionalJumps \cup {"JMP", "CALL"}
Operators == {"ADD", "SUB", "MUL", "DIV"}
Printers  == {"P_CDOT", "P_SPACE", "NEW_LINE"}
ArgOps    == {"PUSH", "POP", "SQRT"}
NoArgOps  == Operators \cup Printers \cup
             {"CRT", "IN", "OUT", "HLT", "RET", "DRAW", "MOVE"}
Ops       == NoArgOps \cup ArgOps \cup Jumps

(* sizeof(short int), sizeof(char) and sizeof(stackData_t). *)
CodeBytes == 2
RegBytes  == 1
IntBytes  == 4

(* The bytes the machine steps over: what is read depends on the command   *)
(* for a jump, on the mode for a command that calls getArg.                *)
InstrSize(i) ==
  CASE i.op \in NoArgOps                                   -> CodeBytes
    [] i.op \in Jumps                                      -> CodeBytes + IntBytes
    [] i.op \in ArgOps /\ i.mode \in {"imm", "memimm"}     -> CodeBytes + IntBytes
    [] i.op \in ArgOps /\ i.mode \notin {"imm", "memimm"}  -> CodeBytes + RegBytes

-----------------------------------------------------------------------------
MinInt == -MaxInt - 1
Word   == MinInt .. MaxInt

Wrap(x) == ((x - MinInt) % (2 * (MaxInt + 1))) + MinInt

(* Division in C truncates towards 0. *)
Magnitude(x) == IF x < 0 THEN -x ELSE x
Quotient(x, y) ==
  IF (x < 0) = (y < 0) THEN Magnitude(x) \div Magnitude(y)
                       ELSE -(Magnitude(x) \div Magnitude(y))

(* The processor traps on these operands of DIV. *)
Traps(op, x, y) == op = "DIV" /\ (y = 0 \/ (x = MinInt /\ y = -1))

(* x is the second element of the stack (elem2), y the top one (elem1). *)
Compute(op, x, y) ==
  CASE op = "ADD" -> Wrap(x + y)
    [] op = "SUB" -> Wrap(x - y)
    [] op = "MUL" -> Wrap(x * y)
    [] op = "DIV" -> Quotient(x, y)

Holds(op, x, y) ==
  CASE op = "JA"  -> x > y
    [] op = "JAE" -> x >= y
    [] op = "JB"  -> x < y
    [] op = "JBE" -> x <= y
    [] op = "JE"  -> x = y
    [] op = "JNE" -> x # y

(* The int that sqrt() is converted to; that of NaN is INT_MIN on x86-64.  *)
SquareRoot(x) ==
  IF x < 0 THEN MinInt
  ELSE CHOOSE r \in 0 .. x : r * r <= x /\ x < (r + 1) * (r + 1)
=============================================================================
