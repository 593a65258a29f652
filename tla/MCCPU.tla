------------------------------- MODULE MCCPU --------------------------------
(***************************************************************************)
(* Programs for the machine.  A program is a sequence of instructions in   *)
(* which a jump names the index of its target (0 and anything beyond the   *)
(* program name addresses that are none); Image lays it out in bytes.      *)
(***************************************************************************)
EXTENDS CPU, SequencesExt

I(op)     == [op |-> op, mode |-> "none", arg |-> 0]
J(op, n)  == [op |-> op, mode |-> "none", arg |-> n]
Imm(op,v) == [op |-> op, mode |-> "imm", arg |-> v]
Reg(op,r) == [op |-> op, mode |-> "reg", arg |-> r]
AtReg(op,r) == [op |-> op, mode |-> "memreg", arg |-> r]
AtImm(op,a) == [op |-> op, mode |-> "memimm", arg |-> a]

AddressOf(p, n) == FoldLeft(LAMBDA sum, i : sum + InstrSize(i), 0, SubSeq(p, 1, n - 1))

Image(p) ==
  LET at(n) == IF n = 0 THEN -1 ELSE AddressOf(p, n)
  IN  [code |-> [a \in {at(n) : n \in DOMAIN p} |->
                   LET n == CHOOSE m \in DOMAIN p : at(m) = a
                   IN  IF p[n].op \in Jumps THEN [p[n] EXCEPT !.arg = at(@)] ELSE p[n]],
       size |-> at(Len(p) + 1)]

ax == 1
bx == 2

Arithmetic == {<<I("CRT"), I("IN"), I("IN"), I(op), I("OUT"), I("HLT")>> : op \in Operators}

Comparison == {<<I("CRT"), I("IN"), I("IN"), J(op, 7), I("P_SPACE"), I("HLT"),
                 I("P_CDOT"), I("NEW_LINE"), I("HLT")>> : op \in ConditionalJumps}

(* Prints the value read and those below it, down to 1. *)
CountDown ==
  <<I("CRT"), I("IN"), Reg("POP", ax),
    Reg("PUSH", ax), Imm("PUSH", 0), J("JBE", 13),
    Reg("PUSH", ax), I("OUT"),
    Reg("PUSH", ax), Imm("PUSH", 1), I("SUB"), J("JMP", 14),
    I("HLT"), Reg("POP", ax), J("JMP", 4)>>

(* The function at 8 adds ax to the sum and calls itself with ax - 1. *)
Recursion ==
  <<I("CRT"), I("IN"), Reg("POP", ax), Imm("PUSH", 0), J("CALL", 8), I("OUT"), I("HLT"),
    Reg("PUSH", ax), Imm("PUSH", 0), J("JBE", 18),
    Reg("PUSH", ax), I("ADD"),
    Reg("PUSH", ax), Imm("PUSH", 1), I("SUB"), Reg("POP", ax),
    J("CALL", 8), I("RET")>>

Memory ==
  {<<I("CRT"), I("IN"), Reg("POP", ax), Imm("PUSH", 3), AtReg("POP", ax),
     AtImm("PUSH", 2), AtReg("SQRT", ax), AtReg("PUSH", ax), Reg("POP", bx),
     Reg("SQRT", bx), Reg("PUSH", bx), I("OUT"), I("DRAW"), I("HLT")>>,
   <<I("CRT"), I("MOVE"), AtImm("POP", 1), Imm("PUSH", 1), AtImm("POP", 2),
     AtImm("SQRT", 1), I("DRAW"), I("HLT")>>,
   <<I("CRT"), Imm("PUSH", 1), AtImm("POP", SizeMem + 1), I("HLT")>>,
   <<I("CRT"), AtImm("PUSH", 0), I("HLT")>>,
   <<I("CRT"), AtReg("PUSH", 0), I("HLT")>>,
   <<I("CRT"), Imm("PUSH", 1), AtReg("POP", 0), I("HLT")>>}

(* Grows the block several times and shrinks it again. *)
Deep == <<I("CRT")>> \o [i \in 1 .. 7 |-> Imm("PUSH", i)]
        \o [i \in 1 .. 3 |-> I("ADD")] \o <<I("MUL"), I("OUT"), I("OUT"), I("OUT")>>

Illegal ==
  {<<I("CRT"), I("CRT")>>, <<Imm("PUSH", 1)>>, <<I("IN")>>, <<I("OUT")>>,
   <<I("CRT"), Imm("PUSH", 1), I("ADD")>>, <<I("CRT"), Imm("PUSH", 1), J("JE", 1)>>,
   <<I("RET")>>, <<J("JMP", 0)>>, <<J("CALL", 1)>>, <<Reg("SQRT", 0)>>}

MCPrograms ==
  {Image(p) : p \in {CountDown, Recursion, Deep} \cup Arithmetic \cup Comparison
                    \cup Memory \cup Illegal}
MCInputs   == {MinInt, -4, -1, 0, 2, 3, MaxInt}
MCAllocMayFail == BOOLEAN
=============================================================================
