----------------------------- MODULE Assembler ------------------------------
(***************************************************************************)
(* The two-pass assembler, CPU/Assembler/main.cpp.  assemblerFile runs     *)
(* twice over the same lines: the first pass meets jumps to labels it has  *)
(* not seen yet and writes whatever the table holds for them, the second   *)
(* writes the file again with the table of the first.  One action is one   *)
(* line of one pass.                                                       *)
(*                                                                         *)
(* A line is what sscanf finds in it once its comment is cut off: nothing, *)
(* or a word and perhaps an operand.                                       *)
(*   word     colon, text       `:text' or `text'                          *)
(*   operand  kind "none"       no second word                             *)
(*            kind "int"        a number, in value                         *)
(*            kind "name"       another word, in text                      *)
(*            kind "atname"     [text], two letters, the second an x       *)
(*            kind "atint"      [value]                                    *)
(***************************************************************************)
EXTENDS Bytecode

CONSTANTS
  Programs,    (* the files the assembler may be given, sequences of lines  *)
  MaxLabels    (* SIZE_ARRAY_LABEL_INFO, 20                                 *)

OperandKinds == {"none", "int", "name", "atname", "atint"}

ASSUME ProgramsAssumption ==
  \A p \in Programs :
    /\ Len(p) \in Nat \ {0} /\ DOMAIN p = 1 .. Len(p)
    /\ \A i \in DOMAIN p : /\ p[i].blank \in BOOLEAN
                           /\ p[i].word \in [colon : BOOLEAN, text : STRING]
                           /\ p[i].operand.kind \in OperandKinds
                           /\ p[i].operand.kind \in {"int", "atint"} => p[i].operand.value \in Int
ASSUME MaxLabelsAssumption == MaxLabels \in Nat

VARIABLES
  lines,             (* the program, the same in both passes                *)
  pass, cur,         (* the pass of main, the line of assemblerFile         *)
  nameOperation,     (* assembler.nameOperation: the word last scanned      *)
  elem,              (* assembler.elem: the number last scanned or encoded  *)
  labelInfo,         (* the table; it outlives a pass                       *)
  numberLabelInfo,
  numberBytesFile,
  code,              (* the file of this pass: instructions by address      *)
  status,            (* "running", or how the assembler ended               *)
  trace              (* history: the local state before each line of pass 1 *)

LabelSlots == 0 .. MaxLabels - 1

NoWord  == [colon |-> FALSE, text |-> ""]
NoLabel == [str |-> "", value |-> 0]

(* Variant: the count of labels of the first pass is kept for the second.  *)
FreshKeepsLabels ==
  [name |-> NoWord, labels |-> numberLabelInfo, bytes |-> 0]

(* The local state of assemblerFile that a pass starts from.               *)
Fresh == [name |-> NoWord, labels |-> 0, bytes |-> 0]

Local == [name |-> nameOperation, labels |-> numberLabelInfo, bytes |-> numberBytesFile]

(* Everything but the program, before the first line is read.              *)
Idle ==
  /\ pass = 1
  /\ cur = 1
  /\ nameOperation = NoWord
  /\ elem = 0
  /\ labelInfo = [i \in LabelSlots |-> NoLabel]
  /\ numberLabelInfo = 0
  /\ numberBytesFile = 0
  /\ code = [a \in {} |-> NoWord]
  /\ status = "running"
  /\ trace = <<>>

Init == lines \in Programs /\ Idle

-----------------------------------------------------------------------------
REGISTERS_IDS == <<"ax", "bx", "cx", "dx", "ex", "fx", "gx">>

(* defineRegistr: 0 is no register.                                        *)
DefineRegistr(str) ==
  IF str \in {REGISTERS_IDS[i] : i \in DOMAIN REGISTERS_IDS}
  THEN CHOOSE i \in DOMAIN REGISTERS_IDS : REGISTERS_IDS[i] = str
  ELSE 0

(* Variants: the first slot is passed over; the number of the slot for its *)
(* value; the last slot.                                                   *)
CheckLabelJumpFromOne(table, str) ==
  LET found == {i \in DOMAIN table \ {0} : table[i].str = str}
  IN  IF found = {} THEN -1
      ELSE table[CHOOSE i \in found : \A j \in found : i <= j].value

CheckLabelJumpIndex(table, str) ==
  LET found == {i \in DOMAIN table : table[i].str = str}
  IN  IF found = {} THEN -1 ELSE CHOOSE i \in found : \A j \in found : i <= j

CheckLabelJumpLast(table, str) ==
  LET found == {i \in DOMAIN table : table[i].str = str}
  IN  IF found = {} THEN -1
      ELSE table[CHOOSE i \in found : \A j \in found : i >= j].value

(* checkLabelJump: the first slot of that name; an unused slot is named "". *)
CheckLabelJump(table, str) ==
  LET found == {i \in DOMAIN table : table[i].str = str}
  IN  IF found = {} THEN -1
      ELSE table[CHOOSE i \in found : \A j \in found : i <= j].value

(* sscanf(line, "%s %d", nameOperation, &elem): a line with no word leaves *)
(* both as the line before left them, one with a word may leave elem.      *)
ScannedName(line, name) == IF line.blank THEN name ELSE line.word
Cnt(line) == IF line.blank THEN 0 ELSE IF line.operand.kind = "int" THEN 2 ELSE 1
ScannedElem(line, old) == IF Cnt(line) = 2 THEN line.operand.value ELSE old

(***************************************************************************)
(* processCmdWithArg: the instruction written, its bytes, and the elem it  *)
(* leaves.  Without a lone operand it is PUSH of elem, whatever the        *)
(* command; in brackets it is PUSH, POP or else SQRT.                      *)
(***************************************************************************)
Encoding(op, mode, arg, bytes, e) ==
  [instr |-> [op |-> op, mode |-> mode, arg |-> arg], bytes |-> bytes, elem |-> e]

PushPopOrSqrt(op) == IF op \in {"PUSH", "POP"} THEN op ELSE "SQRT"

(* defineRegistr finds no register where one is needed.                    *)
WrongOperand(op, line) ==
  /\ Cnt(line) = 1
  /\ op \in ArgOps
  /\ line.operand.kind \in {"none", "name"}
  /\ DefineRegistr(line.operand.text) = 0

EncodeWithArg(op, line, e, table) ==
  LET o == line.operand
  IN  CASE Cnt(line) # 1 -> Encoding("PUSH", "imm", e, 6, e)
        [] Cnt(line) = 1 /\ o.kind = "atname" ->
             Encoding(PushPopOrSqrt(op), "memreg", DefineRegistr(o.text), 3, e)
        [] Cnt(line) = 1 /\ o.kind = "atint" ->
             Encoding(PushPopOrSqrt(op), "memimm", o.value, 6, o.value)
        [] Cnt(line) = 1 /\ o.kind \in {"none", "name"} /\ op \in Jumps ->
             LET address == CheckLabelJump(table, o.text)
             IN  Encoding(op, "none", address, 6, address)
        [] Cnt(line) = 1 /\ o.kind \in {"none", "name"} /\ op \notin Jumps ->
             Encoding(op, "reg", DefineRegistr(o.text), 3, e)

(* Variant: the second byte of the code is not counted.                    *)
EncodeOneByte(op, e) == Encoding(op, "none", 0, 1, e)

EncodeWithoutArg(op, e) == Encoding(op, "none", 0, 2, e)

-----------------------------------------------------------------------------
Running == status = "running" /\ cur <= Len(lines)
Line    == lines[cur]
Name    == ScannedName(Line, nameOperation)
NewElem == ScannedElem(Line, elem)

Recorded == trace' = IF pass = 1 THEN Append(trace, Local) ELSE trace

Write(e) ==
  /\ code' = [a \in DOMAIN code \cup {numberBytesFile} |->
                IF a = numberBytesFile THEN e.instr ELSE code[a]]
  /\ numberBytesFile' = numberBytesFile + e.bytes
  /\ elem' = e.elem
  /\ nameOperation' = Name
  /\ cur' = cur + 1
  /\ UNCHANGED <<lines, pass, labelInfo, numberLabelInfo, status>>

CommandWithArg ==
  /\ Running
  /\ ~Name.colon /\ Name.text \in ArgOps \cup Jumps
  /\ ~WrongOperand(Name.text, Line)
  /\ Write(EncodeWithArg(Name.text, Line, NewElem, labelInfo))
  /\ Recorded

CommandWithoutArg ==
  /\ Running
  /\ ~Name.colon /\ Name.text \in NoArgOps
  /\ Write(EncodeWithoutArg(Name.text, NewElem))
  /\ Recorded

(* processLabel strips the colon from nameOperation.  It does not look at  *)
(* the size of the table: the store beyond it is undefined.                *)
Label ==
  /\ Running
  /\ Name.colon
  /\ nameOperation' = [colon |-> FALSE, text |-> Name.text]
  /\ elem' = NewElem
  /\ IF numberLabelInfo < MaxLabels
     THEN /\ labelInfo' = [labelInfo EXCEPT ![numberLabelInfo] =
                             [str |-> Name.text, value |-> numberBytesFile]]
          /\ numberLabelInfo' = numberLabelInfo + 1
          /\ cur' = cur + 1
          /\ UNCHANGED status
     ELSE status' = "undefined" /\ UNCHANGED <<labelInfo, numberLabelInfo, cur>>
  /\ Recorded
  /\ UNCHANGED <<lines, pass, numberBytesFile, code>>

(* No command and no label, or a command without its operand.              *)
Wrong ==
  /\ Running
  /\ ~Name.colon
  /\ \/ Name.text \notin Ops
     \/ Name.text \in ArgOps /\ WrongOperand(Name.text, Line)
  /\ status' = "ASSEMBLING_WRONG"
  /\ nameOperation' = Name
  /\ elem' = NewElem
  /\ Recorded
  /\ UNCHANGED <<lines, pass, cur, labelInfo, numberLabelInfo, numberBytesFile, code>>

(* The next pass opens the file anew, with a fresh Assembler and the table. *)
EndPass ==
  /\ status = "running"
  /\ cur > Len(lines)
  /\ IF pass = 1
     THEN /\ pass' = 2
          /\ cur' = 1
          /\ nameOperation' = Fresh.name
          /\ elem' = 0
          /\ numberLabelInfo' = Fresh.labels
          /\ numberBytesFile' = Fresh.bytes
          /\ code' = [a \in {} |-> NoWord]
          /\ UNCHANGED status
     ELSE /\ status' = "ASSEMBLING_SUCCESSFUL"
          /\ UNCHANGED <<pass, cur, nameOperation, elem, numberLabelInfo,
                         numberBytesFile, code>>
  /\ Recorded
  /\ UNCHANGED <<lines, labelInfo>>

Next == CommandWithArg \/ CommandWithoutArg \/ Label \/ Wrong \/ EndPass

vars == <<lines, pass, cur, nameOperation, elem, labelInfo, numberLabelInfo,
          numberBytesFile, code, status, trace>>

Spec == Init /\ [][Next]_vars

-----------------------------------------------------------------------------
(* Type invariant. *)
TypeOK ==
  /\ pass \in {1, 2}
  /\ cur \in 1 .. Len(lines) + 1
  /\ nameOperation.colon \in BOOLEAN
  /\ elem \in Int
  /\ numberLabelInfo \in 0 .. MaxLabels
  /\ numberBytesFile \in Nat
  /\ DOMAIN labelInfo = LabelSlots
  /\ \A i \in LabelSlots : labelInfo[i].value \in Nat
  /\ \A a \in DOMAIN code : a \in Nat /\ a < numberBytesFile
  /\ status \in {"running", "ASSEMBLING_SUCCESSFUL", "ASSEMBLING_WRONG", "undefined"}

(***************************************************************************)
(* The table that the jumps of pass 2 are resolved from is final when the  *)
(* pass begins: no line of it changes an entry, although it enters every   *)
(* label again.  The size of an instruction must not depend on what the    *)
(* table held when it was encoded, nor on the elem a pass inherits.        *)
(***************************************************************************)
PassTwoStable == [][pass = 2 => labelInfo' = labelInfo]_vars

(* A program pass 1 accepts is one pass 2 accepts.                         *)
WrongOnlyInPassOne == status \in {"ASSEMBLING_WRONG", "undefined"} => pass = 1

(***************************************************************************)
(* The machine, stepping over the file by the sizes it decodes, meets the  *)
(* instructions the assembler wrote and the end of the file, nothing else. *)
(***************************************************************************)
Boundaries == DOMAIN code \cup {numberBytesFile}

DecodedAsWritten ==
  status # "undefined" =>
    \A a \in DOMAIN code : a + InstrSize(code[a]) \in Boundaries

(***************************************************************************)
(* An assembled jump leads to an instruction or to the end of the program; *)
(* it goes to -1 only where the line it was written for names a label that *)
(* no line defines.                                                        *)
(***************************************************************************)
Defined == {lines[i].word.text : i \in {j \in DOMAIN lines :
                                          ~lines[j].blank /\ lines[j].word.colon}}

NamesNoLabel(line) == ~line.blank /\ line.operand.text \notin Defined

JumpsLand ==
  status = "ASSEMBLING_SUCCESSFUL" =>
    \A a \in DOMAIN code :
      code[a].op \in Jumps =>
        \/ code[a].arg \in Boundaries
        \/ /\ code[a].arg = -1
           /\ \E i \in DOMAIN lines : trace[i].bytes = a /\ NamesNoLabel(lines[i])

(***************************************************************************)
(* Of two labels of one name the first is the one that counts, in a jump   *)
(* before both, between them or after both.  The reference is read off the *)
(* lines: the jump written for line i goes to the bytes written before the *)
(* first line that defines its label.                                      *)
(***************************************************************************)
FirstDefinition(text) ==
  CHOOSE i \in DOMAIN lines :
    /\ ~lines[i].blank /\ lines[i].word = [colon |-> TRUE, text |-> text]
    /\ \A j \in 1 .. i-1 : lines[j].blank \/ lines[j].word # [colon |-> TRUE, text |-> text]

FirstDefinitionWins ==
  status = "ASSEMBLING_SUCCESSFUL" =>
    \A i \in DOMAIN lines :
      LET o == lines[i].operand
      IN  ~lines[i].blank /\ ~lines[i].word.colon /\ lines[i].word.text \in Jumps
          /\ o.kind = "name" /\ o.text \in Defined
          => code[trace[i].bytes].arg = trace[FirstDefinition(o.text)].bytes

(***************************************************************************)
(* What discardComments is for: a line with nothing but a comment adds     *)
(* nothing to the program.                                                 *)
(***************************************************************************)
CommentsAddNothing ==
  \A i \in 1 .. Len(trace) - 1 : lines[i].blank => trace[i+1].bytes = trace[i].bytes
=============================================================================
