---------------------------- MODULE MCAssembler -----------------------------
(***************************************************************************)
(* Programs for the assembler: every sequence of at most MaxLines lines of *)
(* the kinds below.                                                        *)
(***************************************************************************)
EXTENDS Assembler

CONSTANT MaxLines

None      == [kind |-> "none", text |-> "", value |-> 0]
IntOf(v)  == [kind |-> "int", text |-> "", value |-> v]
NameOf(t) == [kind |-> "name", text |-> t, value |-> 0]
AtName(t) == [kind |-> "atname", text |-> t, value |-> 0]
AtInt(v)  == [kind |-> "atint", text |-> "", value |-> v]

Blank == [blank |-> TRUE, word |-> NoWord, operand |-> None]
Define(t) == [blank |-> FALSE, word |-> [colon |-> TRUE, text |-> t], operand |-> None]
Command(t, o) == [blank |-> FALSE, word |-> [colon |-> FALSE, text |-> t], operand |-> o]

MCLines ==
  {Blank, Define("here"), Define("there"), Define("RET"),
   Command("JMP", NameOf("here")), Command("CALL", NameOf("there")),
   Command("JA", IntOf(2)), Command("JE", AtName("ax")), Command("JMP", None),
   Command("PUSH", IntOf(1)), Command("PUSH", AtInt(3)), Command("POP", NameOf("ex")),
   Command("POP", None), Command("ADD", None)}

MCPrograms == UNION {[1 .. n -> MCLines] : n \in 1 .. MaxLines}
=============================================================================
