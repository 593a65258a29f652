------------------------------ MODULE MCParser ------------------------------
(***************************************************************************)
(* The parser on the tokens of whole programs, and on every short sequence *)
(* of tokens where statements, parameters or functions are looked for.     *)
(***************************************************************************)
EXTENDS Parser

S == INSTANCE Syntax
L == INSTANCE LazyCPrograms

(* Every operator inside every other, on either side.                      *)
Operands == {L!Op(op, L!Const(1), L!x) : op \in DOMAIN S!Level}
Nested == {L!Op(op, e, L!Const(2)) : op \in DOMAIN S!Level, e \in Operands}
          \cup {L!Op(op, L!Const(2), e) : op \in DOMAIN S!Level, e \in Operands}

InMain(ns) == <<L!Main(ns)>>
Element(a, i, e) == [type |-> "ASSIGN", str |-> a, index |-> i, right |-> e]

Shapes ==
  {InMain(<<L!Assign("'x'", e)>>) : e \in Nested}
  \cup {InMain(<<L!Show(L!Const(1)), Element("'a'", e, L!Apply("SQRT", <<e>>)), L!Leave>>) :
          e \in {L!Const(0), L!Op("ADD", L!x, L!Apply("SCAN", <<>>))}}
  \cup {InMain(<<L!If(L!x, b, c), L!While(L!x, d)>>) :
          b \in {<<>>, <<L!Leave>>}, c \in {<<>>, <<L!Show(L!y), L!Leave>>},
          d \in {<<>>, <<L!Assign("'x'", L!Const(0))>>}}

MCPrograms == L!Meant \cup L!Limits \cup Shapes
MCSources == MCPrograms \cup L!Bare
MCText == [p \in MCSources |-> S!Items(p)]
MCTexts == {MCText[p] : p \in MCSources}
MCProgramTokens == {MCText[p] : p \in MCPrograms}

(***************************************************************************)
(* The tree stands for the program that was written: precedence, the side  *)
(* operators associate to, the order of statements, of parameters and of   *)
(* arguments, and that a statement which is no more than an expression     *)
(* takes the statements before it for its left operand.                    *)
(***************************************************************************)
ReadsBack ==
  Accepted /\ EndVisible /\ tokens \in MCTexts =>
    /\ \A p \in MCSources : MCText[p] = tokens => S!ProgramOf(tree) = L!LinkedIn(p)
    /\ curToken = Len(tokens)

-----------------------------------------------------------------------------
Kinds == {S!Name("'x'"), S!Num(1)}
         \cup {S!Kw(k) : k \in {"MAIN", "PRINT", "IF", "ELSE", "WHILE", "RETURN", "ASSIGN",
                                "LSB", "RSB", "LB", "RB", "LAB", "RAB", "COMMA", "SEMICOLON",
                                "ADD", "POW", "JE"}}

UpTo(n, kinds) == UNION {[1 .. k -> kinds] : k \in 0 .. n}

(* Those that statements of three tokens differ by.                        *)
InBlocks == {k \in Kinds : k.kw \notin {"MAIN", "PRINT", "ELSE", "COMMA", "POW", "JE"}}

MainWith(words) ==
  <<S!Kw("MAIN"), S!Kw("LB"), S!Kw("RB"), S!Kw("LSB")>> \o words \o <<S!Kw("RSB")>>

First == S!Item(L!Assign("'x'", L!Const(1)))

MCAnyTokens ==
  UpTo(2, Kinds) \cup {First \o MainWith(<<>>) \o words : words \in UpTo(2, Kinds)}
  \cup {MainWith(First \o words) : words \in UpTo(3, InBlocks) \cup UpTo(2, Kinds)}
  \cup {MCText[p] : p \in L!Bare}
  \cup {MainWith(<<S!Name("'x'"), S!Kw("ASSIGN"), S!Kw("LB"), S!Kw("LB"), S!Kw("SEMICOLON"),
                   S!Kw("RB"), S!Kw("RB")>>)}

MCTokens == MCProgramTokens \cup MCAnyTokens

(* Cells of memory after the tokens: cleared, a brace, or what makes the   *)
(* parser take them for a function.  What is beyond matters only where the *)
(* parser can get to it.                                                   *)
MCBeyond == {Zero, S!Kw("RSB"), S!Kw("LB")}

MCInit ==
  /\ Init
  /\ Len(tokens) + MaxBeyond + 1 < BEGINING_SIZE => beyond = Zero
  /\ tokens \in MCProgramTokens =>
       beyond = Zero \/ (beyond = S!Kw("LB") /\ tokens \in {S!Items(p) : p \in L!Limits})
  /\ tokens \notin MCProgramTokens => beyond \in {Zero, S!Kw("RSB")}

MCSpec == MCInit /\ [][Next]_vars /\ WF_vars(Next)
=============================================================================
