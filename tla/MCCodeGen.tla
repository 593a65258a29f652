----------------------------- MODULE MCCodeGen ------------------------------
(***************************************************************************)
(* The generator on its own, on the programs of the tool chain, with the   *)
(* sets of trees the proofs about it speak of.                             *)
(***************************************************************************)
EXTENDS CodeGen

L == INSTANCE LazyCPrograms
D == INSTANCE LazyC WITH MaxInt <- 127, DepthRecursion <- 6, MaxFuel <- 20

MCTwoArguments == L!TwoArguments

(* The programs with one comparison in every condition, and those with     *)
(* expressions for statements, as the parser leaves them.                  *)
MCDisciplined == {p \in L!Meant \cup L!Limits \cup L!Numbers : D!Disciplined(p)}
                 \cup {L!LinkedIn(p) : p \in L!Bare}

MCNodes(p) == UNION {ToSet(D!Nodes(p[i])) : i \in DOMAIN p}
MCOf(types) == {n \in UNION {MCNodes(p) : p \in MCDisciplined} : n.type \in types}

MCOperations == MCOf(BinaryOps \ Comparisons)
MCBefore     == {"ASSIGN", "RETURN", "IF", "WHILE", "STATEMENT"}
MCJoined     == {n \in MCOperations : \E i \in DOMAIN D!Nodes(n) : D!Nodes(n)[i].type \in MCBefore}

MCStatements == MCOf({"CONST", "VARIABLE", "CALL"} \cup MCBefore) \cup MCOperations
MCConditions == MCOf(Comparisons)
MCExpressions == MCOf({"CONST", "VARIABLE", "CALL"}) \cup (MCOperations \ MCJoined)

(* What the proofs assume of the trees holds for these.                    *)
ASSUME MCTrees ==
  /\ Trees(MCExpressions, MCConditions, MCStatements)
  /\ OneComparisonEach(MCExpressions, MCConditions, MCStatements)
=============================================================================
