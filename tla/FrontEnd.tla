------------------------------ MODULE FrontEnd ------------------------------
(***************************************************************************)
(* src/main.cpp, the first program of the pipeline: it reads res/code.txt, *)
(* splits it into tokens, parses them, draws the tree and generates code   *)
(* from it.  Tokenizer and parser share the array of tokens, parser and    *)
(* generator the tree.                                                     *)
(*                                                                         *)
(* Module CodeGen works on a sequence of definitions; what the generator   *)
(* does to the nodes of the tree meanwhile, when it takes the globals out, *)
(* is done here.                                                           *)
(***************************************************************************)
EXTENDS Tree, SequencesExt

CONSTANTS
  Files,                                (* what res/code.txt can hold       *)
  BEGINING_SIZE, BeyondTokens, MaxBeyond,
  NUMBERS_VARIABLE, NUMBERS_FUNCTION

VARIABLES
  file,
  phase,   (* "read", "tokenize", "parse", "generate", or how it ended:     *)
           (* "exited", "abort" (an assertion or a null pointer) or         *)
           (* "undefined"                                                   *)
  text, curOffset, token, tokens, capacity, errorCode, room, scanned,
  beyond, curToken, parserError, tree, val, calls, parsed,
  items, at, globalNames, curGlobal, functions, curLabel, tables, tasks, asm,
  generated, passing

Scanner   == INSTANCE Tokenizer WITH Texts <- {}, AllocOutcomes <- {TRUE}
Grammar   == INSTANCE Parser WITH TokenArrays <- {}, agenda <- calls, status <- parsed
Generator == INSTANCE CodeGen WITH Programs <- {}, agenda <- tasks, code <- asm,
                                   status <- generated
Syntax == INSTANCE Syntax

scannerVars   == <<text, curOffset, token, capacity, errorCode, room, scanned>>
parserVars    == <<beyond, curToken, parserError, val, calls, parsed>>
generatorVars == <<items, at, globalNames, curGlobal, functions, curLabel, tables, tasks,
                   asm, generated, passing>>
vars == <<file, phase, scannerVars, tokens, parserVars, tree, generatorVars>>

Init ==
  /\ file \in Files
  /\ phase = "read"
  /\ text = "" /\ Scanner!Idle
  /\ Grammar!Idle
  /\ items = <<>> /\ Generator!Idle

-----------------------------------------------------------------------------
(* Variant: the text is taken as it is.                                    *)
WholeText(str) == str

(* The last character of the file is cut off, whatever it is.              *)
TextOf(str) == SubSeq(str, 1, Len(str) - 1)

ReadFile ==
  /\ phase = "read"
  /\ IF file = ""
     THEN phase' = "abort" /\ UNCHANGED text
     ELSE phase' = "tokenize" /\ text' = TextOf(file)
  /\ UNCHANGED <<file, curOffset, token, capacity, errorCode, room, scanned, tokens, parserVars,
                 tree, generatorVars>>

Tokenize ==
  /\ phase = "tokenize"
  /\ Scanner!Next
  /\ phase' = CASE scanned' = "done"      -> "parse"
                [] scanned' = "undefined" -> "undefined"
                [] OTHER                  -> phase
  /\ UNCHANGED <<file, parserVars, tree, generatorVars>>

Parse ==
  /\ phase = "parse"
  /\ Grammar!Next
  /\ phase' = CASE parsed' = "crash"     -> "abort"
                [] parsed' = "undefined" -> "undefined"
                [] OTHER                 -> phase
  /\ UNCHANGED <<file, scannerVars, generatorVars>>

(* TreeDump asserts that there is a tree, which is how a syntax error ends *)
(* the program.  GenerateAsmCode then looks for main.                      *)
TreeDump ==
  /\ phase = "parse" /\ parsed = "done"
  /\ IF tree.root = Null
     THEN phase' = "abort" /\ UNCHANGED items
     ELSE phase' = "generate" /\ items' = Syntax!ProgramOf(tree)
  /\ UNCHANGED <<file, scannerVars, tokens, parserVars, tree, at, globalNames, curGlobal,
                 functions, curLabel, tables, tasks, asm, generated, passing>>

-----------------------------------------------------------------------------
(* The node of an item of the tree: the last one is the root.              *)
NodeOf(i) ==
  LET down[k \in 0 .. Len(items)] ==
        IF k = 0 THEN tree.root ELSE tree.nodes[down[k-1]].leftChild
  IN  down[Len(items) - i]

(* FindAndPrintGlobalVar: the globals behind the last function are left    *)
(* above the new root, with the links they have to what is below.          *)
Rerooted(node) == [tree EXCEPT !.root = node, !.nodes[node].parent = Null]

Bypassed(node) ==
  LET below == tree.nodes[tree.nodes[node].leftChild].leftChild
  IN  IF below = Null THEN [tree EXCEPT !.nodes[node].leftChild = Null]
      ELSE Linked(tree, node, "leftChild", below)

(* Variant: the global keeps its link to the items before it.              *)
CutBelowLinked(node) ==
  LET global == tree.nodes[node].leftChild
  IN  SubtreeDtor([Bypassed(node) EXCEPT !.nodes[global].parent = Null], global)

(* Variant: the items before the global go with it.                        *)
CutBelowAll(node) ==
  LET global == tree.nodes[node].leftChild
  IN  SubtreeDtor([tree EXCEPT !.nodes[node].leftChild = Null], global)

(* The visitor frees the global below a node after the items before it     *)
(* were linked to that node.                                               *)
CutBelow(node) ==
  LET global == tree.nodes[node].leftChild
  IN  SubtreeDtor([Bypassed(node) EXCEPT !.nodes[global].leftChild = Null,
                                         !.nodes[global].parent = Null], global)

TakeOutGlobals ==
  tree' = CASE generated = "trailing" /\ generated' = "visiting" -> Rerooted(NodeOf(at'))
            [] generated = "visiting" /\ items' # items          -> CutBelow(NodeOf(at))
            [] OTHER -> tree

Generate ==
  /\ phase = "generate"
  /\ Generator!Next
  /\ TakeOutGlobals
  /\ phase' = IF generated' \in {"abort", "undefined"} THEN generated' ELSE phase
  /\ UNCHANGED <<file, scannerVars, tokens, parserVars>>

(* The end of main: without a main in the program it is no different.      *)
Exit ==
  /\ phase = "generate" /\ generated \in {"done", "no main"}
  /\ tree' = TreeDtor(tree)
  /\ phase' = "exited"
  /\ UNCHANGED <<file, scannerVars, tokens, parserVars, generatorVars>>

Ended == phase \in {"exited", "abort", "undefined"} /\ UNCHANGED vars

Next == ReadFile \/ Tokenize \/ Parse \/ TreeDump \/ Generate \/ Exit \/ Ended

Spec == Init /\ [][Next]_vars

-----------------------------------------------------------------------------
TypeOK ==
  /\ phase \in {"read", "tokenize", "parse", "generate", "exited", "abort", "undefined"}
  /\ Scanner!TypeOK /\ Grammar!TypeOK

TakingOut == phase = "generate" /\ generated \in {"start", "trailing", "visiting", "calling"}

(***************************************************************************)
(* While the globals are taken out of the tree by hand, node by node, it   *)
(* always stands for the items that are left: no function gets lost with a *)
(* global before, between or behind functions.                             *)
(***************************************************************************)
CutsAgree == TakingOut => items = Syntax!ProgramOf(tree)

(* No node of the tree the generator goes on with was freed with a global, *)
(* and every one still knows its parent.                                   *)
NothingFreedIsUsed == TakingOut => LinksAgree(tree, tree.root)

(***************************************************************************)
(* At the end everything was freed, but for what nothing points to any     *)
(* more: the node TreeCtor made, which the parser replaced, the left       *)
(* operands the statements before an operation took the place of, and the  *)
(* globals behind the last function.                                       *)
(***************************************************************************)
OnlyGlobalsLeak ==
  phase = "exited" =>
    \A n \in DOMAIN tree.nodes \ {1} :
      tree.nodes[n].live =>
        /\ n \notin Subtree(tree, tree.root)
        /\ \/ \E operand \in Grammar!LostOperands : n \in Subtree(tree, operand)
           \/ \E g \in DOMAIN tree.nodes : {n, tree.root} \subseteq Subtree(tree, g)
=============================================================================
