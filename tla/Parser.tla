------------------------------- MODULE Parser -------------------------------
(***************************************************************************)
(* The recursive-descent parser, src/Parser.cpp: from the array of tokens  *)
(* to the tree of module Tree.                                             *)
(*                                                                         *)
(* A token is a union in the code, looked at in three ways: `kw' is what   *)
(* it is as a NodeType ("" for none), `id' as a string, `value' as a       *)
(* number.  A number is CONST as a NodeType and the empty string.          *)
(*                                                                         *)
(* The calls under way are an agenda of what is still to be done, the      *)
(* innermost first.  Get and Loop are calls and loop heads; the other      *)
(* tasks are the statements that follow a call: Adopt hangs the returned   *)
(* node `val' below a node (AdoptAny: if there is one), Require, Skip and  *)
(* Check are Require, curToken++ and IS_PARSER_ERROR.  n and m are local   *)
(* variables, op what kind of task it is.                                  *)
(***************************************************************************)
EXTENDS Integers, Tree

CONSTANTS
  TokenArrays,      (* the token sequences to parse                         *)
  BEGINING_SIZE,    (* tokens of the first block, which calloc cleared      *)
  BeyondTokens,     (* what memory after the tokens can look like           *)
  MaxBeyond         (* bound: a walk this far out of the tokens is given up *)

(* What parse is called with: an array of tokens.                          *)
ASSUME TokensAssumption == \A s \in TokenArrays : s \in Seq({s[i] : i \in DOMAIN s})

(* The block has a number of cleared tokens, the bound is a number.        *)
ASSUME BoundsAssumption == MaxBeyond \in Nat /\ BEGINING_SIZE \in Nat

VARIABLES
  tokens, beyond,   (* the tokens, and what the cells after them hold       *)
  curToken, parserError, tree,
  val,              (* the node the last call returned                      *)
  agenda,
  status            (* "parsing", "done", "crash" or "undefined"            *)

input == <<tokens, beyond>>
vars  == <<input, curToken, parserError, tree, val, agenda, status>>

Task(do, n, m, op) == [do |-> do, n |-> n, m |-> m, op |-> op]

Get(what)        == Task("Get", Null, Null, what)
Loop(what, n)    == Task("Loop", n, Null, what)
Adopt(n, child)  == Task("Adopt", n, Null, child)
AdoptAny(n, child) == Task("AdoptAny", n, Null, child)
Require(kw)      == Task("Require", Null, Null, kw)
Skip             == Task("Skip", Null, Null, "")
Check            == Task("Check", Null, Null, "")
Link(n, what)    == Task("Link", n, Null, what)
Finish(n, type)  == Task("Finish", n, Null, type)

Idle ==
  /\ beyond \in BeyondTokens
  /\ curToken = 0 /\ parserError = FALSE
  /\ tree = TreeCtor(NoTree)
  /\ val = Null
  /\ agenda = <<Loop("G", Null)>>
  /\ status = "parsing"

Init == tokens \in TokenArrays /\ Idle

-----------------------------------------------------------------------------
Zero == [kw |-> "CONST", id |-> "", value |-> 0]

Cell(i) == IF i < Len(tokens) THEN tokens[i+1]
           ELSE IF i < BEGINING_SIZE THEN Zero ELSE beyond

This    == Cell(curToken)
Ahead   == Cell(curToken + 1)
Named   == This.id # ""

Running   == status = "parsing" /\ curToken <= Len(tokens) + MaxBeyond
Doing(do) == Running /\ agenda # <<>> /\ Head(agenda).do = do
Getting(what) == Doing("Get") /\ Head(agenda).op = what
Looping(what) == Doing("Loop") /\ Head(agenda).op = what

(* A statement behind IS_PARSER_ERROR.                                     *)
After(do) == Doing(do) /\ ~parserError
Me == Head(agenda)

Go(tasks)   == agenda' = tasks \o Tail(agenda)
Eat(n)      == curToken' = curToken + n
Crash       == status' = "crash" /\ UNCHANGED <<input, curToken, parserError, tree, val, agenda>>

(* NodeCtor: a node with the given children, who learn their parent.       *)
NodeCtor(t, left, right, type, value, str) ==
  LET n == NewNode(t)
      made == [Calloc(t) EXCEPT !.nodes[n] =
                 [Blank EXCEPT !.leftChild = left, !.rightChild = right, !.nodeType = type,
                               !.value = value, !.str = str]]
  IN  [made EXCEPT !.nodes = [i \in DOMAIN @ |->
         IF i \in {left, right} \ {Null} THEN [@[i] EXCEPT !.parent = n] ELSE @[i]]]

(* What a statement begins with.                                           *)
InBlock == Looping("A") /\ This.kw # "RSB"
IsArray == Named /\ Ahead.kw = "LAB"

(* Functions, assignments and elements of arrays ask for an error after    *)
(* the name they begin with.                                               *)
NameAfterError ==
  parserError /\ \/ Looping("G") /\ Named /\ Ahead.kw = "LB" /\ This.kw # "MAIN"
                 \/ (Looping("G") \/ InBlock) /\ Ahead.kw = "ASSIGN"
                 \/ InBlock /\ IsArray

(* GetId: any token but a semicolon is a variable.                         *)
Variable(t, token) == NodeCtor(t, Null, Null, "VARIABLE", NO_VALUE, token.id)

(* A new node with one of the given type to its right, and that one's node *)
(* to the left: how every statement begins.                                *)
Statement(type) == TreeInsert(Calloc(tree), NewNode(tree), "rightChild", type, "")
Outer == NewNode(tree)
Inner == NewNode(tree) + 1
Third == NewNode(tree) + 2

-----------------------------------------------------------------------------
(* GetG, the top level: functions and assignments.  It ends where neither  *)
(* begins, and looks at the token after next for that.                     *)
Function ==
  /\ Looping("G") /\ Named /\ Ahead.kw = "LB" /\ ~NameAfterError
  /\ LET define == TreeInsert(Statement("DEFINE"), Inner, "leftChild", "FUNCTION", "")
         main   == TreeInsert(define, Third, "leftChild", "MAIN", "")
         func   == Linked(SetNodeType(Variable(define, This), NewNode(define), "FUNC"),
                          Third, "leftChild", NewNode(define))
     IN  IF This.kw = "SEMICOLON" THEN Crash
         ELSE /\ tree' = IF This.kw = "MAIN" THEN main ELSE func
              /\ Eat(2)
              /\ Go(<<Loop("Par", Null), AdoptAny(Third, "rightChild"), Require("RB"),
                      Task("Body", Outer, Inner, ""), Check, Link(Me.n, "G")>>)
              /\ UNCHANGED <<input, parserError, val, status>>

FunctionBody ==
  /\ Doing("Body")
  /\ IF This.kw = "LSB"
     THEN Eat(1) /\ Go(<<Loop("A", Null), AdoptAny(Me.m, "rightChild"), Require("RSB"),
                         Finish(Me.n, "STATEMENT")>>)
     ELSE Go(<<Finish(Me.n, "STATEMENT")>>) /\ UNCHANGED curToken
  /\ UNCHANGED <<input, parserError, tree, val, status>>

(* An assignment, at the top level or among statements.  After the missing *)
(* semicolon of one the loop goes on: it is the next statement that finds  *)
(* the error, if there is one.                                             *)
Assign(loop) ==
  LET assigned == Statement("ASSIGN")
  IN  IF This.kw = "SEMICOLON" THEN Crash
      ELSE /\ tree' = Linked(Variable(assigned, This), Inner, "leftChild", Third)
           /\ Eat(2)
           /\ Go(<<Get("Bool"), Adopt(Inner, "rightChild"), Finish(Outer, "STATEMENT"),
                   Require("SEMICOLON"), Link(Me.n, loop)>>)
           /\ UNCHANGED <<input, parserError, val, status>>

GlobalVariable == Looping("G") /\ Ahead.kw = "ASSIGN" /\ ~NameAfterError /\ Assign("G")

EndOfProgram ==
  /\ Looping("G") /\ ~(Named /\ Ahead.kw = "LB") /\ Ahead.kw # "ASSIGN"
  /\ tree' = [tree EXCEPT !.root = Me.n]
  /\ status' = "done"
  /\ Go(<<>>)
  /\ UNCHANGED <<input, curToken, parserError, val>>

(* GetPar: parameters and arguments, the commas between them optional.     *)
Parameter ==
  /\ Looping("Par") /\ This.kw # "RB"
  /\ tree' = Calloc(tree)
  /\ Go(<<Get("Bool"), Adopt(Outer, "rightChild"), Finish(Outer, "PARAMETR"),
          Task("Comma", Null, Null, ""), Link(Me.n, "Par")>>)
  /\ UNCHANGED <<input, curToken, parserError, val, status>>

Comma ==
  /\ Doing("Comma")
  /\ curToken' = IF This.kw = "COMMA" THEN curToken + 1 ELSE curToken
  /\ Go(<<>>)
  /\ UNCHANGED <<input, parserError, tree, val, status>>

(* GetPar and GetA return what they have linked.                           *)
EndOfList ==
  /\ Doing("Loop") /\ <<Me.op, This.kw>> \in {<<"Par", "RB">>, <<"A", "RSB">>}
  /\ val' = Me.n
  /\ Go(<<>>)
  /\ UNCHANGED <<input, curToken, parserError, tree, status>>

(* The statements before hang below the new one, to the left, whatever it  *)
(* had there.                                                              *)
(* Variant: a node that has a left child keeps it.                         *)
LinkedBelowKept(node, before) ==
  IF before = Null \/ tree.nodes[node].leftChild # Null THEN tree
  ELSE Linked(tree, node, "leftChild", before)

LinkedBelow(node, before) ==
  IF before = Null THEN tree ELSE Linked(tree, node, "leftChild", before)

LinkStatement ==
  /\ Doing("Link")
  /\ IF val = Null
     THEN Go(<<Loop(Me.op, Me.n)>>) /\ UNCHANGED tree
     ELSE Go(<<Loop(Me.op, val)>>) /\ tree' = LinkedBelow(val, Me.n)
  /\ UNCHANGED <<input, curToken, parserError, val, status>>

-----------------------------------------------------------------------------
(* GetA, the statements of a block.                                        *)

AssignStatement == InBlock /\ Ahead.kw = "ASSIGN" /\ ~NameAfterError /\ Assign("A")

(* GetArray: the token after the index is stepped over, whatever it is.    *)
ArrayStatement ==
  /\ InBlock /\ IsArray /\ ~NameAfterError
  /\ IF This.kw = "SEMICOLON" THEN Crash
     ELSE /\ tree' = Linked(Variable(Statement("ASSIGN"), This), Inner, "leftChild", Third)
          /\ Eat(2)
          /\ Go(<<Get("Bool"), Adopt(Third, "rightChild"), Require("RAB"), Skip,
                  Get("Bool"), Adopt(Inner, "rightChild"), Require("SEMICOLON"),
                  Finish(Outer, "STATEMENT"), Check, Link(Me.n, "A")>>)
          /\ UNCHANGED <<input, parserError, val, status>>

OtherStatement ==
  /\ InBlock /\ Ahead.kw # "ASSIGN" /\ ~IsArray
  /\ Go(<<Get("If"), Check, Link(Me.n, "A")>>)
  /\ UNCHANGED <<input, curToken, parserError, tree, val, status>>

(* GetIf, GetWhile, GetRet and the expression statement.                   *)
Begins(kw) == This.kw = kw /\ Ahead.kw = "LB"

If ==
  /\ Getting("If") /\ Begins("IF")
  /\ tree' = Statement("IF")
  /\ Eat(2)
  /\ Go(<<Get("Bool"), Adopt(Inner, "leftChild"), Require("RB"), Task("Then", Outer, Inner, "")>>)
  /\ UNCHANGED <<input, parserError, val, status>>

(* The node of a branch is taken to be there: an empty one is a null       *)
(* pointer (Adopt).                                                        *)
Then ==
  /\ Doing("Then")
  /\ tree' = TreeInsert(tree, Me.m, "rightChild", "DECISION", "")
  /\ IF This.kw = "LSB"
     THEN Eat(1) /\ Go(<<Loop("A", Null), Adopt(NewNode(tree), "leftChild"), Require("RSB"),
                         Task("Else", Me.n, NewNode(tree), "")>>)
     ELSE Go(<<Task("Else", Me.n, NewNode(tree), "")>>) /\ UNCHANGED curToken
  /\ UNCHANGED <<input, parserError, val, status>>

Else ==
  /\ Doing("Else")
  /\ IF This.kw = "ELSE" /\ Ahead.kw = "LSB"
     THEN Eat(2) /\ Go(<<Loop("A", Null), Adopt(Me.m, "rightChild"), Require("RSB"),
                         Finish(Me.n, "STATEMENT")>>)
     ELSE Go(<<Finish(Me.n, "STATEMENT")>>) /\ UNCHANGED curToken
  /\ UNCHANGED <<input, parserError, tree, val, status>>

While ==
  /\ Getting("If") /\ Begins("WHILE")
  /\ tree' = Statement("WHILE")
  /\ Eat(2)
  /\ Go(<<Get("Bool"), Adopt(Inner, "leftChild"), Require("RB"), Task("Do", Outer, Inner, "")>>)
  /\ UNCHANGED <<input, parserError, val, status>>

WhileBody ==
  /\ Doing("Do")
  /\ IF This.kw = "LSB"
     THEN Eat(1) /\ Go(<<Loop("A", Null), Adopt(Me.m, "rightChild"), Require("RSB"),
                         Finish(Me.n, "STATEMENT")>>)
     ELSE Go(<<Finish(Me.n, "STATEMENT")>>) /\ UNCHANGED curToken
  /\ UNCHANGED <<input, parserError, tree, val, status>>

Return ==
  /\ Getting("If") /\ This.kw = "RETURN"
  /\ tree' = Statement("RETURN")
  /\ Eat(1)
  /\ Go(<<Get("Bool"), Task("Value", Outer, Inner, "")>>)
  /\ UNCHANGED <<input, parserError, val, status>>

(* The semicolon of an empty return was taken by GetId: it is given back.  *)
ReturnValue ==
  /\ After("Value")
  /\ IF val # Null
     THEN tree' = Linked(tree, Me.m, "rightChild", val) /\ UNCHANGED curToken
     ELSE curToken' = curToken - 1 /\ UNCHANGED tree
  /\ Go(<<Finish(Me.n, "STATEMENT"), Require("SEMICOLON")>>)
  /\ UNCHANGED <<input, parserError, val, status>>

Expression ==
  /\ Getting("If") /\ ~Begins("IF") /\ ~Begins("WHILE") /\ This.kw # "RETURN"
  /\ Go(<<Get("Bool")>>)
  /\ UNCHANGED <<input, curToken, parserError, tree, val, status>>

-----------------------------------------------------------------------------
(* GetBool, GetE, GetT and GetPow differ in their operators alone.  The    *)
(* table of comparisons has two empty entries, which are CONST: a number   *)
(* where an operator may stand is taken for a comparison.                  *)
Levels      == {"Bool", "E", "T", "Pow"}
Tighter     == [Bool |-> "E", E |-> "T", T |-> "Pow", Pow |-> "P"]
BoolOperation == {"JA", "JB", "JE", "JAE", "JBE", "JNE", "CONST"}

(* Variant: products are not above sums.                                   *)
OperatorsOfFlat(level) ==
  CASE level = "Bool" -> BoolOperation
    [] level = "E"    -> {"ADD", "SUB", "MUL", "DIV"}
    [] level = "T"    -> {}
    [] level = "Pow"  -> {"POW"}

OperatorsOf(level) ==
  CASE level = "Bool" -> BoolOperation
    [] level = "E"    -> {"ADD", "SUB"}
    [] level = "T"    -> {"MUL", "DIV"}
    [] level = "Pow"  -> {"POW"}

FirstOperand ==
  /\ Doing("Get") /\ Me.op \in Levels
  /\ Go(<<Get(Tighter[Me.op]), Task("Operators", Null, Null, Me.op)>>)
  /\ UNCHANGED <<input, curToken, parserError, tree, val, status>>

Operator ==
  /\ After("Operators")
  /\ IF This.kw \in OperatorsOf(Me.op)
     THEN /\ Eat(1)
          /\ Go(<<Get(Tighter[Me.op]), Task("Combine", val, Null, This.kw), Me>>)
     ELSE Go(<<>>) /\ UNCHANGED curToken
  /\ UNCHANGED <<input, parserError, tree, val, status>>

Combine ==
  /\ After("Combine")
  /\ tree' = NodeCtor(tree, Me.n, val, Me.op, NO_VALUE, "")
  /\ val' = NewNode(tree)
  /\ Go(<<>>)
  /\ UNCHANGED <<input, curToken, parserError, status>>

(* GetP with GetUnary (there are no unary operators), GetN, GetCall, GetId.*)
Parenthesis ==
  /\ Getting("P") /\ This.kw = "LB"
  /\ Eat(1)
  /\ Go(<<Get("Bool"), Check, Require("RB")>>)
  /\ UNCHANGED <<input, parserError, tree, val, status>>

Number ==
  /\ Getting("P") /\ This.kw # "LB" /\ ~Named
  /\ tree' = NodeCtor(tree, Null, Null, "CONST", This.value, "")
  /\ val' = NewNode(tree)
  /\ Eat(1)
  /\ Go(<<>>)
  /\ UNCHANGED <<input, parserError, status>>

Builtins == {"SCAN", "PRINT", "P_CDOT", "P_SPACE", "NEW_LINE", "SQRT"}

Call ==
  /\ Getting("P") /\ This.kw # "LB" /\ Named /\ Ahead.kw = "LB"
  /\ tree' = IF This.kw \in Builtins
             THEN TreeInsert(Statement("CALL"), Inner, "leftChild", This.kw, "")
             ELSE TreeInsert(Statement("CALL"), Inner, "leftChild", "FUNC", This.id)
  /\ Eat(2)
  /\ Go(<<Loop("Par", Null), AdoptAny(Inner, "rightChild"), Require("RB"),
          Finish(Outer, "STATEMENT"), Check>>)
  /\ UNCHANGED <<input, parserError, val, status>>

(* Variant: the semicolon is left where it is.                             *)
IdentifierStays ==
  /\ Getting("P") /\ This.kw # "LB" /\ Named /\ Ahead.kw # "LB"
  /\ IF This.kw = "SEMICOLON"
     THEN val' = Null /\ UNCHANGED <<tree, curToken>>
     ELSE tree' = Variable(tree, This) /\ val' = NewNode(tree) /\ Eat(1)
  /\ Go(<<>>)
  /\ UNCHANGED <<input, parserError, status>>

Identifier ==
  /\ Getting("P") /\ This.kw # "LB" /\ Named /\ Ahead.kw # "LB"
  /\ IF This.kw = "SEMICOLON"
     THEN val' = Null /\ UNCHANGED tree
     ELSE tree' = Variable(tree, This) /\ val' = NewNode(tree)
  /\ Eat(1)
  /\ Go(<<>>)
  /\ UNCHANGED <<input, parserError, status>>

-----------------------------------------------------------------------------
(* The statements between the calls.                                       *)
(* Variant: a null pointer is never looked for.                            *)
AdoptNodeAlways ==
  /\ After("Adopt") \/ After("AdoptAny")
  /\ IF val # Null
     THEN /\ tree' = Linked(tree, Me.n, Me.op, val)
          /\ Go(<<>>)
          /\ UNCHANGED <<input, curToken, parserError, val, status>>
     ELSE Crash

AdoptNode ==
  /\ After("Adopt") \/ After("AdoptAny")
  /\ IF val # Null
     THEN /\ tree' = Linked(tree, Me.n, Me.op, val)
          /\ Go(<<>>)
          /\ UNCHANGED <<input, curToken, parserError, val, status>>
     ELSE IF Me.do = "Adopt" THEN Crash
     ELSE Go(<<>>) /\ UNCHANGED <<input, curToken, parserError, tree, val, status>>

RequireToken ==
  /\ Doing("Require")
  /\ IF This.kw = Me.op THEN Eat(1) /\ UNCHANGED parserError
                        ELSE parserError' = TRUE /\ UNCHANGED curToken
  /\ Go(<<>>)
  /\ UNCHANGED <<input, tree, val, status>>

SkipToken ==
  /\ Doing("Skip")
  /\ Eat(1)
  /\ Go(<<>>)
  /\ UNCHANGED <<input, parserError, tree, val, status>>

FinishNode ==
  /\ Doing("Finish")
  /\ tree' = SetNodeType(tree, Me.n, Me.op)
  /\ val' = Me.n
  /\ Go(<<>>)
  /\ UNCHANGED <<input, curToken, parserError, status>>

NoErrorHere ==
  /\ After("Check")
  /\ Go(<<>>)
  /\ UNCHANGED <<input, curToken, parserError, tree, val, status>>

(* IS_PARSER_ERROR: every caller up to GetG gives up with a null pointer.  *)
(* (GetPow reads one more operand when it finds a POW after the error; no  *)
(* one looks at what it makes of it.)                                      *)
Unwind ==
  /\ Running /\ parserError /\ agenda # <<>>
  /\ \/ Me.do \in {"Adopt", "AdoptAny", "Check", "Operators", "Combine", "Value"}
     \/ NameAfterError
  /\ tree' = [tree EXCEPT !.root = Null]
  /\ status' = "done"
  /\ agenda' = <<>>
  /\ UNCHANGED <<input, curToken, parserError, val>>

(* Nothing marks the end of the tokens: a parser that has left them goes   *)
(* on until it leaves the memory it may read.                              *)
LeaveMemory ==
  /\ status = "parsing" /\ ~Running
  /\ status' = "undefined"
  /\ UNCHANGED <<input, curToken, parserError, tree, val, agenda>>

Next ==
  \/ Function \/ FunctionBody \/ GlobalVariable \/ EndOfProgram \/ Parameter \/ Comma
  \/ EndOfList \/ LinkStatement \/ AssignStatement \/ ArrayStatement \/ OtherStatement
  \/ If \/ Then \/ Else \/ While \/ WhileBody \/ Return \/ ReturnValue \/ Expression
  \/ FirstOperand \/ Operator \/ Combine \/ Parenthesis \/ Number \/ Call \/ Identifier
  \/ AdoptNode \/ RequireToken \/ SkipToken \/ FinishNode \/ NoErrorHere \/ Unwind
  \/ LeaveMemory

Spec == Init /\ [][Next]_vars

(* One thread, which goes on while it can.                                 *)
FairSpec == Spec /\ WF_vars(Next)

-----------------------------------------------------------------------------
NodeIds == 0 .. Len(tree.nodes)

TypeOK ==
  /\ curToken \in 0 .. Len(tokens) + MaxBeyond + 2
  /\ parserError \in BOOLEAN
  /\ val \in NodeIds /\ tree.root \in NodeIds
  /\ \A n \in DOMAIN tree.nodes : /\ tree.nodes[n].parent \in NodeIds
                                 /\ Children(tree, n) \subseteq NodeIds
  /\ \A i \in DOMAIN agenda : agenda[i].n \in NodeIds /\ agenda[i].m \in NodeIds
  /\ status \in {"parsing", "done", "crash", "undefined"}

Accepted == status = "done" /\ ~parserError

(***************************************************************************)
(* The tree that goes on to the generator, whatever the tokens were: every *)
(* child knows its parent and no node hangs in two places, although each   *)
(* grammar function ties these pointers by hand.  A syntax error leaves no *)
(* tree, but for one: the missing semicolon of a global variable with      *)
(* nothing after it, which no one asks for.                                *)
(***************************************************************************)
IsGlobal(item) == tree.nodes[tree.nodes[item].rightChild].nodeType = "ASSIGN"

TreeSound ==
  status = "done" /\ tree.root # Null =>
    /\ LinksAgree(tree, tree.root)
    /\ parserError => IsGlobal(tree.root) /\ This.kw # "SEMICOLON"

(* The nodes of the statements of all blocks: what begins the chain of a   *)
(* block, and what hangs below that to the left.                           *)
Operations == UNION {OperatorsOf(level) : level \in Levels}

BlocksOf(node) ==
  CASE node.nodeType \in {"DEFINE", "WHILE"} -> {node.rightChild}
    [] node.nodeType = "DECISION"            -> {node.leftChild, node.rightChild}
    [] OTHER                                 -> {}

InChains ==
  LET met[k \in 0 .. Len(tree.nodes)] ==
        IF k = 0 THEN UNION {BlocksOf(tree.nodes[n]) : n \in DOMAIN tree.nodes} \ {Null}
        ELSE LET above == met[k-1]
             IN  above \cup ({tree.nodes[n].leftChild : n \in above} \ {Null})
  IN  met[Len(tree.nodes)]

(* A statement that is an operation has one more left operand than it has  *)
(* pointers to them.  Nodes are numbered as they were made: the statements *)
(* before, then the left operand, then the right one.                      *)
LostOperands ==
  LET operations == {n \in InChains : tree.nodes[n].nodeType \in Operations}
  IN  {n \in DOMAIN tree.nodes :
         LET operator == tree.nodes[n].parent
         IN  /\ operator \in operations
             /\ tree.nodes[operator].leftChild \in 1 .. n - 1
             /\ tree.nodes[operator].rightChild \notin 1 .. n}

(***************************************************************************)
(* Nothing that was parsed gets lost on the way into the tree, but for one *)
(* thing: a statement that is no more than an operation has its left       *)
(* operand replaced by the statements before it.                           *)
(***************************************************************************)
OnlyOperandsLost ==
  Accepted =>
    LET kept == Subtree(tree, tree.root)
        lost == {n \in LostOperands : tree.nodes[n].parent \in kept}
    IN  DOMAIN tree.nodes \ (kept \cup {1}) = UNION {Subtree(tree, n) : n \in lost}

(***************************************************************************)
(* The parser stops where the tokens stop, neither before nor after.  It   *)
(* looks two tokens ahead for that, and nothing marks the end: when the    *)
(* first block of the array is full, what follows is what memory holds     *)
(* there.                                                                  *)
(***************************************************************************)
EndVisible == Len(tokens) <= BEGINING_SIZE - 2 \/ beyond.kw \notin {"LB", "ASSIGN"}

(***************************************************************************)
(* A null pointer is met for two reasons: a block of an if or a loop is    *)
(* empty, for which GetA returns none, or a semicolon stands where a name  *)
(* or an operand is to be, for which GetId returns none.                   *)
(***************************************************************************)
EmptyBlock == curToken > 0 /\ Cell(curToken - 1).kw = "LSB" /\ This.kw = "RSB"

SemicolonInstead ==
  \E i \in 0 .. curToken :
    Cell(i).kw = "SEMICOLON" /\ \A j \in i + 1 .. curToken - 1 : Cell(j).kw = "RB"

CrashesOnlyOnMissing == status = "crash" => EmptyBlock \/ SemicolonInstead

(* The parser ends, on any tokens: every loop takes one with every round,  *)
(* the semicolon GetId drops included.                                     *)
Ends == <>(status # "parsing")
==============================================================================
