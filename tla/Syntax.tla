------------------------------- MODULE Syntax -------------------------------
(***************************************************************************)
(* Programs as text: the tokens of a program (a sequence of the nodes of   *)
(* module CodeGen), written as C is written with no parenthesis more than  *)
(* precedence asks for, and the program that a tree of module Tree stands  *)
(* for.  It is what the tokenizer and the parser are compared with.        *)
(***************************************************************************)
EXTENDS Integers, Tree, SequencesExt

Kw(k)   == [kw |-> k, id |-> k, value |-> 0]
Name(s) == [kw |-> "", id |-> s, value |-> 0]
Num(v)  == [kw |-> "CONST", id |-> "", value |-> v]

Level ==
  [op \in {"JA", "JB", "JE", "JAE", "JBE", "JNE"} |-> 1]
  @@ [op \in {"ADD", "SUB"} |-> 2] @@ [op \in {"MUL", "DIV"} |-> 3] @@ ("POW" :> 4)

IsOperator(type) == type \in DOMAIN Level

Builtin(f) == f \in {"SCAN", "PRINT", "P_CDOT", "P_SPACE", "NEW_LINE", "SQRT"}
Callee(f)  == IF Builtin(f) \/ f = "MAIN" THEN Kw(f) ELSE Name(f)

RECURSIVE Expr(_, _), List(_), Item(_), Items(_)

(* An expression where operators of the given level and above may stand.   *)
Expr(e, level) ==
  CASE e.type = "CONST"    -> <<Num(e.value)>>
    [] e.type = "VARIABLE" -> <<Name(e.str)>>
    [] e.type = "CALL"     -> <<Callee(e.func), Kw("LB")>> \o List(e.args) \o <<Kw("RB")>>
    [] IsOperator(e.type) ->
         LET l == Level[e.type]
             words == Expr(e.left, l) \o <<Kw(e.type)>> \o Expr(e.right, l + 1)
         IN  IF l < level THEN <<Kw("LB")>> \o words \o <<Kw("RB")>> ELSE words
    [] OTHER -> <<Kw("?")>>

List(es) ==
  IF es = <<>> THEN <<>>
  ELSE FoldLeft(LAMBDA words, e : words \o <<Kw("COMMA")>> \o Expr(e, 1),
                Expr(Head(es), 1), Tail(es))

Block(ns) == <<Kw("LSB")>> \o Items(ns) \o <<Kw("RSB")>>
Parens(words) == <<Kw("LB")>> \o words \o <<Kw("RB")>>
End == <<Kw("SEMICOLON")>>

Item(n) ==
  CASE n.type = "DEFINE" ->
         <<Callee(n.func)>>
         \o Parens(List([i \in DOMAIN n.params |-> [type |-> "VARIABLE", str |-> n.params[i]]]))
         \o Block(n.body)
    [] n.type = "ASSIGN"  -> <<Name(n.str)>>
                             \o (IF "index" \notin DOMAIN n THEN <<>>
                                 ELSE <<Kw("LAB")>> \o Expr(n.index, 1) \o <<Kw("RAB")>>)
                             \o <<Kw("ASSIGN")>> \o Expr(n.right, 1) \o End
    [] n.type = "IF"      -> <<Kw("IF")>> \o Parens(Expr(n.cond, 1)) \o Block(n.then)
                             \o IF n.else = <<>> THEN <<>> ELSE <<Kw("ELSE")>> \o Block(n.else)
    [] n.type = "WHILE"   -> <<Kw("WHILE")>> \o Parens(Expr(n.cond, 1)) \o Block(n.body)
    [] n.type = "RETURN"  -> <<Kw("RETURN")>>
                             \o (IF n.value = <<>> THEN <<>> ELSE Expr(n.value[1], 1)) \o End
    [] OTHER              -> Expr(n, 1) \o End

Items(ns) == FlattenSeq([i \in DOMAIN ns |-> Item(ns[i])])

-----------------------------------------------------------------------------
RECURSIVE ExprOf(_, _), Chain(_, _), ItemOf(_, _)

(* The STATEMENT or PARAMETR nodes from the one given down to the left are *)
(* a sequence, the first of which is at the bottom.  A statement that is   *)
(* an expression has no such node: what hangs below it to the left, the    *)
(* statements before it included, is part of the expression.               *)
Chain(t, n) ==
  CASE n = Null -> <<>>
    [] n # Null /\ t.nodes[n].nodeType \in {"STATEMENT", "PARAMETR"} ->
         Append(Chain(t, t.nodes[n].leftChild), ItemOf(t, t.nodes[n].rightChild))
    [] OTHER -> <<ExprOf(t, n)>>

(* A number and a variable have no operands, whatever hangs below them.    *)
ExprOf(t, n) ==
  LET node == t.nodes[n]
  IN  CASE n = Null                   -> [type |-> "NOTHING"]
        [] node.nodeType = "CONST"     -> [type |-> "CONST", value |-> node.value]
        [] node.nodeType = "VARIABLE"  -> [type |-> "VARIABLE", str |-> node.str]
        [] node.nodeType = "STATEMENT" ->
             IF node.leftChild = Null THEN ItemOf(t, node.rightChild)
             ELSE [type |-> "STATEMENT", body |-> Chain(t, n)]
        [] IsOperator(node.nodeType)   -> [type |-> node.nodeType,
                                           left  |-> ExprOf(t, node.leftChild),
                                           right |-> ExprOf(t, node.rightChild)]
        [] OTHER -> [type |-> "?"]

ItemOf(t, n) ==
  LET node  == t.nodes[n]
      left  == t.nodes[node.leftChild]
      right == t.nodes[node.rightChild]
      named(f) == IF t.nodes[f].nodeType = "FUNC" THEN t.nodes[f].str ELSE t.nodes[f].nodeType
  IN  CASE node.nodeType = "DEFINE" ->
             [type |-> "DEFINE", func |-> named(left.leftChild),
              params |-> [i \in DOMAIN Chain(t, left.rightChild) |->
                            Chain(t, left.rightChild)[i].str],
              body |-> Chain(t, node.rightChild)]
        [] node.nodeType = "ASSIGN" /\ left.rightChild = Null ->
             [type |-> "ASSIGN", str |-> left.str, right |-> ExprOf(t, node.rightChild)]
        [] node.nodeType = "ASSIGN" /\ left.rightChild # Null ->
             [type |-> "ASSIGN", str |-> left.str, index |-> ExprOf(t, left.rightChild),
              right |-> ExprOf(t, node.rightChild)]
        [] node.nodeType = "IF" ->
             [type |-> "IF", cond |-> ExprOf(t, node.leftChild),
              then |-> Chain(t, right.leftChild), else |-> Chain(t, right.rightChild)]
        [] node.nodeType = "WHILE" ->
             [type |-> "WHILE", cond |-> ExprOf(t, node.leftChild),
              body |-> Chain(t, node.rightChild)]
        [] node.nodeType = "RETURN" ->
             [type |-> "RETURN", value |-> IF node.rightChild = Null THEN <<>>
                                           ELSE <<ExprOf(t, node.rightChild)>>]
        [] node.nodeType = "CALL" ->
             [type |-> "CALL", func |-> named(node.leftChild),
              args |-> Chain(t, node.rightChild)]
        [] OTHER -> ExprOf(t, n)

ProgramOf(tree) == Chain(tree, tree.root)
=============================================================================
