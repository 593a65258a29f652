--------------------------- MODULE LazyCPrograms ----------------------------
(***************************************************************************)
(* Lazy C programs for model checking: constructors of the nodes the       *)
(* parser builds, and families of programs around the places where the     *)
(* generator has choices.                                                  *)
(***************************************************************************)
EXTENDS Integers, SequencesExt

Const(v)        == [type |-> "CONST", value |-> v]
Var(x)          == [type |-> "VARIABLE", str |-> x]
Op(op, l, r)    == [type |-> op, left |-> l, right |-> r]
Apply(f, args)  == [type |-> "CALL", func |-> f, args |-> args]
Assign(x, e)    == [type |-> "ASSIGN", str |-> x, right |-> e]
If(c, t, e)     == [type |-> "IF", cond |-> c, then |-> t, else |-> e]
While(c, b)     == [type |-> "WHILE", cond |-> c, body |-> b]
Return(e)       == [type |-> "RETURN", value |-> <<e>>]
Leave           == [type |-> "RETURN", value |-> <<>>]
Define(f, ps, b) == [type |-> "DEFINE", func |-> f, params |-> ps, body |-> b]
Main(b)         == Define("MAIN", <<>>, b)
Show(e)         == Apply("PRINT", <<e>>)
Scan            == Apply("SCAN", <<>>)
x               == Var("'x'")
y               == Var("'y'")
n               == Var("'n'")

(* Factorial/factorialCode.txt. *)
Factorial ==
  <<Main(<<Assign("'n'", Scan), Assign("'n'", Apply("'fac'", <<n>>)), Show(n), Leave>>),
    Define("'fac'", <<"'n'">>,
      <<If(Op("JE", n, Const(0)),
           <<Return(Const(1))>>,
           <<Return(Op("MUL", Apply("'fac'", <<Op("SUB", n, Const(1))>>), n))>>)>>)>>

(* The loops of Circle/circleCode.txt, smaller. *)
Circle ==
  <<Assign("'m'", Const(0)),
    Define("'pth'", <<"'x'", "'y'">>,
      <<Return(Apply("SQRT", <<Op("ADD", Op("MUL", x, x), Op("MUL", y, y))>>))>>),
    Main(<<Assign("'m'", Op("SUB", Const(0), Const(1))),
           Assign("'y'", Const(1)), Assign("'x'", Const(0)), Assign("'p'", Const(0)),
           While(Op("JAE", y, Var("'m'")),
             <<Assign("'x'", Var("'m'")),
               While(Op("JBE", x, Const(1)),
                 <<Assign("'p'", Apply("'pth'", <<x, y>>)),
                   If(Op("JE", Var("'p'"), Const(1)), <<Apply("P_CDOT", <<>>)>>,
                                                      <<Apply("P_SPACE", <<>>)>>),
                   Assign("'x'", Op("ADD", x, Const(1)))>>),
               Assign("'y'", Op("SUB", y, Const(1))),
               Apply("NEW_LINE", <<>>)>>),
           Leave>>)>>

(* Two functions of two and one parameters, and a global between them. *)
Helpers ==
  <<Define("'f'", <<"'x'", "'y'">>, <<Return(Op("SUB", x, y))>>),
    Assign("'g'", Const(3)),
    Define("'h'", <<"'x'">>,
      <<If(Op("JA", x, Var("'g'")), <<Assign("'g'", x), Return(Const(1))>>, <<>>),
        Return(Op("ADD", x, Const(2)))>>)>>

Callers(e) ==
  {Helpers \o <<Main(<<Assign("'n'", Scan), Show(e), Show(Var("'g'")), Leave>>)>>,
   <<Main(<<Assign("'n'", Scan), Assign("'x'", e), Show(x), Show(n), Leave>>)>> \o Helpers}

(* Expressions: every operator over constants, variables and calls, nested
   to the left, to the right and within arguments. *)
Atoms == {Const(2), n, Var("'g'"), Apply("'h'", <<n>>)}
Expressions ==
  {Op(op, a, b) : op \in {"ADD", "SUB", "MUL", "DIV"}, a \in Atoms, b \in Atoms}
  \cup {Apply("'f'", <<a, b>>) : a \in Atoms, b \in Atoms}
  \cup {Op("SUB", Const(5), Op("SUB", n, Const(1))), Op("SUB", Op("SUB", Const(5), n), Const(1)),
        Apply("'f'", <<n, Apply("'f'", <<Const(1), n>>)>>),
        Apply("'h'", <<Apply("'h'", <<Apply("'h'", <<n>>)>>)>>)}

Comparing == {"JA", "JB", "JE", "JAE", "JBE", "JNE"}

(* Branches and loops inside one another, with and without an else. *)
Conditional(op) ==
  <<Main(<<Assign("'n'", Scan), Assign("'x'", Const(0)),
           While(Op("JB", x, Const(2)),
             <<If(Op(op, n, x),
                  <<If(Op("JE", x, Const(1)), <<Show(n)>>, <<>>), Apply("P_CDOT", <<>>)>>,
                  <<While(Op("JNE", n, x), <<Show(x), Assign("'n'", x)>>)>>),
               Assign("'x'", Op("ADD", x, Const(1)))>>),
           If(Op(op, n, Const(1)), <<Leave>>, <<>>),
           Show(Const(7)), Leave>>)>>

(* A call in a loop, of a function with a loop of its own. *)
Nested ==
  <<Define("'sum'", <<"'x'">>,
      <<Assign("'s'", Const(0)),
        While(Op("JA", x, Const(0)),
          <<Assign("'s'", Op("ADD", Var("'s'"), x)), Assign("'x'", Op("SUB", x, Const(1)))>>),
        Return(Var("'s'"))>>),
    Main(<<Assign("'x'", Const(0)), Assign("'t'", Const(0)),
           While(Op("JB", x, Const(3)),
             <<Assign("'t'", Op("ADD", Var("'t'"), Apply("'sum'", <<x>>))),
               Assign("'x'", Op("ADD", x, Const(1)))>>),
           Show(Var("'t'")), Leave>>)>>

Meant == {Factorial, Circle, Nested}
         \cup {Conditional(op) : op \in Comparing}
         \cup UNION {Callers(e) : e \in Expressions}

-----------------------------------------------------------------------------
(* Programs at the limits of the generator. *)
F(args) == Apply("'f'", args)

(* The second argument is in ax when the first one is computed. *)
NestedFirst ==
  Helpers \o <<Main(<<Show(F(<<F(<<Const(5), Const(1)>>), Const(2)>>)), Leave>>)>>

TwoGlobals ==
  <<Assign("'g'", Const(3)), Main(<<Assign("'x'", Var("'i'")), Show(Var("'g'")), Leave>>),
    Assign("'i'", Const(4))>>

AdjacentGlobals ==
  <<Assign("'g'", Const(3)), Assign("'i'", Const(4)), Main(<<Show(Var("'g'")), Leave>>)>>

ComputedGlobal == <<Assign("'g'", Op("ADD", Const(1), Const(2))), Main(<<Show(Var("'g'")), Leave>>)>>

(* A global that is no constant, and code between two functions for it.    *)
CalledGlobal ==
  Helpers \o
  <<Assign("'i'", Op("ADD", y, Apply("'h'", <<Const(1)>>))), Main(<<Show(x), Leave>>)>>

TrailingGlobals ==
  <<Define("'k'", <<"'x'">>, <<Return(Var("'g'"))>>),
    Main(<<Show(Apply("'k'", <<Var("'i'")>>)), Leave>>),
    Assign("'g'", Const(3)), Assign("'i'", Const(4))>>

ManyGlobals ==
  [i \in 1 .. 4 |-> IF i = 1 THEN Main(<<Leave>>) ELSE Assign("'g'", Const(i))]

GlobalsBetween ==
  <<Assign("'a'", Const(1)), Main(<<Leave>>), Assign("'b'", Const(1)),
    Define("'k'", <<>>, <<Return(Const(1))>>), Assign("'c'", Const(1)),
    Define("'l'", <<>>, <<Return(Const(1))>>)>>

DiscardedValue ==
  Helpers \o
  <<Define("'k'", <<>>, <<Apply("'h'", <<Const(1)>>), Return(Const(1))>>),
    Main(<<Assign("'x'", Op("ADD", Const(5), Apply("'k'", <<>>))), Show(x), Leave>>)>>

LateName ==
  Helpers \o
  <<Main(<<Assign("'x'", Const(0)),
           While(Op("JB", x, Const(2)),
             <<Show(Apply("'h'", <<Const(1)>>)),
               If(Op("JE", x, Const(1)), <<Show(y)>>, <<>>),
               Assign("'y'", Const(6)), Assign("'x'", Op("ADD", x, Const(1)))>>),
           Leave>>)>>

NoComparison ==
  <<Main(<<If(Const(1), <<Show(Const(1))>>, <<Show(Const(2))>>),
           While(Const(0), <<Show(Const(3))>>), Leave>>)>>

Power == <<Main(<<Show(Op("POW", Const(2), Const(3))), Leave>>)>>
ThreeArguments ==
  <<Define("'k'", <<"'a'", "'b'", "'c'">>, <<Return(Var("'b'"))>>),
    Main(<<Show(Apply("'k'", <<Const(1), Const(2), Const(3)>>)), Leave>>)>>

(* Globals are looked up before parameters. *)
ShadowedGlobal ==
  <<Assign("'g'", Const(3)), Define("'k'", <<"'g'">>, <<Return(Var("'g'"))>>),
    Main(<<Show(Apply("'k'", <<Const(5)>>)), Leave>>)>>

NoReturn == <<Main(<<Show(Const(1))>>), Define("'k'", <<>>, <<Show(Const(2)), Return(Const(0))>>)>>
NoMain == Helpers
Unknown == <<Main(<<Assign("'x'", Apply("'k'", <<Const(1)>>)), Show(Const(1)), Leave>>)>>
EmptyThen == <<Main(<<If(Op("JE", Const(1), Const(1)), <<>>, <<Show(Const(2))>>), Leave>>)>>
EmptyBody == <<Define("'k'", <<>>, <<>>), Main(<<Leave>>)>>

ManyFunctions(k) ==
  [i \in 1 .. k |-> Define(<<"'p'", "'q'", "'r'", "'s'">>[i], <<>>, <<Return(Const(i))>>)]
  \o <<Main(<<Show(Apply("'p'", <<>>)), Leave>>)>>

ManyNames ==
  <<Main(<<Assign("'a'", Const(1)), Assign("'b'", Const(2)), Assign("'c'", Const(3)),
           Assign("'d'", Const(4)), Assign("'e'", Const(5)), Assign("'f'", Const(6)), Show(Var("'e'")), Leave>>)>>

(* Programs of at most two arguments, for what the registers are to hold.  *)
TwoArguments == Meant \cup {NestedFirst}

(* The largest number %g writes out, and the first it does not.            *)
LargeNumbers ==
  <<Assign("'g'", Const(123456)), Main(<<Show(Const(999999)), Show(Var("'g'")), Leave>>)>>
HugeNumbers == <<Main(<<Show(Const(1000000)), Show(Const(1999999)), Show(Const(9999995)), Leave>>)>>

Numbers == {LargeNumbers, HugeNumbers}

Limits == {NestedFirst, TwoGlobals, AdjacentGlobals, ComputedGlobal, CalledGlobal,
           TrailingGlobals, ManyGlobals, GlobalsBetween, DiscardedValue, LateName, NoComparison, Power,
           ThreeArguments, ShadowedGlobal, NoReturn, NoMain, Unknown, EmptyThen, EmptyBody, ManyNames,
           ManyFunctions(2), ManyFunctions(3), ManyFunctions(4)}

-----------------------------------------------------------------------------
(* Programs with statements that are no more than an expression: an        *)
(* operation first in its block, after one and after more statements, with *)
(* a call or an operation for an operand, one after the other, in branches *)
(* and loops; a name and a number.                                         *)
Sum(a, b) == Op("ADD", a, b)

Bare ==
  {<<Main(b)>> : b \in
     {<<Assign("'x'", Const(1)), Sum(x, Const(2)), Leave>>,
      <<Sum(x, Const(2)), Op("SUB", x, Const(3)), Show(x), Leave>>,
      <<Assign("'x'", Const(1)), Assign("'y'", Const(2)), Sum(x, Op("MUL", y, Const(2))),
        Op("DIV", Sum(x, y), Const(2)), Show(x), Leave>>,
      <<Assign("'x'", Const(1)), x, Show(x), Const(5), Sum(x, Const(2)), Leave>>,
      <<Assign("'x'", Const(3)),
        While(Op("JA", x, Const(0)),
          <<Assign("'x'", Op("SUB", x, Const(1))),
            If(Op("JE", x, y), <<Show(x), Sum(y, x)>>, <<Sum(x, y), Show(y), Show(x), y>>),
            Op("MUL", Const(2), x)>>),
        Leave>>}}
  \cup {Helpers \o <<Main(<<Assign("'x'", Const(1)), Sum(Apply("'h'", <<x>>), Const(2)), Show(x), Leave>>)>>,
        <<Assign("'g'", Const(3)), Main(<<Show(n), Sum(Var("'g'"), n)>>), Assign("'i'", Const(4))>>}

Operations == {"ADD", "SUB", "MUL", "DIV", "POW"} \cup Comparing

RECURSIVE Linked(_), LinkedIn(_)

(* The statements of a block as the parser links them.  Those before an    *)
(* operation take the place of its left operand; those before a name or a  *)
(* number are no one's any more.  A number behind a semicolon is taken for *)
(* a comparison, which has no value.                                       *)
LinkedIn(ns) ==
  LET below(before, node) ==
        CASE node.type = "VARIABLE" \/ (node.type = "CONST" /\ before = <<>>) -> <<node>>
          [] node.type = "CONST" /\ before # <<>> -> <<Const(-1)>>
          [] node.type \in Operations /\ Len(before) = 1 -> <<[node EXCEPT !.left = before[1]]>>
          [] node.type \in Operations /\ Len(before) > 1 ->
               <<[node EXCEPT !.left = [type |-> "STATEMENT", body |-> before]]>>
          [] OTHER -> Append(before, node)
  IN  FoldLeft(LAMBDA before, node : below(before, Linked(node)), <<>>, ns)

Linked(node) ==
  CASE node.type = "IF" -> [node EXCEPT !.then = LinkedIn(@), !.else = LinkedIn(@)]
    [] node.type \in {"WHILE", "DEFINE"} -> [node EXCEPT !.body = LinkedIn(@)]
    [] OTHER -> node
=============================================================================
