------------------------------- MODULE LazyC --------------------------------
(***************************************************************************)
(* What a Lazy C program means, read as the C it looks like, and which     *)
(* programs the code generator can be expected to translate.  It knows     *)
(* nothing of registers, frames or labels: it is what the tool chain is    *)
(* compared with.  Programs are the trees of module CodeGen.               *)
(***************************************************************************)
EXTENDS Bytecode, SequencesExt

CONSTANTS
  NUMBERS_VARIABLE, NUMBERS_FUNCTION,   (* the sizes of the generator's tables *)
  DepthRecursion,   (* the calls the machine has room for                   *)
  MaxFuel           (* bound: the loop iterations of a meaningful run       *)

ASSUME TablesAssumption ==
  NUMBERS_VARIABLE \in Nat \ {0} /\ NUMBERS_FUNCTION \in Nat

Builtins    == {"SCAN", "PRINT", "P_CDOT", "P_SPACE", "NEW_LINE", "SQRT"}
Comparisons == ConditionalJumps
Arithmetic  == Operators

IsCall(n)    == n.type = "CALL" /\ n.func \notin Builtins
Functions(p) == {p[i] : i \in {j \in DOMAIN p : p[j].type = "DEFINE"}}
Globals(p)   == SelectSeq(p, LAMBDA n : n.type = "ASSIGN")
Lookup(p, f) == CHOOSE d \in Functions(p) : d.func = f

-----------------------------------------------------------------------------
(***************************************************************************)
(* A run carries the variables, the output, the value last computed and    *)
(* the way it goes on: "next", "return" or "stuck", when the program has   *)
(* no meaning or is out of its bounds.                                     *)
(***************************************************************************)
Stuck(s) == [s EXCEPT !.flow = "stuck"]
Going(s) == s.flow = "next"
With(s, v) == [s EXCEPT !.value = v]
Shown(s, item) == [s EXCEPT !.out = Append(@, item)]

NoVars == [x \in {} |-> 0]
Bound(vars, x, v) == [y \in DOMAIN vars \cup {x} |-> IF y = x THEN v ELSE vars[y]]

Read(s, x) ==
  CASE x \in DOMAIN s.locals -> With(s, s.locals[x])
    [] x \notin DOMAIN s.locals /\ x \in DOMAIN s.globals -> With(s, s.globals[x])
    [] OTHER -> Stuck(s)

Assigned(s, x) ==
  IF x \notin DOMAIN s.locals /\ x \in DOMAIN s.globals
  THEN [s EXCEPT !.globals = Bound(@, x, s.value)]
  ELSE [s EXCEPT !.locals = Bound(@, x, s.value)]

RECURSIVE Eval(_, _, _), Values(_, _, _, _), Exec(_, _, _), Run(_, _, _), Repeat(_, _, _)

(* The values of the expressions from the last to the first, added to      *)
(* those found before.                                                     *)
Values(p, es, s, found) ==
  IF es = <<>> \/ ~Going(s) THEN [run |-> s, values |-> found]
  ELSE LET t == Eval(p, Last(es), s) IN Values(p, Front(es), t, <<t.value>> \o found)

Apply(p, d, s, values) ==
  IF s.depth = DepthRecursion THEN Stuck(s)
  ELSE LET callee == [s EXCEPT !.depth = @ + 1,
                               !.locals = [x \in ToSet(d.params) |->
                                 values[CHOOSE i \in DOMAIN d.params : d.params[i] = x]]]
           t == Run(p, d.body, callee)
       IN  IF t.flow = "stuck" THEN t
           ELSE [t EXCEPT !.flow = "next", !.locals = s.locals, !.depth = s.depth]

Eval(p, e, s) ==
  CASE ~Going(s)            -> s
    [] e.type = "CONST"     -> With(s, Wrap(e.value))
    [] e.type = "VARIABLE"  -> Read(s, e.str)
    [] e.type \in Arithmetic ->
         LET l == Eval(p, e.left, s)
             r == Eval(p, e.right, l)
         IN  IF ~Going(r) \/ Traps(e.type, l.value, r.value) THEN Stuck(r)
             ELSE With(r, Compute(e.type, l.value, r.value))
    [] e.type \in Comparisons ->
         LET l == Eval(p, e.left, s)
             r == Eval(p, e.right, l)
         IN  With(r, IF Holds(e.type, l.value, r.value) THEN 1 ELSE 0)
    [] e.type = "CALL" ->
         LET a == Values(p, e.args, s, <<>>)
         IN  CASE ~Going(a.run)        -> a.run
               [] e.func = "SCAN"      -> With(s, s.typed)
               [] e.func = "PRINT"     -> Shown(a.run, Last(a.values))
               [] e.func = "SQRT"      -> With(a.run, SquareRoot(Last(a.values)))
               [] e.func \in Builtins \ {"SCAN", "PRINT", "SQRT"} -> Shown(s, e.func)
               [] OTHER -> Apply(p, Lookup(p, e.func), a.run, a.values)
    [] OTHER -> Stuck(s)

Repeat(p, n, s) ==
  LET c == Eval(p, n.cond, s)
  IN  CASE ~Going(c) \/ c.fuel = 0 -> Stuck(c)
        [] c.value = 0 -> c
        [] OTHER -> LET t == Run(p, n.body, [c EXCEPT !.fuel = @ - 1])
                    IN  IF Going(t) THEN Repeat(p, n, t) ELSE t

Exec(p, n, s) ==
  CASE n.type = "ASSIGN" -> LET t == Eval(p, n.right, s)
                            IN  IF Going(t) THEN Assigned(t, n.str) ELSE t
    [] n.type = "IF"     -> LET c == Eval(p, n.cond, s)
                            IN  Run(p, IF c.value # 0 THEN n.then ELSE n.else, c)
    [] n.type = "WHILE"  -> Repeat(p, n, s)
    [] n.type = "RETURN" -> LET t == IF n.value = <<>> THEN s ELSE Eval(p, n.value[1], s)
                            IN  IF Going(t) THEN [t EXCEPT !.flow = "return"] ELSE t
    [] OTHER             -> Eval(p, n, s)

Run(p, ns, s) ==
  IF ns = <<>> \/ ~Going(s) THEN s ELSE Run(p, Tail(ns), Exec(p, Head(ns), s))

(* The program run with one number typed at every prompt.                  *)
Meaning(p, typed) ==
  LET start == [globals |-> FoldLeft(LAMBDA g, n : Bound(g, n.str, Wrap(n.right.value)),
                                     NoVars, Globals(p)),
                locals |-> NoVars, out |-> <<>>, value |-> 0, flow |-> "next",
                typed |-> typed, fuel |-> MaxFuel, depth |-> 0]
  IN  Apply(p, Lookup(p, "MAIN"), start, <<>>)

-----------------------------------------------------------------------------
(* The nodes of a statement or an expression, itself included, in the      *)
(* order the generator meets them.                                         *)
RECURSIVE Nodes(_), NodesOf(_)

NodesOf(ns) == IF ns = <<>> THEN <<>> ELSE Nodes(Head(ns)) \o NodesOf(Tail(ns))

Nodes(n) ==
  CASE n.type = "IF"       -> Nodes(n.cond) \o NodesOf(n.else) \o NodesOf(n.then) \o <<n>>
    [] n.type = "WHILE"    -> Nodes(n.cond) \o NodesOf(n.body) \o <<n>>
    [] n.type = "ASSIGN"   -> Nodes(n.right) \o <<n>>
    [] n.type = "RETURN"   -> NodesOf(n.value) \o <<n>>
    [] n.type = "CALL"     -> NodesOf(Reverse(n.args)) \o <<n>>
    [] n.type \in {"CONST", "VARIABLE"} -> <<n>>
    [] n.type = "DEFINE"   -> NodesOf(n.body)
    [] n.type = "STATEMENT" -> NodesOf(n.body) \o <<n>>
    [] OTHER               -> Nodes(n.left) \o Nodes(n.right) \o <<n>>

Some(ns, Test(_)) == \E i \in DOMAIN ns : Test(ns[i])
All(ns, Test(_)) == \A i \in DOMAIN ns : Test(ns[i])

NamesIn(ns) == {ns[i].str : i \in {j \in DOMAIN ns : ns[j].type \in {"VARIABLE", "ASSIGN"}}}

(* A condition is one comparison, and there are no others: the generator   *)
(* takes the label before the one it makes for that of the comparison.     *)
Simple(e) == ~Some(Nodes(e), LAMBDA n : n.type \in Comparisons)
OneComparison(e) == e.type \in Comparisons /\ Simple(e.left) /\ Simple(e.right)

ConditionsOnly(n) ==
  CASE n.type \in {"IF", "WHILE"} -> OneComparison(n.cond)
    [] n.type \in Comparisons     -> Simple(n.left) /\ Simple(n.right)
    [] n.type = "ASSIGN"          -> Simple(n.right)
    [] n.type = "RETURN"          -> All(n.value, Simple)
    [] n.type = "CALL"            -> All(n.args, Simple)
    [] OTHER                      -> n.type \notin Arithmetic
                                     \/ (Simple(n.left) /\ Simple(n.right))

Disciplined(p) == \A d \in Functions(p) : All(Nodes(d), ConditionsOnly)
-----------------------------------------------------------------------------
(***************************************************************************)
(* The programs the generator and the assembler translate as they are      *)
(* meant.  Every rule is a limit of the code (the README lists them).      *)
(***************************************************************************)
Calls(ns) == Some(ns, IsCall)

(* One global, for its cell is the one below the frame of main.            *)
GlobalsFit(p) == Len(Globals(p)) <= 1 /\ All(Globals(p), LAMBDA n : n.right.type = "CONST")

(* Two registers for two arguments, and a call in the second one evaluated *)
(* would overwrite the first.                                              *)
ArgumentsFit(p, n) ==
  IsCall(n) =>
    /\ \E d \in Functions(p) : d.func = n.func /\ d.func # "MAIN"
                               /\ Len(d.params) = Len(n.args)
    /\ Len(n.args) <= 2
    /\ Len(n.args) = 2 => ~Calls(Nodes(n.args[1]))

BuiltinsFit(n) ==
  n.type = "CALL" /\ ~IsCall(n) =>
    Len(n.args) = IF n.func \in {"PRINT", "SQRT"} THEN 1 ELSE 0

(* A constant is printed with %g and read with %d, which is no more than   *)
(* six digits.                                                             *)
MaxPrinted == 1000000

(* A statement that is no more than an operation has the statements before *)
(* it for a left operand, a name or a number takes their place.            *)
NotBare(n) == n.type \notin {"CONST", "VARIABLE"} \cup Arithmetic \cup Comparisons

(* A value nobody takes stays on the operand stack, above the ex its       *)
(* function's caller saved there.                                          *)
LeavesNothing(n) == n.type = "CALL" => ~IsCall(n) /\ n.func \notin {"SCAN", "SQRT"}

BlocksOf(n) == CASE n.type = "IF"    -> <<n.then, n.else>>
                 [] n.type = "WHILE" -> <<n.body>>
                 [] OTHER            -> <<>>

Blocks(d) == {d.body} \cup UNION {ToSet(BlocksOf(Nodes(d)[i])) : i \in DOMAIN Nodes(d)}

(* A call that runs again, in a loop, uses the frame size of the names met *)
(* before it: a name first met later would lie in the callee's frame.      *)
FrameComplete(d) ==
  LET ns == Nodes(d)
  IN  \A i \in DOMAIN ns :
        ns[i].type = "WHILE" =>
          LET body  == Nodes(ns[i])
              start == i - Len(body)
              known == ToSet(d.params) \cup NamesIn(SubSeq(ns, 1, start))
          IN  Calls(body) => NamesIn(body) \subseteq known

(* Nothing after its last line keeps a function from running into the next. *)
RECURSIVE Returns(_)
Returns(ns) ==
  /\ ns # <<>>
  /\ \/ Last(ns).type = "RETURN"
     \/ Last(ns).type = "IF" /\ Returns(Last(ns).then) /\ Returns(Last(ns).else)

Translatable(d, p) ==
  LET ns == Nodes(d)
  IN  /\ All(ns, LAMBDA n : ArgumentsFit(p, n) /\ BuiltinsFit(n) /\ n.type # "POW")
      /\ All(ns, LAMBDA n : n.type = "CONST" => n.value < MaxPrinted)
      /\ \A b \in Blocks(d) : All(b, NotBare)
      /\ d.func = "MAIN" \/ \A b \in Blocks(d) : All(b, LeavesNothing)
      /\ d.func = "MAIN" \/ All(ns, LAMBDA n : n.type = "RETURN" => n.value # <<>>)
      /\ All(ns, LAMBDA n : n.type \in {"IF", "WHILE"} => BlocksOf(n)[1] # <<>>)
      /\ FrameComplete(d)
      /\ Returns(d.body)
      /\ Cardinality(NamesIn(ns) \cup ToSet(d.params)) <= NUMBERS_VARIABLE
      /\ ToSet(d.params) \cap NamesIn(Globals(p)) = {}

Supported(p) ==
  /\ \E d \in Functions(p) : d.func = "MAIN"
  /\ \A d, e \in Functions(p) : d.func = e.func => d = e
  /\ Cardinality(Functions(p)) <= NUMBERS_FUNCTION
  /\ GlobalsFit(p)
  /\ Disciplined(p)
  /\ \A d \in Functions(p) : Translatable(d, p)
=============================================================================
