----------------------------- MODULE MCFrontEnd -----------------------------
(***************************************************************************)
(* The front end on files: programs written out, with one newline at the   *)
(* end or another ending, and files that hold no program.                  *)
(***************************************************************************)
EXTENDS FrontEnd, Integers

L == INSTANCE LazyCPrograms
Source == INSTANCE LazyC WITH DepthRecursion <- 1, MaxFuel <- 1, MaxInt <- 127

Spelling(t) ==
  CASE t.kw = "CONST" -> ToString(t.value)
    [] t.kw = ""      -> SubSeq(t.id, 2, Len(t.id) - 1)
    [] OTHER          -> LET k == CHOOSE k \in ToSet(Scanner!KeyWords) : k.kw = t.kw IN k.word

(* A program as text, its words apart.                                     *)
RECURSIVE Joined(_)
Joined(words) ==
  LET half == Len(words) \div 2
  IN  IF half = 0 THEN Spelling(words[1])
      ELSE Joined(SubSeq(words, 1, half)) \o " " \o Joined(SubSeq(words, half + 1, Len(words)))

Spelled(p) == Joined(Syntax!Items(p))

MCPrograms == L!Meant \cup L!Limits \cup L!Numbers

MCFiles ==
  {Spelled(p) \o "\n" : p \in MCPrograms \cup L!Bare}
  \cup {Spelled(L!Factorial) \o ending : ending \in {"", "\n\n", " \n"}}
  \cup {"", "\n", "main\n", "main() { x = 1 }\n", "main() { x = 1 ? 2; }\n",
        "main() { x[1] = 2; x = 1 + ;; return; }\n"}

MCBeyond == {Syntax!Name("'x'")}

(***************************************************************************)
(* A program the generator supports, in a file that ends in one newline,   *)
(* goes through all of the front end: no part of it aborts or leaves its   *)
(* memory, and the end is one where code was generated.                    *)
(***************************************************************************)
SupportedGoesThrough ==
  phase \in {"abort", "undefined"} \/ (phase = "exited" /\ generated # "done") =>
    \A p \in MCPrograms : Source!Supported(p) => file # Spelled(p) \o "\n"
=============================================================================
