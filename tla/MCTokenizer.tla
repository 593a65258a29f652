---------------------------- MODULE MCTokenizer -----------------------------
(***************************************************************************)
(* The tokenizer on every short text over pieces of words, signs and       *)
(* blanks, and on a whole program.                                         *)
(***************************************************************************)
EXTENDS Tokenizer

S == INSTANCE Syntax
L == INSTANCE LazyCPrograms

(***************************************************************************)
(* A text read as C reads it: a word ends where the letters, digits and    *)
(* underscores end, and is a keyword if it is one as a whole.              *)
(***************************************************************************)
WordFor(chars) ==
  IF \E i \in DOMAIN KeyWords : KeyWords[i].word = chars
  THEN S!Kw((CHOOSE k \in ToSet(KeyWords) : k.word = chars).kw)
  ELSE S!Name(IF chars = "$" THEN chars ELSE "'" \o chars \o "'")

InWords == Letters \cup Digits \cup {"_"}

RECURSIVE Read(_, _)
Read(s, i) ==
  LET c == Char(s, i)
      end == CASE c \in Letters -> Past(s, i, InWords)
               [] c \in Digits  -> Past(s, i, Digits)
               [] c = "!"       -> i + 2
               [] OTHER         -> i + 1
      chars == SubSeq(s, i + 1, end)
  IN  IF i >= Len(s) THEN <<>>
      ELSE IF c \in Blanks THEN Read(s, i + 1)
      ELSE <<IF c \in Digits THEN S!Num(Value(chars)) ELSE WordFor(chars)>> \o Read(s, end)

(* No name begins with a keyword.                                          *)
NoneSplit ==
  \A t \in ToSet(Read(text, 0)), k \in ToSet(KeyWords) :
    t.kw = "" /\ Len(t.id) - 2 > Len(k.word) => SubSeq(t.id, 2, Len(k.word) + 1) # k.word

(* A dollar sign is also a keyword after some tokens; that is left out.    *)
Seen(t) == IF t.id = "$" THEN S!Name("$") ELSE t

(***************************************************************************)
(* The tokens of a text are the words it has when it is read as C, but for *)
(* names that begin with a keyword: words, numbers and signs are told      *)
(* apart with and without blanks between them, each is taken once, and     *)
(* none is passed over.                                                    *)
(***************************************************************************)
TokensAsWritten ==
  scanned = "done" /\ NoneSplit =>
    [i \in DOMAIN tokens |-> Seen(tokens[i])] = Read(text, 0)

-----------------------------------------------------------------------------
Pieces == {"x", "if", "main", "rr", "1", "25", "_", " ", "\n", "=", "(", ";", "!", "!=", "$", "?"}

Joined(pieces) == FoldLeft(LAMBDA s, p : s \o p, "", pieces)

MCTexts ==
  {Joined(p) : p \in UNION {[1 .. k -> Pieces] : k \in 0 .. 3}}
  \cup {"main()\n{\n\tn = scan();\n\tn = fac(n);\n\tprint(n);\n\treturn;\n}\n\n"
        \o "fac(n)\n{\n\tif (n rr 0)\n\t{\n\t\treturn 1;\n\t}\n\treturn fac(n - 1) * n;\n}"}

MCAlloc == BOOLEAN
=============================================================================
