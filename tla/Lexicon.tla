------------------------------ MODULE Lexicon -------------------------------
(***************************************************************************)
(* The words of Lazy C, include/Keyworld.h, and the kinds of characters    *)
(* src/Tokenizer.cpp tells apart.  A text is a string, its offsets begin   *)
(* with 0.                                                                 *)
(***************************************************************************)
EXTENDS Integers, Sequences, SequencesExt

(* Keyworld.h, in the order in which the words are tried.                  *)
KeyWords ==
  <<[word |-> "main",   kw |-> "MAIN"],   [word |-> "scan",    kw |-> "SCAN"],
    [word |-> "print",  kw |-> "PRINT"],  [word |-> "pCdot",   kw |-> "P_CDOT"],
    [word |-> "pSpace", kw |-> "P_SPACE"], [word |-> "newLine", kw |-> "NEW_LINE"],
    [word |-> "sqrt",   kw |-> "SQRT"],   [word |-> "return",  kw |-> "RETURN"],
    [word |-> "if",     kw |-> "IF"],     [word |-> "else",    kw |-> "ELSE"],
    [word |-> "while",  kw |-> "WHILE"],  [word |-> "=",       kw |-> "ASSIGN"],
    [word |-> "{",      kw |-> "LSB"],    [word |-> "}",       kw |-> "RSB"],
    [word |-> "(",      kw |-> "LB"],     [word |-> ")",       kw |-> "RB"],
    [word |-> "[",      kw |-> "LAB"],    [word |-> "]",       kw |-> "RAB"],
    [word |-> ",",      kw |-> "COMMA"],  [word |-> ";",       kw |-> "SEMICOLON"],
    [word |-> "+",      kw |-> "ADD"],    [word |-> "-",       kw |-> "SUB"],
    [word |-> "*",      kw |-> "MUL"],    [word |-> "/",       kw |-> "DIV"],
    [word |-> "^",      kw |-> "POW"],    [word |-> ">",       kw |-> "JA"],
    [word |-> "<",      kw |-> "JB"],     [word |-> "rr",      kw |-> "JE"],
    [word |-> "br",     kw |-> "JAE"],    [word |-> "mr",      kw |-> "JBE"],
    [word |-> "!=",     kw |-> "JNE"]>>

Chars(s) == {SubSeq(s, i, i) : i \in 1 .. Len(s)}

Blanks  == Chars(" \n\t")
Digits  == Chars("0123456789")
Letters == Chars("abcdefghijklmnopqrstuvwxyzABCDEFGHIJKLMNOPQRSTUVWXYZ")
(* Variant: names have no digits in them.                                  *)
InNamesLetters == Letters \cup {"_"}

InNames == Letters \cup Digits \cup {"_"}

Value(digits) ==
  FoldLeft(LAMBDA v, i : 10 * v + (CHOOSE d \in 0 .. 9 : ToString(d) = SubSeq(digits, i, i)),
           0, [i \in 1 .. Len(digits) |-> i])

Char(s, i) == SubSeq(s, i + 1, i + 1)

(* The first offset from i on whose character is not in the set.           *)
Past(s, i, chars) ==
  CHOOSE j \in i .. Len(s) :
    /\ j = Len(s) \/ Char(s, j) \notin chars
    /\ \A k \in i .. j-1 : Char(s, k) \in chars
=============================================================================
