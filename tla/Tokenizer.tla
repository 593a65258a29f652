----------------------------- MODULE Tokenizer ------------------------------
(***************************************************************************)
(* The tokenizer, src/Tokenizer.cpp: from the text of a program to the     *)
(* array of tokens.  A text is a string; every action is one round of the  *)
(* loop, with the blanks it begins with.                                   *)
(*                                                                         *)
(* One union is filled again and again and copied into the array, so what  *)
(* a token does not overwrite is of the token before.  A token is what the *)
(* parser can see of it: `kw' is the NodeType its first bytes are ("" for  *)
(* none), `id' the string they are, `value' the number.  Numbers are taken *)
(* to be digits alone, as strtod reads them (no fractions, exponents or    *)
(* hexadecimals), and below 2^30: the first byte of such a double is zero, *)
(* which is the empty string.                                              *)
(***************************************************************************)
EXTENDS Lexicon

CONSTANTS
  Texts,            (* the texts to split                                   *)
  BEGINING_SIZE,    (* tokens of the first block                            *)
  AllocOutcomes     (* may realloc succeed, may it fail                     *)

VARIABLES
  text, curOffset,
  token,            (* the union                                            *)
  tokens,           (* what has been stored, curToken of them               *)
  capacity, errorCode,
  room,             (* the tokens the block really has room for             *)
  scanned           (* "running", "done", or "undefined" outside of memory  *)

array == <<tokens, capacity, errorCode, room>>
vars  == <<text, curOffset, token, array, scanned>>

Zero == [kw |-> "CONST", id |-> "", value |-> 0]

Idle ==
  /\ curOffset = 0
  /\ token = Zero
  /\ tokens = <<>>
  /\ capacity = BEGINING_SIZE /\ room = BEGINING_SIZE
  /\ errorCode = "NO_ERROR"
  /\ scanned = "running"

Init == text \in Texts /\ Idle

-----------------------------------------------------------------------------
(* Where the words are looked for in this round.                           *)
At == Past(text, curOffset, Blanks)

Reading  == scanned = "running" /\ curOffset < Len(text)
ReadingA(chars) == Reading /\ At < Len(text) /\ Char(text, At) \in chars

(* The keywords that the text goes on with.                                *)
Matching ==
  LET at == At
  IN  {i \in DOMAIN KeyWords :
         /\ at + Len(KeyWords[i].word) <= Len(text)
         /\ SubSeq(text, at + 1, at + Len(KeyWords[i].word)) = KeyWords[i].word}

(* Variant: the array grows one token late.                                *)
AddElemLate(new) ==
  /\ token' = new
  /\ \E more \in AllocOutcomes :
       LET full  == Len(tokens) > capacity
           wider == IF full /\ more THEN 2 * capacity ELSE room
       IN  /\ capacity'  = IF full THEN 2 * capacity ELSE capacity
           /\ errorCode' = IF full /\ ~more THEN "REALLOC_ERROR" ELSE errorCode
           /\ room' = wider
           /\ IF Len(tokens) < wider
              THEN tokens' = Append(tokens, new) /\ UNCHANGED scanned
              ELSE scanned' = "undefined" /\ UNCHANGED tokens

(* Variant: the new size is not noted.                                     *)
AddElemForgets(new) ==
  /\ token' = new
  /\ \E more \in AllocOutcomes :
       LET full  == Len(tokens) >= capacity
           wider == IF full /\ more THEN 2 * capacity ELSE room
       IN  /\ capacity' = capacity
           /\ errorCode' = IF full /\ ~more THEN "REALLOC_ERROR" ELSE errorCode
           /\ room' = wider
           /\ IF Len(tokens) < wider
              THEN tokens' = Append(tokens, new) /\ UNCHANGED scanned
              ELSE scanned' = "undefined" /\ UNCHANGED tokens

(* AddElemInTokenArray with ReallocTokenArray, which asks for more room    *)
(* and is not asked whether it got it.                                     *)
AddElemInTokenArray(new) ==
  /\ token' = new
  /\ \E more \in AllocOutcomes :
       LET full  == Len(tokens) >= capacity
           wider == IF full /\ more THEN 2 * capacity ELSE room
       IN  /\ capacity'  = IF full THEN 2 * capacity ELSE capacity
           /\ errorCode' = IF full /\ ~more THEN "REALLOC_ERROR" ELSE errorCode
           /\ room' = wider
           /\ IF Len(tokens) < wider
              THEN tokens' = Append(tokens, new) /\ UNCHANGED scanned
              ELSE scanned' = "undefined" /\ UNCHANGED tokens

-----------------------------------------------------------------------------
(* A word that only begins with a keyword is split after it.               *)
KeyWord ==
  /\ Reading /\ Matching # {}
  /\ LET found == KeyWords[Min(Matching)]
     IN  /\ AddElemInTokenArray([kw |-> found.kw, id |-> found.kw, value |-> 0])
         /\ curOffset' = At + Len(found.word)
  /\ UNCHANGED text

(* The first half of a double is zero, which is CONST, if 21 bits hold it. *)
Short(v) == \E k \in 0 .. 9 : v < 2^(21 + k) /\ v % 2^k = 0

Number ==
  /\ ReadingA(Digits)
  /\ LET end == Past(text, At, Digits)
         v   == Value(SubSeq(text, At + 1, end))
     IN  /\ AddElemInTokenArray([kw |-> IF Short(v) THEN "CONST" ELSE "", id |-> "", value |-> v])
         /\ curOffset' = end
  /\ UNCHANGED text

Identifier ==
  /\ ReadingA(Letters) /\ Matching = {}
  /\ LET end == Past(text, At, InNames)
     IN  /\ AddElemInTokenArray([kw |-> "", id |-> "'" \o SubSeq(text, At + 1, end) \o "'",
                                 value |-> 0])
         /\ curOffset' = end
  /\ UNCHANGED text

(* Variant: the sign is not stepped over.                                  *)
DollarStays ==
  /\ ReadingA({"$"})
  /\ token' = [kw |-> IF token.kw = "" THEN "" ELSE "JE", id |-> "$", value |-> 0]
  /\ curOffset' = At
  /\ UNCHANGED <<text, array, scanned>>

(* Two of the bytes are written: with two zero bytes behind them they are  *)
(* 36, which is JE; after a name they are not.                             *)
Dollar ==
  /\ ReadingA({"$"})
  /\ AddElemInTokenArray([kw |-> IF token.kw = "" THEN "" ELSE "JE", id |-> "$", value |-> 0])
  /\ curOffset' = At + 1
  /\ UNCHANGED text

(* Nothing else is stepped over: the next round is like this one.          *)
Unknown ==
  /\ Reading /\ At < Len(text)
  /\ Char(text, At) \notin Digits \cup Letters \cup {"$"}
  /\ Matching = {}

UnknownCharacter ==
  /\ Unknown
  /\ curOffset' = At
  /\ UNCHANGED <<text, token, array, scanned>>

EndOfText ==
  /\ scanned = "running" /\ curOffset = Len(text)
  /\ scanned' = "done"
  /\ UNCHANGED <<text, curOffset, token, array>>

(* strchr finds the NUL at the end of the text among the blanks as well.   *)
LeaveText ==
  /\ Reading /\ At = Len(text)
  /\ scanned' = "undefined"
  /\ UNCHANGED <<text, curOffset, token, array>>

Next ==
  KeyWord \/ Number \/ Identifier \/ Dollar \/ UnknownCharacter \/ EndOfText \/ LeaveText

Spec == Init /\ [][Next]_vars

(* The loop goes on while it can.                                          *)
FairSpec == Spec /\ WF_vars(Next)

-----------------------------------------------------------------------------
TypeOK ==
  /\ curOffset \in 0 .. Len(text)
  /\ Len(tokens) <= room /\ room <= capacity
  /\ errorCode \in {"NO_ERROR", "REALLOC_ERROR"}
  /\ scanned \in {"running", "done", "undefined"}

(***************************************************************************)
(* Blanks at the end of a text are all that leads out of it: ReadFile cuts *)
(* off one character, so a file must end in one newline and nothing else.  *)
(***************************************************************************)
LeavesOnlyAtBlanks ==
  scanned = "undefined" /\ errorCode = "NO_ERROR" =>
    Char(text, Len(text) - 1) \in Blanks

(***************************************************************************)
(* The loop ends, unless it meets a character that begins no token: then   *)
(* it is there for ever.                                                   *)
(***************************************************************************)
EndsOrMeetsUnknown == <>(scanned # "running" \/ Unknown)
=============================================================================
