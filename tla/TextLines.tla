------------------------------ MODULE TextLines -----------------------------
(***************************************************************************)
(* How the assembler takes asm.txt apart into lines: fillStructLine and    *)
(* discardComments of CPU/Assembler/main.cpp with the file helpers they    *)
(* call.  The text stays in one block; lines are places in it, ended by    *)
(* the NULs that overwrite newlines and the first character of a comment.  *)
(***************************************************************************)
EXTENDS Integers, Sequences, FiniteSets

CONSTANTS
  Files,          (* the texts, sequences of characters                     *)
  NUL, Newline, Semicolon

ASSUME FilesAssumption == \A f \in Files : f \in Seq({f[i] : i \in DOMAIN f})
(* Different characters have different codes.                              *)
ASSUME CharactersAssumption == NUL # Newline /\ NUL # Semicolon /\ Newline # Semicolon

VARIABLES
  file,           (* what asm.txt holds                                     *)
  str,            (* the block: the file and one NUL more                   *)
  at,             (* the loop variable, an offset or a line                 *)
  linesCount,
  lines,          (* where the lines begin                                  *)
  stage           (* "open", "count", "split", "discard", "done", "abort"   *)

vars == <<file, str, at, linesCount, lines, stage>>

Init ==
  /\ file \in Files
  /\ str = <<>> /\ at = 0 /\ linesCount = 0 /\ lines = <<>>
  /\ stage = "open"

Char(i) == str[i + 1]

-----------------------------------------------------------------------------
(* Any call that fails, and an empty file, ends in an assertion: of        *)
(* readFile, or of discardComments, which gets no lines.                   *)
OpenFile ==
  /\ stage = "open"
  /\ \/ /\ file # <<>>
        /\ str' = Append(file, NUL)
        /\ stage' = "count"
     \/ /\ stage' = "abort" /\ UNCHANGED str
  /\ UNCHANGED <<file, at, linesCount, lines>>

(* Variant: a newline that ends the file is counted for both.              *)
CountTwice ==
  /\ stage = "count" /\ at < Len(file)
  /\ linesCount' = linesCount + (IF Char(at) = Newline THEN 1 ELSE 0)
                              + (IF at + 1 = Len(file) THEN 1 ELSE 0)
  /\ str' = IF Char(at) = Newline \/ at + 1 = Len(file) THEN [str EXCEPT ![at + 1] = NUL]
            ELSE str
  /\ at' = at + 1
  /\ UNCHANGED <<file, lines, stage>>

(* countNumberLines, which also cuts the lines: at newlines and at the     *)
(* last character, whatever it is.                                         *)
CountLine ==
  /\ stage = "count" /\ at < Len(file)
  /\ IF Char(at) = Newline \/ at + 1 = Len(file)
     THEN linesCount' = linesCount + 1 /\ str' = [str EXCEPT ![at + 1] = NUL]
     ELSE UNCHANGED <<linesCount, str>>
  /\ at' = at + 1
  /\ UNCHANGED <<file, lines, stage>>

EndOfCount ==
  /\ stage = "count" /\ at = Len(file)
  /\ at' = 0 /\ stage' = "split"
  /\ UNCHANGED <<file, str, linesCount, lines>>

(* findNextLine looks for a NUL and has no other end.                      *)
FindNextLine(i) ==
  LET ends == {j \in i .. Len(str) - 1 : Char(j) = NUL}
  IN  IF ends = {} THEN Len(str) + 1
      ELSE (CHOOSE j \in ends : \A k \in ends : j <= k) + 1

(* splitToLines: `at' is ptrStr.                                           *)
SplitLine ==
  /\ stage = "split" /\ Len(lines) < linesCount
  /\ lines' = Append(lines, at)
  /\ at' = FindNextLine(at)
  /\ UNCHANGED <<file, str, linesCount, stage>>

EndOfSplit ==
  /\ stage = "split" /\ Len(lines) = linesCount
  /\ at' = 1 /\ stage' = "discard"
  /\ UNCHANGED <<file, str, linesCount, lines>>

(* Variant: the last semicolon is taken.                                   *)
LastComment(i) ==
  {j \in i .. FindNextLine(i) - 1 :
     Char(j) = Semicolon /\ \A k \in j .. FindNextLine(i) - 1 : k > j => Char(k) # Semicolon}

(* Where the comment of the line that begins at i begins, if it has one.   *)
FirstComment(i) ==
  {j \in i .. FindNextLine(i) - 1 :
     Char(j) = Semicolon /\ \A k \in i .. j : k < j => Char(k) # Semicolon}

DiscardComment ==
  /\ stage = "discard" /\ at <= linesCount
  /\ str' = [i \in DOMAIN str |-> IF i - 1 \in FirstComment(lines[at]) THEN NUL ELSE str[i]]
  /\ at' = at + 1
  /\ UNCHANGED <<file, linesCount, lines, stage>>

EndOfDiscard ==
  /\ stage = "discard" /\ at > linesCount
  /\ stage' = "done"
  /\ UNCHANGED <<file, str, at, linesCount, lines>>

Ended == stage \in {"done", "abort"} /\ UNCHANGED vars

Next ==
  \/ OpenFile \/ CountLine \/ EndOfCount \/ SplitLine \/ EndOfSplit \/ DiscardComment
  \/ EndOfDiscard \/ Ended

Spec == Init /\ [][Next]_vars

-----------------------------------------------------------------------------
(***************************************************************************)
(* Every line begins in what was read, and ends there: the walk from NUL   *)
(* to NUL, which has no bound of its own, takes as many steps as lines     *)
(* were counted.                                                           *)
(***************************************************************************)
LinesInTheFile ==
  \A k \in DOMAIN lines : lines[k] < Len(file) /\ FindNextLine(lines[k]) <= Len(file)

(* The line at i as a C string.                                            *)
LineAt(i) == SubSeq(str, i + 1, FindNextLine(i) - 1)

(* What stands in the file: the pieces between newlines, up to a comment.  *)
(* The last character is taken for a newline.                              *)
Breaks   == {0} \cup {i \in 1 .. Len(file) : file[i] = Newline} \cup {Len(file)}
Begin(k) == CHOOSE i \in Breaks : Cardinality(Breaks \cap 1 .. i) = k - 1
Piece(k) ==
  LET first == Begin(k) + 1
      stops == {i \in first .. Len(file) : i \in Breaks \/ file[i] = Semicolon}
  IN  SubSeq(file, first, (CHOOSE i \in stops : \A j \in stops : i <= j) - 1)

(***************************************************************************)
(* The lines are those of the file, without their comments: no comment     *)
(* reaches into the next line and no line is lost, at the end of the file  *)
(* either.  What is lost is the last character of a file without a newline *)
(* at its end.                                                             *)
(***************************************************************************)
LinesAsWritten ==
  stage = "done" =>
    /\ Len(lines) + 1 = Cardinality(Breaks)
    /\ \A k \in DOMAIN lines : LineAt(lines[k]) = Piece(k)
=============================================================================
