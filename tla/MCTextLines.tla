----------------------------- MODULE MCTextLines ----------------------------
(* Every text of at most MaxLength characters, of one letter, the blank    *)
(* space between words being no different.                                 *)
EXTENDS TextLines

CONSTANTS Letter, MaxLength

MCFiles == UNION {[1 .. n -> {Letter, Newline, Semicolon}] : n \in 0 .. MaxLength}
=============================================================================
