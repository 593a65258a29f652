--------------------------- MODULE TextLinesProofs ---------------------------
(***************************************************************************)
(* The walk of splitToLines from NUL to NUL stays in what was read, for    *)
(* every text: it takes one NUL for every line, and countNumberLines has   *)
(* written at least as many of them as it has counted lines.  A NUL once   *)
(* written is never overwritten, so the lines end where they ended.  In a  *)
(* text without a NUL the lines are moreover those of the file, cut at     *)
(* their comments.                                                         *)
(***************************************************************************)
EXTENDS TextLines, FiniteSetTheorems, WellFoundedInduction, TLAPS

Characters == {file[i] : i \in DOMAIN file} \cup {NUL}

(* The NULs from i on among the first n characters of s.                   *)
Nuls(s, n, i) == {j \in i .. n - 1 : s[j + 1] = NUL}

Ends(s, n, i) == i \in Nat /\ Nuls(s, n, i) # {}

LinesInv ==
  /\ file \in Files /\ linesCount \in Nat /\ lines \in Seq(Nat)
  /\ stage \in {"open", "abort"} => lines = <<>> /\ at = 0 /\ linesCount = 0
  /\ stage \notin {"open", "abort"} =>
       str \in Seq(Characters) /\ Len(str) = Len(file) + 1 /\ at \in Nat
  /\ stage = "count" => /\ lines = <<>> /\ at <= Len(file)
                        /\ linesCount <= Cardinality(Nuls(str, at, 0))
  /\ stage = "split" => linesCount <= Len(lines) + Cardinality(Nuls(str, Len(file), at))
  /\ \A k \in DOMAIN lines : Ends(str, Len(file), lines[k])

-----------------------------------------------------------------------------
LEMMA FileIsSeq ==
  ASSUME file \in Files
  PROVE  /\ file \in Seq(Characters) /\ Len(file) \in Nat
         /\ DOMAIN file = 1 .. Len(file)
<1>1. file \in Seq({file[i] : i \in DOMAIN file})
  BY FilesAssumption
<1>2. \A i \in 1 .. Len(file) : file[i] \in Characters
  BY <1>1 DEF Characters
<1>. QED
  BY <1>1, <1>2

LEMMA NulsFinite ==
  ASSUME NEW s, NEW n \in Nat, NEW i \in Nat
  PROVE  /\ IsFiniteSet(Nuls(s, n, i)) /\ Nuls(s, n, i) \subseteq Nat
         /\ Cardinality(Nuls(s, n, i)) \in Nat
<1>1. IsFiniteSet(i .. n - 1)
  BY FS_Interval
<1>2. Nuls(s, n, i) \subseteq i .. n - 1
  BY DEF Nuls
<1>3. IsFiniteSet(Nuls(s, n, i))
  BY <1>1, <1>2, FS_Subset
<1>. QED
  BY <1>2, <1>3, FS_CardinalityType

(* findNextLine stops behind the first NUL, if there is one.               *)
LEMMA NextLine ==
  ASSUME NEW n \in Nat, Len(str) = n + 1, NEW i, Ends(str, n, i)
  PROVE  /\ FindNextLine(i) - 1 \in Nuls(str, n, i)
         /\ \A k \in Nuls(str, n, i) : FindNextLine(i) - 1 <= k
         /\ i < n /\ FindNextLine(i) \in 1 .. n
<1>. DEFINE S == {j \in i .. Len(str) - 1 : Char(j) = NUL}
<1>1. Nuls(str, n, i) \subseteq S /\ S \subseteq Nat /\ S # {}
  BY DEF Nuls, Ends, Char
<1>2. \E j \in S : \A k \in S : j <= k
  <2>1. S \in SUBSET Nat /\ S # {}
    BY <1>1
  <2>. HIDE DEF S
  <2>2. \E j \in S : \A k \in S : ~ (<<k, j>> \in OpToRel(<, Nat))
    BY <2>1, WFMin, NatLessThanWellFounded
  <2>3. \A j, k \in S : j <= k \/ <<k, j>> \in OpToRel(<, Nat)
    BY <2>1 DEF OpToRel
  <2>. QED
    BY <2>2, <2>3
<1>. DEFINE j == CHOOSE m \in S : \A k \in S : m <= k
<1>3. FindNextLine(i) = j + 1
  BY <1>1 DEF FindNextLine
<1>4. j \in S /\ \A k \in S : j <= k
  BY <1>2
<1>5. PICK m \in Nuls(str, n, i) : TRUE
  BY DEF Ends
<1>6. m \in S /\ m \in i .. n - 1
  BY <1>1, <1>5 DEF Nuls
<1>7. j <= m /\ j \in i .. n - 1 /\ Char(j) = NUL
  <2>1. j <= m
    BY <1>4, <1>6
  <2>2. j \in i .. Len(str) - 1 /\ Char(j) = NUL /\ i \in Nat
    BY <1>4 DEF Ends
  <2>. HIDE DEF j, S
  <2>. QED
    BY <1>6, <2>1, <2>2
<1>. HIDE DEF j
<1>8. j \in Nuls(str, n, i) /\ \A k \in Nuls(str, n, i) : j <= k
  BY <1>1, <1>4, <1>7 DEF Nuls, Char
<1>. QED
  BY <1>3, <1>7, <1>8 DEF Ends

LEMMA NulsBehindFirst ==
  ASSUME NEW s, NEW n \in Nat, NEW i \in Nat, NEW j \in Nuls(s, n, i),
         \A k \in Nuls(s, n, i) : j <= k
  PROVE  Nuls(s, n, j + 1) = Nuls(s, n, i) \ {j}
<1>1. j \in i .. n - 1 /\ j \in Nat
  BY DEF Nuls
<1>2. ASSUME NEW k \in Nuls(s, n, j + 1) PROVE k \in Nuls(s, n, i) \ {j}
  BY <1>1 DEF Nuls
<1>3. ASSUME NEW k \in Nuls(s, n, i) \ {j} PROVE k \in Nuls(s, n, j + 1)
  <2>1. j <= k /\ k # j /\ k \in i .. n - 1 /\ s[k + 1] = NUL
    BY DEF Nuls
  <2>. QED
    BY <1>1, <2>1 DEF Nuls
<1>. QED
  BY <1>2, <1>3

(* What is written over is written over with NULs.                         *)
LEMMA EndsStay ==
  ASSUME NEW s, NEW t, NEW n \in Nat, NEW i, Ends(s, n, i),
         \A j \in 1 .. n : s[j] = NUL => t[j] = NUL
  PROVE  Ends(t, n, i)
BY DEF Ends, Nuls

-----------------------------------------------------------------------------
LEMMA OpenStep == LinesInv /\ OpenFile => LinesInv'
<1>. SUFFICES ASSUME LinesInv, OpenFile PROVE LinesInv'
  OBVIOUS
<1>1. /\ UNCHANGED <<file, at, linesCount, lines>>
      /\ file \in Files /\ lines = <<>> /\ at = 0 /\ linesCount = 0
  BY DEF LinesInv, OpenFile
<1>2. file \in Seq(Characters) /\ Len(file) \in Nat
  BY <1>1, FileIsSeq
<1>3. CASE stage' = "abort"
  BY <1>1, <1>3 DEF LinesInv
<1>4. CASE str' = Append(file, NUL) /\ stage' = "count"
  <2>1. str' \in Seq(Characters) /\ Len(str') = Len(file) + 1
    BY <1>2, <1>4 DEF Characters
  <2>2. Characters' = Characters
    BY <1>1 DEF Characters
  <2>3. linesCount' <= Cardinality(Nuls(str', at', 0))
    <3>1. Cardinality(Nuls(str', 0, 0)) \in Nat
      BY NulsFinite
    <3>. QED
      BY <1>1, <3>1
  <2>. QED
    BY <1>1, <1>2, <1>4, <2>1, <2>2, <2>3 DEF LinesInv
<1>. QED
  BY <1>3, <1>4 DEF OpenFile

(* A line counted is a NUL more before the place looked at.                *)
LEMMA CountStep == LinesInv /\ CountLine => LinesInv'
<1>. SUFFICES ASSUME LinesInv, CountLine PROVE LinesInv'
  OBVIOUS
<1>1. /\ stage = "count" /\ at \in Nat /\ at < Len(file) /\ at' = at + 1
      /\ UNCHANGED <<file, lines, stage>> /\ lines = <<>> /\ file \in Files
      /\ str \in Seq(Characters) /\ Len(str) = Len(file) + 1 /\ linesCount \in Nat
      /\ linesCount <= Cardinality(Nuls(str, at, 0))
  BY DEF LinesInv, CountLine
<1>2. Len(file) \in Nat /\ Characters' = Characters
  BY <1>1, FileIsSeq DEF Characters
<1>. DEFINE before == Nuls(str, at, 0)
            now    == Nuls(str', at + 1, 0)
<1>3. /\ IsFiniteSet(now) /\ IsFiniteSet(before) /\ at \notin before
      /\ Cardinality(now) \in Nat /\ Cardinality(before) \in Nat
  <2>1. at \notin before
    BY <1>1 DEF Nuls
  <2>2. at + 1 \in Nat
    BY <1>1
  <2>. QED
    BY <1>1, <2>1, <2>2, NulsFinite
<1>4. CASE UNCHANGED <<linesCount, str>>
  <2>1. before \subseteq now
    BY <1>1, <1>4 DEF Nuls
  <2>2. Cardinality(before) <= Cardinality(now)
    BY <1>3, <2>1, FS_Subset
  <2>3. linesCount' <= Cardinality(now) /\ linesCount' \in Nat
    BY <1>1, <1>3, <1>4, <2>2
  <2>. QED
    BY <1>1, <1>2, <1>4, <2>3 DEF LinesInv
<1>5. CASE linesCount' = linesCount + 1 /\ str' = [str EXCEPT ![at + 1] = NUL]
  <2>1. str' \in Seq(Characters) /\ Len(str') = Len(file) + 1
    BY <1>1, <1>2, <1>5 DEF Characters
  <2>2. str'[at + 1] = NUL /\ \A i \in DOMAIN str : i # at + 1 => str'[i] = str[i]
    BY <1>1, <1>2, <1>5
  <2>3. before \cup {at} \subseteq now
    <3>1. at \in now
      BY <1>1, <2>2 DEF Nuls
    <3>2. ASSUME NEW j \in before PROVE j \in now
      BY <1>1, <1>2, <2>2 DEF Nuls
    <3>. QED
      BY <3>1, <3>2
  <2>4. Cardinality(before \cup {at}) = Cardinality(before) + 1
    BY <1>3, FS_AddElement
  <2>5. Cardinality(before) + 1 <= Cardinality(now)
    BY <1>3, <2>3, <2>4, FS_Subset
  <2>6. linesCount' <= Cardinality(now) /\ linesCount' \in Nat
    BY <1>1, <1>3, <1>5, <2>5
  <2>. QED
    BY <1>1, <1>2, <2>1, <2>6 DEF LinesInv
<1>. QED
  BY <1>4, <1>5 DEF CountLine

LEMMA EndOfCountStep == LinesInv /\ EndOfCount => LinesInv'
<1>. SUFFICES ASSUME LinesInv, EndOfCount PROVE LinesInv'
  OBVIOUS
<1>1. /\ stage = "count" /\ stage' = "split" /\ at' = 0 /\ at = Len(file)
      /\ UNCHANGED <<file, str, linesCount, lines>> /\ file \in Files /\ lines = <<>>
      /\ linesCount \in Nat /\ linesCount <= Cardinality(Nuls(str, at, 0))
      /\ str \in Seq(Characters) /\ Len(str) = Len(file) + 1
  BY DEF LinesInv, EndOfCount
<1>2. Len(file) \in Nat /\ Characters' = Characters
  BY <1>1, FileIsSeq DEF Characters
<1>3. linesCount' <= Len(lines') + Cardinality(Nuls(str', Len(file'), at'))
  <2>1. Cardinality(Nuls(str, Len(file), 0)) \in Nat /\ Len(lines') = 0
    BY <1>1, <1>2, NulsFinite
  <2>. QED
    BY <1>1, <2>1
<1>. QED
  BY <1>1, <1>2, <1>3 DEF LinesInv

(* A line split off takes one NUL.                                         *)
LEMMA SplitStep == LinesInv /\ SplitLine => LinesInv'
<1>. SUFFICES ASSUME LinesInv, SplitLine PROVE LinesInv'
  OBVIOUS
<1>. DEFINE n    == Len(file)
            left == Nuls(str, n, at)
            j    == FindNextLine(at) - 1
<1>1. /\ stage = "split" /\ at \in Nat /\ Len(lines) < linesCount
      /\ lines' = Append(lines, at) /\ at' = FindNextLine(at)
      /\ UNCHANGED <<file, str, linesCount, stage>> /\ file \in Files
      /\ lines \in Seq(Nat) /\ linesCount \in Nat
      /\ str \in Seq(Characters) /\ Len(str) = n + 1
      /\ linesCount <= Len(lines) + Cardinality(left)
      /\ \A k \in DOMAIN lines : Ends(str, n, lines[k])
  BY DEF LinesInv, SplitLine
<1>2. n \in Nat /\ Characters' = Characters
  BY <1>1, FileIsSeq DEF Characters
<1>3. IsFiniteSet(left) /\ Cardinality(left) \in Nat
  BY <1>1, <1>2, NulsFinite
<1>4. Ends(str, n, at)
  <2>1. Cardinality(left) # 0
    BY <1>1, <1>3
  <2>. QED
    BY <1>1, <2>1, FS_EmptySet DEF Ends
<1>5. j \in left /\ (\A k \in left : j <= k) /\ at' = j + 1 /\ at' \in Nat
  BY <1>1, <1>2, <1>4, NextLine
<1>. HIDE DEF j
<1>6. Nuls(str, n, at') = left \ {j}
  BY <1>1, <1>2, <1>5, NulsBehindFirst
<1>7. Cardinality(left \ {j}) = Cardinality(left) - 1
  BY <1>3, <1>5, FS_RemoveElement
<1>. HIDE DEF left
<1>8. linesCount' <= Len(lines') + Cardinality(Nuls(str', n, at'))
  BY <1>1, <1>3, <1>6, <1>7
<1>9. lines' \in Seq(Nat) /\ \A k \in DOMAIN lines' : Ends(str', n, lines'[k])
  <2>1. /\ lines' \in Seq(Nat) /\ Len(lines') = Len(lines) + 1
        /\ lines'[Len(lines) + 1] = at
        /\ \A k \in 1 .. Len(lines) : lines'[k] = lines[k]
    BY <1>1
  <2>2. \A k \in DOMAIN lines' : k \in DOMAIN lines \/ k = Len(lines) + 1
    BY <1>1, <2>1
  <2>. QED
    BY <1>1, <1>4, <2>1, <2>2
<1>. QED
  BY <1>1, <1>2, <1>5, <1>8, <1>9 DEF LinesInv

LEMMA DiscardStep == LinesInv /\ DiscardComment => LinesInv'
<1>. SUFFICES ASSUME LinesInv, DiscardComment PROVE LinesInv'
  OBVIOUS
<1>. DEFINE n == Len(file)
<1>1. /\ stage = "discard" /\ at' = at + 1 /\ at \in Nat
      /\ UNCHANGED <<file, linesCount, lines, stage>> /\ file \in Files
      /\ lines \in Seq(Nat) /\ linesCount \in Nat
      /\ str \in Seq(Characters) /\ Len(str) = n + 1
      /\ \A k \in DOMAIN lines : Ends(str, n, lines[k])
      /\ str' = [i \in DOMAIN str |-> IF i - 1 \in FirstComment(lines[at]) THEN NUL ELSE str[i]]
  BY DEF LinesInv, DiscardComment
<1>2. n \in Nat /\ Characters' = Characters
  BY <1>1, FileIsSeq DEF Characters
<1>3. DOMAIN str = 1 .. n + 1 /\ \A i \in 1 .. n + 1 : str[i] \in Characters
  BY <1>1, <1>2
<1>4. str' \in Seq(Characters) /\ Len(str') = n + 1
  <2>1. str' \in [1 .. n + 1 -> Characters]
    BY <1>1, <1>3 DEF Characters
  <2>. QED
    BY <1>2, <2>1
<1>5. \A i \in 1 .. n : str[i] = NUL => str'[i] = NUL
  BY <1>1, <1>2, <1>3
<1>6. \A k \in DOMAIN lines' : Ends(str', n, lines'[k])
  BY <1>1, <1>2, <1>5, EndsStay
<1>. QED
  BY <1>1, <1>2, <1>4, <1>6 DEF LinesInv

LEMMA OtherStages ==
  LinesInv /\ (EndOfSplit \/ EndOfDiscard \/ UNCHANGED vars) => LinesInv'
<1>1. LinesInv /\ EndOfSplit => LinesInv'
  BY DEF LinesInv, EndOfSplit, Characters
<1>2. LinesInv /\ EndOfDiscard => LinesInv'
  BY DEF LinesInv, EndOfDiscard, Characters
<1>3. LinesInv /\ UNCHANGED vars => LinesInv'
  BY DEF LinesInv, vars, Characters
<1>. QED
  BY <1>1, <1>2, <1>3

-----------------------------------------------------------------------------
(***************************************************************************)
(* The inductive invariant of the stages, for every set of texts.          *)
(***************************************************************************)
THEOREM LinesInvariant == Spec => []LinesInv
<1>1. Init => LinesInv
  BY DEF Init, LinesInv
<1>2. LinesInv /\ [Next]_vars => LinesInv'
  BY OpenStep, CountStep, EndOfCountStep, SplitStep, DiscardStep, OtherStages
  DEF Next, Ended
<1>. QED
  BY <1>1, <1>2, PTL DEF Spec

(***************************************************************************)
(* Every line begins and ends in what was read, however the newlines and   *)
(* semicolons of the text lie and whether or not a newline ends it.        *)
(***************************************************************************)
THEOREM LinesStayInTheFile == Spec => []LinesInTheFile
<1>1. LinesInv => LinesInTheFile
  <2>. SUFFICES ASSUME LinesInv, NEW k \in DOMAIN lines
                PROVE  lines[k] < Len(file) /\ FindNextLine(lines[k]) <= Len(file)
    BY DEF LinesInTheFile
  <2>1. stage \notin {"open", "abort"} /\ Ends(str, Len(file), lines[k]) /\ file \in Files
    BY DEF LinesInv
  <2>2. Len(file) \in Nat /\ Len(str) = Len(file) + 1
    BY <2>1, FileIsSeq DEF LinesInv
  <2>. QED
    BY <2>1, <2>2, NextLine
<1>. QED
  BY <1>1, LinesInvariant, PTL

-----------------------------------------------------------------------------
(***************************************************************************)
(* The lines are those of the file.  To LinesInv this adds what the        *)
(* characters are at each stage: those of the file, but for the breaks     *)
(* passed so far and the semicolons of the lines cut so far; and which     *)
(* break each line begins behind.  A text of C strings has no NUL in it.   *)
(***************************************************************************)
TextFiles == \A f \in Files : \A i \in DOMAIN f : f[i] # NUL

(* How many breaks there are up to i, but for the one before the text.     *)
BreaksTo(i) == Cardinality(Breaks \cap 1 .. i)

(* The semicolon the comment of the line behind the break b begins with.   *)
FirstSemicolon(b) ==
  {i \in b + 1 .. Len(file) :
     /\ file[i] = Semicolon
     /\ \A j \in b + 1 .. i : j \notin Breaks /\ (j < i => file[j] # Semicolon)}

(* A line begins behind a break: the k-th one behind the (k-1)-st.         *)
BeginsAt(k, b) == b \in Breaks /\ b < Len(file) /\ BreaksTo(b) = k - 1

(* The text with the characters of the set overwritten.                    *)
Overwritten(set) ==
  \A i \in 1 .. Len(file) : str[i] = IF i \in set THEN NUL ELSE file[i]

(* The comments of the lines before the k-th.                              *)
CommentsCut(k) == UNION {FirstSemicolon(lines[m]) : m \in 1 .. k - 1}

WrittenInv ==
  /\ LinesInv
  /\ stage \in {"open", "count", "split", "discard", "done", "abort"}
  /\ stage \notin {"open", "abort"} => file # <<>>
  /\ stage = "count" => Overwritten(Breaks \cap 1 .. at) /\ linesCount = BreaksTo(at)
  /\ stage \in {"split", "discard", "done"} =>
       /\ linesCount = BreaksTo(Len(file))
       /\ \A k \in DOMAIN lines : BeginsAt(k, lines[k])
  /\ stage = "split" =>
       /\ Overwritten(Breaks \ {0})
       /\ at \in Breaks /\ BreaksTo(at) = Len(lines)
  /\ stage \in {"discard", "done"} => Len(lines) = linesCount
  /\ stage = "discard" => at \in 1 .. linesCount + 1
                         /\ Overwritten((Breaks \ {0}) \cup CommentsCut(at))
  /\ stage = "done" => Overwritten((Breaks \ {0}) \cup CommentsCut(linesCount + 1))

-----------------------------------------------------------------------------
LEMMA LeastNumber ==
  ASSUME NEW S, S \subseteq Nat, S # {}
  PROVE  \E j \in S : \A k \in S : j <= k
<1>1. \E j \in S : \A k \in S : ~ (<<k, j>> \in OpToRel(<, Nat))
  BY WFMin, NatLessThanWellFounded
<1>2. \A j, k \in S : j <= k \/ <<k, j>> \in OpToRel(<, Nat)
  BY DEF OpToRel
<1>. QED
  BY <1>1, <1>2

LEMMA BreaksAreNumbers ==
  ASSUME file \in Files
  PROVE  /\ Breaks \subseteq Nat /\ Breaks \subseteq 0 .. Len(file)
         /\ 0 \in Breaks /\ Len(file) \in Breaks /\ Len(file) \in Nat
BY FileIsSeq DEF Breaks

LEMMA BreaksFinite ==
  ASSUME file \in Files, NEW i \in Nat
  PROVE  IsFiniteSet(Breaks \cap 1 .. i) /\ BreaksTo(i) \in Nat
<1>1. IsFiniteSet(1 .. i)
  BY FS_Interval
<1>2. IsFiniteSet(Breaks \cap 1 .. i)
  BY <1>1, FS_Subset
<1>. QED
  BY <1>2, FS_CardinalityType DEF BreaksTo

(* From a break to the next there is one more.                             *)
LEMMA NextBreak ==
  ASSUME file \in Files, NEW a \in Nat, NEW b \in Breaks, a < b,
         \A j \in a + 1 .. b - 1 : j \notin Breaks
  PROVE  BreaksTo(b) = BreaksTo(a) + 1
<1>1. b \in Nat
  BY BreaksAreNumbers
<1>2. Breaks \cap 1 .. b = (Breaks \cap 1 .. a) \cup {b}
  BY <1>1
<1>3. b \notin Breaks \cap 1 .. a /\ IsFiniteSet(Breaks \cap 1 .. a)
  BY <1>1, BreaksFinite
<1>. QED
  BY <1>2, <1>3, FS_AddElement DEF BreaksTo

(* What is no break adds nothing.                                          *)
LEMMA NoBreak ==
  ASSUME NEW a \in Nat, a + 1 \notin Breaks
  PROVE  BreaksTo(a + 1) = BreaksTo(a) /\ Breaks \cap 1 .. a + 1 = Breaks \cap 1 .. a
<1>1. Breaks \cap 1 .. a + 1 = Breaks \cap 1 .. a
  OBVIOUS
<1>. QED
  BY <1>1 DEF BreaksTo

LEMMA BreaksIncrease ==
  ASSUME file \in Files, NEW a \in Nat, NEW b \in Breaks, a < b
  PROVE  BreaksTo(a) < BreaksTo(b)
<1>1. b \in Nat
  BY BreaksAreNumbers
<1>2. (Breaks \cap 1 .. a) \cup {b} \subseteq Breaks \cap 1 .. b
  BY <1>1
<1>3. /\ b \notin Breaks \cap 1 .. a /\ IsFiniteSet(Breaks \cap 1 .. a)
      /\ IsFiniteSet(Breaks \cap 1 .. b) /\ BreaksTo(a) \in Nat /\ BreaksTo(b) \in Nat
  BY <1>1, BreaksFinite
<1>4. Cardinality((Breaks \cap 1 .. a) \cup {b}) = BreaksTo(a) + 1
  BY <1>3, FS_AddElement DEF BreaksTo
<1>5. BreaksTo(a) + 1 <= BreaksTo(b)
  BY <1>2, <1>3, <1>4, FS_Subset DEF BreaksTo
<1>. QED
  BY <1>3, <1>5

(* A line later in the order begins later in the text.                     *)
LEMMA LinesInOrder ==
  ASSUME file \in Files, NEW k \in Nat, NEW b, BeginsAt(k, b),
         NEW m \in Nat, NEW c, BeginsAt(m, c)
  PROVE  (k < m => b < c) /\ (k = m => b = c)
<1>1. b \in Breaks /\ c \in Breaks /\ b \in Nat /\ c \in Nat
  BY BreaksAreNumbers DEF BeginsAt
<1>2. BreaksTo(b) = k - 1 /\ BreaksTo(c) = m - 1
  BY DEF BeginsAt
<1>3. (b < c => k - 1 < m - 1) /\ (c < b => m - 1 < k - 1)
  BY <1>1, <1>2, BreaksIncrease
<1>4. b = c => k = m
  BY <1>2
<1>. QED
  BY <1>1, <1>3, <1>4

LEMMA BeginOf ==
  ASSUME file \in Files, NEW k \in Nat, NEW b, BeginsAt(k, b)
  PROVE  Begin(k) = b
<1>. DEFINE P(i) == Cardinality(Breaks \cap 1 .. i) = k - 1
            c    == CHOOSE i \in Breaks : P(i)
<1>1. b \in Breaks /\ P(b) /\ Begin(k) = c
  BY DEF BeginsAt, BreaksTo, Begin
<1>2. c \in Breaks /\ P(c)
  BY <1>1
<1>. HIDE DEF c
<1>3. b \in Nat /\ c \in Nat
  BY <1>1, <1>2, BreaksAreNumbers
<1>4. ~ (b < c) /\ ~ (c < b)
  BY <1>1, <1>2, <1>3, BreaksIncrease DEF BreaksTo
<1>. QED
  BY <1>1, <1>3, <1>4

(* findNextLine stops behind the next character that was overwritten.      *)
LEMMA NextOverwritten ==
  ASSUME TextFiles, file \in Files, Len(str) = Len(file) + 1, NEW set, Overwritten(set),
         Len(file) \in set, NEW b \in Nat, b < Len(file)
  PROVE  LET e == FindNextLine(b)
         IN  /\ e \in set /\ e \in b + 1 .. Len(file) /\ str[e] = NUL
             /\ \A i \in b + 1 .. e - 1 : i \notin set /\ str[i] = file[i]
<1>. DEFINE n == Len(file)
            e == FindNextLine(b)
<1>1. n \in Nat /\ DOMAIN file = 1 .. n
  BY FileIsSeq
<1>2. \A i \in 1 .. n : (str[i] = NUL <=> i \in set) /\ (i \notin set => str[i] = file[i])
  BY <1>1 DEF TextFiles, Overwritten
<1>3. Ends(str, n, b)
  <2>1. n - 1 \in Nuls(str, n, b)
    BY <1>1, <1>2 DEF Nuls
  <2>. QED
    BY <2>1 DEF Ends
<1>4. e - 1 \in Nuls(str, n, b) /\ e \in 1 .. n /\ \A k \in Nuls(str, n, b) : e - 1 <= k
  BY <1>1, <1>3, NextLine
<1>. HIDE DEF e
<1>5. e \in b + 1 .. n /\ str[e] = NUL
  BY <1>1, <1>4 DEF Nuls
<1>6. ASSUME NEW i \in b + 1 .. e - 1 PROVE i \notin set /\ str[i] = file[i]
  <2>1. i \in 1 .. n
    BY <1>1, <1>5
  <2>2. i - 1 \notin Nuls(str, n, b)
    BY <1>1, <1>4, <1>5
  <2>3. str[i] # NUL
    BY <1>1, <1>5, <2>1, <2>2 DEF Nuls
  <2>. QED
    BY <1>2, <2>1, <2>3
<1>7. e \in set
  BY <1>1, <1>2, <1>5
<1>. QED
  BY <1>5, <1>6, <1>7 DEF e

-----------------------------------------------------------------------------
LEMMA WrittenOpen == TextFiles /\ WrittenInv /\ OpenFile => WrittenInv'
<1>. SUFFICES ASSUME TextFiles, WrittenInv, OpenFile PROVE WrittenInv'
  OBVIOUS
<1>1. /\ LinesInv' /\ UNCHANGED <<file, at, linesCount, lines>>
      /\ file \in Files /\ lines = <<>> /\ at = 0 /\ linesCount = 0
  BY OpenStep DEF WrittenInv, LinesInv, OpenFile
<1>2. CASE stage' = "abort"
  BY <1>1, <1>2 DEF WrittenInv
<1>3. CASE file # <<>> /\ str' = Append(file, NUL) /\ stage' = "count"
  <2>1. file \in Seq(Characters) /\ Len(file) \in Nat /\ Breaks' = Breaks
    BY <1>1, FileIsSeq DEF Breaks
  <2>2. Breaks \cap 1 .. 0 = {}
    OBVIOUS
  <2>3. linesCount' = BreaksTo(at)'
    BY <1>1, <2>1, <2>2, FS_EmptySet DEF BreaksTo
  <2>4. Overwritten(Breaks \cap 1 .. at)'
    <3>1. \A i \in 1 .. Len(file) : str'[i] = file[i]
      BY <1>3, <2>1
    <3>. QED
      BY <1>1, <2>1, <2>2, <3>1 DEF Overwritten
  <2>. QED
    BY <1>1, <1>3, <2>3, <2>4 DEF WrittenInv
<1>. QED
  BY <1>2, <1>3 DEF OpenFile

(* A character is written over when it is a newline or the last one.       *)
LEMMA WrittenCount == TextFiles /\ WrittenInv /\ CountLine => WrittenInv'
<1>. SUFFICES ASSUME TextFiles, WrittenInv, CountLine PROVE WrittenInv'
  OBVIOUS
<1>. DEFINE n == Len(file)
<1>1. /\ LinesInv' /\ UNCHANGED <<file, lines, stage>> /\ at' = at + 1 /\ at < n
      /\ file \in Files /\ at \in Nat /\ stage = "count" /\ file # <<>>
      /\ Overwritten(Breaks \cap 1 .. at) /\ linesCount = BreaksTo(at)
      /\ str \in Seq(Characters) /\ Len(str) = n + 1
  BY CountStep DEF WrittenInv, LinesInv, CountLine
<1>2. n \in Nat /\ Breaks' = Breaks /\ Breaks \subseteq Nat
  BY <1>1, BreaksAreNumbers DEF Breaks
<1>3. Char(at) = file[at + 1] /\ (Char(at) = Newline \/ at + 1 = n <=> at + 1 \in Breaks)
  <2>1. str[at + 1] = file[at + 1]
    BY <1>1, <1>2 DEF Overwritten
  <2>. QED
    BY <1>1, <1>2, <2>1 DEF Char, Breaks
<1>4. CASE at + 1 \in Breaks
  <2>1. str' = [str EXCEPT ![at + 1] = NUL] /\ linesCount' = linesCount + 1
    BY <1>3, <1>4 DEF CountLine
  <2>2. BreaksTo(at + 1) = BreaksTo(at) + 1
    BY <1>1, <1>4, NextBreak
  <2>3. Overwritten(Breaks \cap 1 .. at)'
        <=> \A i \in 1 .. n : str'[i] = IF i \in Breaks \cap 1 .. at + 1 THEN NUL ELSE file[i]
    BY <1>1, <1>2 DEF Overwritten
  <2>4. \A i \in 1 .. n : str'[i] = IF i \in Breaks \cap 1 .. at + 1 THEN NUL ELSE file[i]
    BY <1>1, <1>2, <1>4, <2>1 DEF Overwritten
  <2>5. linesCount' = BreaksTo(at)'
    BY <1>1, <1>2, <2>1, <2>2 DEF BreaksTo
  <2>. QED
    BY <1>1, <2>3, <2>4, <2>5 DEF WrittenInv
<1>5. CASE at + 1 \notin Breaks
  <2>1. UNCHANGED <<linesCount, str>>
    BY <1>3, <1>5 DEF CountLine
  <2>2. BreaksTo(at + 1) = BreaksTo(at) /\ Breaks \cap 1 .. at + 1 = Breaks \cap 1 .. at
    BY <1>1, <1>5, NoBreak
  <2>3. Overwritten(Breaks \cap 1 .. at)' /\ linesCount' = BreaksTo(at)'
    BY <1>1, <1>2, <2>1, <2>2 DEF Overwritten, BreaksTo
  <2>. QED
    BY <1>1, <2>3 DEF WrittenInv
<1>. QED
  BY <1>4, <1>5

LEMMA WrittenEndOfCount == TextFiles /\ WrittenInv /\ EndOfCount => WrittenInv'
<1>. SUFFICES ASSUME TextFiles, WrittenInv, EndOfCount PROVE WrittenInv'
  OBVIOUS
<1>. DEFINE n == Len(file)
<1>1. /\ LinesInv' /\ UNCHANGED <<file, str, linesCount, lines>> /\ at' = 0 /\ at = n
      /\ file \in Files /\ stage = "count" /\ stage' = "split" /\ file # <<>> /\ lines = <<>>
      /\ Overwritten(Breaks \cap 1 .. n) /\ linesCount = BreaksTo(n)
  BY EndOfCountStep DEF WrittenInv, LinesInv, EndOfCount
<1>2. n \in Nat /\ Breaks' = Breaks /\ Breaks \subseteq 0 .. n /\ 0 \in Breaks
  BY <1>1, BreaksAreNumbers DEF Breaks
<1>3. Breaks \cap 1 .. 0 = {} /\ Breaks \cap 1 .. n = Breaks \ {0}
  <2>1. \A i \in Breaks : i \in 1 .. n <=> i # 0
    BY <1>2
  <2>. QED
    BY <2>1
<1>4. BreaksTo(at)' = 0 /\ Len(lines') = 0
  BY <1>1, <1>2, <1>3, FS_EmptySet DEF BreaksTo
<1>5. Overwritten(Breaks \ {0})' /\ linesCount' = BreaksTo(Len(file))'
  BY <1>1, <1>2, <1>3 DEF Overwritten, BreaksTo
<1>. QED
  BY <1>1, <1>2, <1>4, <1>5 DEF WrittenInv

LEMMA WrittenSplit == TextFiles /\ WrittenInv /\ SplitLine => WrittenInv'
<1>. SUFFICES ASSUME TextFiles, WrittenInv, SplitLine PROVE WrittenInv'
  OBVIOUS
<1>. DEFINE n == Len(file)
            set == Breaks \ {0}
            e == FindNextLine(at)
<1>1. /\ LinesInv' /\ UNCHANGED <<file, str, linesCount, stage>> /\ at' = e
      /\ lines' = Append(lines, at) /\ lines \in Seq(Nat) /\ Len(lines) < linesCount
      /\ file \in Files /\ stage = "split" /\ file # <<>> /\ Len(str) = n + 1
      /\ Overwritten(set) /\ linesCount = BreaksTo(n)
      /\ at \in Breaks /\ BreaksTo(at) = Len(lines)
      /\ \A k \in DOMAIN lines : BeginsAt(k, lines[k])
  BY SplitStep DEF WrittenInv, LinesInv, SplitLine
<1>2. /\ n \in Nat /\ Breaks' = Breaks /\ Breaks \subseteq 0 .. n /\ n \in Breaks /\ n # 0
      /\ at \in Nat /\ at # n /\ at < n
  <2>1. n \in Nat /\ Breaks' = Breaks /\ Breaks \subseteq 0 .. n /\ n \in Breaks
    BY <1>1, BreaksAreNumbers DEF Breaks
  <2>2. n # 0
    BY <1>1, FileIsSeq
  <2>3. at # n
    BY <1>1
  <2>. QED
    BY <1>1, <2>1, <2>2, <2>3
<1>3. /\ e \in set /\ e \in at + 1 .. n
      /\ \A i \in at + 1 .. e - 1 : i \notin set
  <2>1. n \in set
    BY <1>2
  <2>. QED
    BY <1>1, <1>2, <2>1, NextOverwritten
<1>. HIDE DEF e
<1>4. BreaksTo(e) = BreaksTo(at) + 1
  <2>1. \A j \in at + 1 .. e - 1 : j \notin Breaks
    BY <1>2, <1>3
  <2>. QED
    BY <1>1, <1>2, <1>3, <2>1, NextBreak
<1>5. BeginsAt(Len(lines) + 1, at)
  BY <1>1, <1>2 DEF BeginsAt
<1>6. (\A k \in DOMAIN lines : BeginsAt(k, lines[k]))'
  <2>1. ASSUME NEW k \in DOMAIN lines' PROVE BeginsAt(k, lines'[k])
    <3>1. \/ k \in DOMAIN lines /\ lines'[k] = lines[k]
          \/ k = Len(lines) + 1 /\ lines'[k] = at
      BY <1>1, <1>2
    <3>. QED
      BY <1>1, <1>5, <3>1
  <2>. QED
    BY <1>1, <1>2, <2>1 DEF BeginsAt, BreaksTo
<1>7. /\ (BreaksTo(at) = Len(lines) /\ at \in Breaks)'
      /\ Overwritten(Breaks \ {0})' /\ (linesCount = BreaksTo(Len(file)))'
  BY <1>1, <1>2, <1>3, <1>4 DEF BreaksTo, Overwritten
<1>. QED
  BY <1>1, <1>6, <1>7 DEF WrittenInv

LEMMA WrittenEndOfSplit == TextFiles /\ WrittenInv /\ EndOfSplit => WrittenInv'
<1>. SUFFICES ASSUME TextFiles, WrittenInv, EndOfSplit PROVE WrittenInv'
  OBVIOUS
<1>1. /\ LinesInv' /\ UNCHANGED <<file, str, linesCount, lines>> /\ at' = 1
      /\ file \in Files /\ stage = "split" /\ stage' = "discard" /\ file # <<>>
      /\ Overwritten(Breaks \ {0}) /\ linesCount = BreaksTo(Len(file))
      /\ linesCount \in Nat /\ Len(lines) = linesCount
      /\ \A k \in DOMAIN lines : BeginsAt(k, lines[k])
  BY OtherStages DEF WrittenInv, LinesInv, EndOfSplit
<1>2. CommentsCut(1) = {} /\ Breaks' = Breaks /\ CommentsCut(1)' = CommentsCut(1)
  BY <1>1 DEF CommentsCut, Breaks, FirstSemicolon
<1>3. Overwritten((Breaks \ {0}) \cup CommentsCut(at))'
  <2>1. CommentsCut(at)' = {}
    BY <1>1 DEF CommentsCut
  <2>. QED
    BY <1>1, <1>2, <2>1 DEF Overwritten
<1>4. (\A k \in DOMAIN lines : BeginsAt(k, lines[k]))'
  BY <1>1, <1>2 DEF BreaksTo, BeginsAt
<1>5. (linesCount = BreaksTo(Len(file)) /\ at \in 1 .. linesCount + 1)'
  BY <1>1, <1>2 DEF BreaksTo
<1>. QED
  BY <1>1, <1>3, <1>4, <1>5 DEF WrittenInv

-----------------------------------------------------------------------------
(* What discardComments finds in a line is the first semicolon of the      *)
(* file's line, the comments cut before it lying before the line.          *)
LEMMA CommentOfLine ==
  ASSUME TextFiles, file \in Files, Len(str) = Len(file) + 1, file # <<>>,
         \A k \in DOMAIN lines : BeginsAt(k, lines[k]),
         NEW k \in DOMAIN lines, lines \in Seq(Nat),
         Overwritten((Breaks \ {0}) \cup CommentsCut(k))
  PROVE  \A i \in 1 .. Len(file) : i - 1 \in FirstComment(lines[k])
                                   <=> i \in FirstSemicolon(lines[k])
<1>. DEFINE n == Len(file)
            b == lines[k]
            set == (Breaks \ {0}) \cup CommentsCut(k)
            e == FindNextLine(b)
<1>1. /\ n \in Nat /\ n # 0 /\ Breaks \subseteq 0 .. n /\ n \in Breaks /\ DOMAIN file = 1 .. n
      /\ b \in Breaks /\ b \in Nat /\ b < n /\ k \in Nat
  BY FileIsSeq, BreaksAreNumbers DEF BeginsAt
<1>2. /\ e \in set /\ e \in b + 1 .. n /\ str[e] = NUL
      /\ \A i \in b + 1 .. e - 1 : i \notin set /\ str[i] = file[i]
  <2>1. n \in set
    BY <1>1
  <2>. QED
    BY <1>1, <2>1, NextOverwritten
<1>. HIDE DEF e
<1>3. \A i \in CommentsCut(k) : i <= b
  <2>. SUFFICES ASSUME NEW i \in CommentsCut(k) PROVE i <= b
    OBVIOUS
  <2>1. PICK m \in 1 .. k - 1 : i \in FirstSemicolon(lines[m])
    BY DEF CommentsCut
  <2>2. m \in DOMAIN lines /\ m \in Nat /\ m < k /\ lines[m] \in Nat
    BY <1>1
  <2>3. lines[m] < b
    BY <1>1, <2>2, LinesInOrder
  <2>4. i \in lines[m] + 1 .. n /\ \A j \in lines[m] + 1 .. i : j \notin Breaks
    BY <2>1 DEF FirstSemicolon
  <2>. QED
    BY <1>1, <2>2, <2>3, <2>4
<1>4. e \in Breaks /\ \A i \in b + 1 .. e - 1 : i \notin Breaks
  BY <1>1, <1>2, <1>3
<1>. SUFFICES ASSUME NEW i \in 1 .. n
              PROVE  i - 1 \in FirstComment(b) <=> i \in FirstSemicolon(b)
  OBVIOUS
<1>5. ASSUME i - 1 \in FirstComment(b) PROVE i \in FirstSemicolon(b)
  <2>1. /\ i - 1 \in b .. e - 1 /\ str[i] = Semicolon
        /\ \A j \in b .. i - 1 : j < i - 1 => str[j + 1] # Semicolon
    BY <1>1, <1>5 DEF FirstComment, Char, e
  <2>2. i \in b + 1 .. e - 1
    BY <1>1, <1>2, <2>1, CharactersAssumption
  <2>3. \A j \in b + 1 .. i : j \in b + 1 .. e - 1
    BY <1>1, <1>2, <2>2
  <2>4. \A j \in b + 1 .. i : j < i => file[j] # Semicolon
    <3>. SUFFICES ASSUME NEW j \in b + 1 .. i, j < i PROVE file[j] # Semicolon
      OBVIOUS
    <3>1. j - 1 \in b .. i - 1 /\ j - 1 < i - 1
      BY <1>1
    <3>2. str[j - 1 + 1] # Semicolon
      BY <2>1, <3>1
    <3>. QED
      BY <1>1, <1>2, <2>3, <3>2
  <2>. QED
    BY <1>1, <1>2, <1>4, <2>1, <2>2, <2>3, <2>4 DEF FirstSemicolon
<1>6. ASSUME i \in FirstSemicolon(b) PROVE i - 1 \in FirstComment(b)
  <2>1. /\ i \in b + 1 .. n /\ file[i] = Semicolon
        /\ \A j \in b + 1 .. i : j \notin Breaks /\ (j < i => file[j] # Semicolon)
    BY <1>6 DEF FirstSemicolon
  <2>2. i < e
    BY <1>1, <1>2, <1>4, <2>1
  <2>3. str[i] = Semicolon
    BY <1>1, <1>2, <2>1, <2>2
  <2>4. \A j \in b .. i - 1 : j < i - 1 => str[j + 1] # Semicolon
    <3>. SUFFICES ASSUME NEW j \in b .. i - 1, j < i - 1 PROVE str[j + 1] # Semicolon
      OBVIOUS
    <3>1. j + 1 \in b + 1 .. i /\ j + 1 < i /\ j + 1 \in b + 1 .. e - 1
      BY <1>1, <1>2, <2>1, <2>2
    <3>. QED
      BY <1>2, <2>1, <3>1
  <2>5. i - 1 \in b .. e - 1 /\ i - 1 + 1 = i
    BY <1>1, <1>2, <2>1, <2>2
  <2>. QED
    BY <2>3, <2>4, <2>5 DEF FirstComment, Char, e
<1>. QED
  BY <1>5, <1>6

LEMMA WrittenDiscard == TextFiles /\ WrittenInv /\ DiscardComment => WrittenInv'
<1>. SUFFICES ASSUME TextFiles, WrittenInv, DiscardComment PROVE WrittenInv'
  OBVIOUS
<1>. DEFINE n == Len(file)
<1>1. /\ LinesInv' /\ UNCHANGED <<file, linesCount, lines, stage>> /\ at' = at + 1
      /\ file \in Files /\ stage = "discard" /\ file # <<>> /\ at \in 1 .. linesCount
      /\ Len(lines) = linesCount /\ linesCount \in Nat /\ linesCount = BreaksTo(n)
      /\ \A k \in DOMAIN lines : BeginsAt(k, lines[k])
      /\ lines \in Seq(Nat) /\ str \in Seq(Characters) /\ Len(str) = n + 1
      /\ Overwritten((Breaks \ {0}) \cup CommentsCut(at))
  BY DiscardStep DEF WrittenInv, LinesInv, DiscardComment
<1>2. n \in Nat /\ Breaks' = Breaks /\ at \in DOMAIN lines /\ DOMAIN lines \subseteq Nat
  BY <1>1, BreaksAreNumbers DEF Breaks
<1>3. \A i \in 1 .. n : i - 1 \in FirstComment(lines[at]) <=> i \in FirstSemicolon(lines[at])
  BY <1>1, <1>2, CommentOfLine
<1>4. CommentsCut(at)' = CommentsCut(at) \cup FirstSemicolon(lines[at])
  <2>1. 1 .. at' - 1 = (1 .. at - 1) \cup {at}
    BY <1>1, <1>2
  <2>2. CommentsCut(at)' = UNION {FirstSemicolon(lines[m]) : m \in 1 .. at' - 1}
    BY <1>1, <1>2 DEF CommentsCut, FirstSemicolon
  <2>. QED
    BY <2>1, <2>2 DEF CommentsCut
<1>5. \A i \in 1 .. n : str'[i] = IF i - 1 \in FirstComment(lines[at]) THEN NUL ELSE str[i]
  BY <1>1, <1>2 DEF DiscardComment
<1>6. Overwritten((Breaks \ {0}) \cup CommentsCut(at))'
  BY <1>1, <1>2, <1>3, <1>4, <1>5 DEF Overwritten
<1>7. (\A k \in DOMAIN lines : BeginsAt(k, lines[k]))'
  BY <1>1, <1>2 DEF BreaksTo, BeginsAt
<1>8. (linesCount = BreaksTo(Len(file)) /\ at \in 1 .. linesCount + 1)'
  BY <1>1, <1>2 DEF BreaksTo
<1>. QED
  BY <1>1, <1>6, <1>7, <1>8 DEF WrittenInv

LEMMA WrittenEndOfDiscard == TextFiles /\ WrittenInv /\ EndOfDiscard => WrittenInv'
<1>. SUFFICES ASSUME TextFiles, WrittenInv, EndOfDiscard PROVE WrittenInv'
  OBVIOUS
<1>1. /\ LinesInv' /\ UNCHANGED <<file, str, at, linesCount, lines>> /\ stage' = "done"
      /\ stage = "discard" /\ at = linesCount + 1
  BY OtherStages DEF WrittenInv, LinesInv, EndOfDiscard
<1>2. (\A k \in DOMAIN lines : BeginsAt(k, lines[k]))' /\ (linesCount = BreaksTo(Len(file)))'
  BY <1>1 DEF WrittenInv, BreaksTo, BeginsAt, Breaks
<1>3. Overwritten((Breaks \ {0}) \cup CommentsCut(linesCount + 1))'
  BY <1>1 DEF WrittenInv, Overwritten, CommentsCut, FirstSemicolon, Breaks
<1>. QED
  BY <1>1, <1>2, <1>3 DEF WrittenInv

LEMMA WrittenStutter == WrittenInv /\ UNCHANGED vars => WrittenInv'
<1>. SUFFICES ASSUME WrittenInv, UNCHANGED vars PROVE WrittenInv'
  OBVIOUS
<1>1. LinesInv' /\ UNCHANGED <<file, str, at, linesCount, lines, stage>>
  BY OtherStages DEF WrittenInv, vars
<1>2. /\ \A i : BreaksTo(i)' = BreaksTo(i) /\ CommentsCut(i)' = CommentsCut(i)
      /\ Breaks' = Breaks
  BY <1>1 DEF BreaksTo, CommentsCut, FirstSemicolon, Breaks
<1>. QED
  BY <1>1, <1>2 DEF WrittenInv, BeginsAt, Overwritten, BreaksTo, CommentsCut, FirstSemicolon,
     Breaks

-----------------------------------------------------------------------------
(***************************************************************************)
(* What the text holds at every stage, for every set of texts without a    *)
(* NUL in them.                                                            *)
(***************************************************************************)
THEOREM WrittenInvariant == ASSUME TextFiles PROVE Spec => []WrittenInv
<1>1. Init => WrittenInv
  BY DEF Init, LinesInv, WrittenInv
<1>2. WrittenInv /\ [Next]_vars => WrittenInv'
  BY WrittenOpen, WrittenCount, WrittenEndOfCount, WrittenSplit, WrittenEndOfSplit,
     WrittenDiscard, WrittenEndOfDiscard, WrittenStutter
  DEF Next, Ended
<1>. QED
  BY <1>1, <1>2, PTL DEF Spec

LEMMA CommentIsCut ==
  ASSUME NEW c \in Nat, NEW k \in 1 .. c, NEW i \in FirstSemicolon(lines[k])
  PROVE  i \in CommentsCut(c + 1)
<1>1. k \in 1 .. (c + 1) - 1
  OBVIOUS
<1>2. \E m \in 1 .. (c + 1) - 1 : i \in FirstSemicolon(lines[m])
  BY <1>1
<1>. QED
  BY <1>2, Zenon DEF CommentsCut

(* Parts of two texts are equal where the texts are.                       *)
LEMMA PartsEqual ==
  ASSUME NEW t \in Seq(Characters), NEW u \in Seq(Characters), NEW a \in Nat, NEW e \in Nat,
         e <= Len(t), e <= Len(u), \A i \in 1 .. e - a : t[a + i] = u[a + i]
  PROVE  SubSeq(t, a + 1, e) = SubSeq(u, a + 1, e)
OBVIOUS

(* A line ends at the first newline or semicolon behind its beginning.     *)
LEMMA LineIsPiece ==
  ASSUME TextFiles, WrittenInv, stage = "done", NEW k \in DOMAIN lines
  PROVE  LineAt(lines[k]) = Piece(k)
<1>. DEFINE n == Len(file)
            b == lines[k]
            set == (Breaks \ {0}) \cup CommentsCut(linesCount + 1)
            e == FindNextLine(b)
            stops == {i \in b + 1 .. n : i \in Breaks \/ file[i] = Semicolon}
            s == CHOOSE i \in stops : \A j \in stops : i <= j
<1>1. /\ file \in Files /\ file # <<>> /\ lines \in Seq(Nat) /\ Len(lines) = linesCount
      /\ linesCount \in Nat /\ BeginsAt(k, b) /\ str \in Seq(Characters) /\ Len(str) = n + 1
      /\ Overwritten(set)
  BY DEF WrittenInv, LinesInv
<1>2. /\ n \in Nat /\ n # 0 /\ Breaks \subseteq 0 .. n /\ n \in Breaks /\ file \in Seq(Characters)
      /\ b \in Breaks /\ b \in Nat /\ b < n /\ k \in Nat /\ k \in 1 .. linesCount + 1 - 1
  BY <1>1, FileIsSeq, BreaksAreNumbers DEF BeginsAt
<1>3. /\ e \in set /\ e \in b + 1 .. n
      /\ \A i \in b + 1 .. e - 1 : i \notin set /\ str[i] = file[i]
  <2>1. n \in set
    BY <1>2
  <2>. QED
    BY <1>1, <1>2, <2>1, NextOverwritten
<1>4. e \in stops
  BY <1>3 DEF CommentsCut, FirstSemicolon
<1>5. s \in stops /\ \A j \in stops : s <= j
  <2>. HIDE DEF stops
  <2>1. stops \subseteq Nat
    BY <1>2 DEF stops
  <2>. QED
    BY <1>4, <2>1, LeastNumber
<1>6. Piece(k) = SubSeq(file, b + 1, s - 1)
  BY <1>1, <1>2, BeginOf DEF Piece
<1>7. LineAt(b) = SubSeq(str, b + 1, e - 1)
  BY DEF LineAt
<1>. HIDE DEF e, s
<1>8. s = e
  <2>. SUFFICES ASSUME s < e PROVE FALSE
    BY <1>2, <1>3, <1>4, <1>5
  <2>1. s \in b + 1 .. e - 1
    BY <1>2, <1>3, <1>5
  <2>2. file[s] = Semicolon
    BY <1>2, <1>3, <1>5, <2>1
  <2>3. \A j \in b + 1 .. s : j \notin Breaks /\ (j < s => file[j] # Semicolon)
    BY <1>2, <1>3, <1>5, <2>1
  <2>4. s \in FirstSemicolon(b)
    BY <1>5, <2>2, <2>3 DEF FirstSemicolon
  <2>5. s \in CommentsCut(linesCount + 1)
    BY <1>1, <1>2, <2>4, CommentIsCut
  <2>. QED
    BY <1>3, <2>1, <2>5
<1>9. SubSeq(str, b + 1, e - 1) = SubSeq(file, b + 1, e - 1)
  <2>1. \A i \in 1 .. e - 1 - b : str[b + i] = file[b + i]
    <3>. SUFFICES ASSUME NEW i \in 1 .. e - 1 - b PROVE str[b + i] = file[b + i]
      OBVIOUS
    <3>1. b + i \in b + 1 .. e - 1
      BY <1>2, <1>3
    <3>. QED
      BY <1>3, <3>1
  <2>. DEFINE m == e - 1
  <2>2. m \in Nat /\ m <= n /\ m <= Len(str)
    BY <1>1, <1>2, <1>3
  <2>3. \A i \in 1 .. m - b : str[b + i] = file[b + i]
    BY <2>1
  <2>. HIDE DEF m
  <2>4. SubSeq(str, b + 1, m) = SubSeq(file, b + 1, m)
    BY <1>1, <1>2, <2>2, <2>3, PartsEqual
  <2>. QED
    BY <2>4 DEF m
<1>. QED
  BY <1>6, <1>7, <1>8, <1>9

(***************************************************************************)
(* The lines of the text are those of the file without their comments,     *)
(* all of them and in their order, for every text without a NUL in it.     *)
(***************************************************************************)
THEOREM LinesAreAsWritten == ASSUME TextFiles PROVE Spec => []LinesAsWritten
<1>1. WrittenInv => LinesAsWritten
  <2>. SUFFICES ASSUME WrittenInv, stage = "done" PROVE LinesAsWritten
    BY DEF LinesAsWritten
  <2>1. file \in Files /\ Len(lines) = BreaksTo(Len(file)) /\ file # <<>>
    BY DEF WrittenInv, LinesInv
  <2>2. /\ Breaks \subseteq 0 .. Len(file) /\ 0 \in Breaks /\ Len(file) \in Nat
        /\ IsFiniteSet(Breaks \cap 1 .. Len(file)) /\ BreaksTo(Len(file)) \in Nat
    BY <2>1, BreaksAreNumbers, BreaksFinite
  <2>. DEFINE rest == Breaks \cap 1 .. Len(file)
  <2>3. Breaks = rest \cup {0} /\ 0 \notin rest
    <3>1. \A i \in Breaks : i = 0 \/ i \in 1 .. Len(file)
      BY <2>2
    <3>2. Breaks \subseteq rest \cup {0}
      BY <3>1
    <3>3. rest \cup {0} \subseteq Breaks
      BY <2>2
    <3>4. 0 \notin rest
      BY <2>2
    <3>. QED
      BY <3>2, <3>3, <3>4
  <2>4. Cardinality(Breaks) = Len(lines) + 1
    <3>1. Cardinality(rest \cup {0}) = Cardinality(rest) + 1
      BY <2>2, <2>3, FS_AddElement
    <3>. QED
      BY <2>1, <2>3, <3>1 DEF BreaksTo
  <2>. QED
    BY <2>4, LineIsPiece DEF LinesAsWritten
<1>. QED
  BY <1>1, WrittenInvariant, PTL
=============================================================================
