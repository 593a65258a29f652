-------------------------- MODULE AssemblerProofs ---------------------------
(***************************************************************************)
(* Pass 2 of the assembler repeats pass 1: for every program, every number *)
(* of labels and every history of elem, each line is scanned to the same   *)
(* word, writes as many bytes and enters the same label as in pass 1, so   *)
(* the table is stable and no line fails that pass 1 accepted.             *)
(***************************************************************************)
EXTENDS Assembler, WellFoundedInduction, TLAPS

(* A set of naturals that is not empty has a first element.                *)
LEMMA First ==
  ASSUME NEW S \in SUBSET Nat, S # {}
  PROVE  \E i \in S : \A j \in S : i <= j
  <1>1. \E i \in S : \A j \in S : ~ (<<j, i>> \in OpToRel(<, Nat))
    BY WFMin, NatLessThanWellFounded
  <1>2. \A i, j \in S : i <= j \/ <<j, i>> \in OpToRel(<, Nat)
    BY DEF OpToRel
  <1> QED BY <1>1, <1>2

Kinds(line) == line.blank \in BOOLEAN /\ line.operand.kind \in OperandKinds

(* The bytes of a command: they depend neither on elem nor on the table.   *)
Size(op, line) ==
  IF op \in NoArgOps THEN 2
  ELSE IF Cnt(line) # 1 \/ line.operand.kind = "atint" THEN 6
  ELSE IF line.operand.kind = "atname" THEN 3
  ELSE IF op \in Jumps THEN 6
  ELSE 3

LEMMA EncodedBytes ==
  ASSUME NEW op, NEW line, Kinds(line), NEW e, NEW table, op \notin NoArgOps
  PROVE  EncodeWithArg(op, line, e, table).bytes = Size(op, line)
  <1>1. CASE Cnt(line) # 1
    BY <1>1 DEF EncodeWithArg, Encoding, Size
  <1>2. CASE Cnt(line) = 1
    <2>1. line.operand.kind \in {"none", "name", "atname", "atint"}
      BY <1>2 DEF Kinds, OperandKinds, Cnt
    <2> QED BY <1>2, <2>1 DEF EncodeWithArg, Encoding, Size
  <1> QED BY <1>1, <1>2

-----------------------------------------------------------------------------
(* What a line does to the local state of a pass, and which lines a pass   *)
(* goes beyond.                                                            *)
NextLocal(line, st) ==
  LET n == ScannedName(line, st.name)
  IN  IF n.colon
      THEN [name |-> [colon |-> FALSE, text |-> n.text],
            labels |-> st.labels + 1, bytes |-> st.bytes]
      ELSE [name |-> n, labels |-> st.labels,
            bytes |-> st.bytes + Size(n.text, line)]

Accepted(line, st) ==
  LET n == ScannedName(line, st.name)
  IN  IF n.colon THEN st.labels < MaxLabels
      ELSE n.text \in Ops /\ ~(n.text \in ArgOps /\ WrongOperand(n.text, line))

(* The entry a line makes in the table, if it is a label.                  *)
Entered(line, st, table) ==
  LET n == ScannedName(line, st.name)
  IN  n.colon =>
        /\ st.labels \in LabelSlots
        /\ table[st.labels] = [str |-> n.text, value |-> st.bytes]

(* The local state before line i of pass 1.                                *)
Past(i) == IF i <= Len(trace) THEN trace[i] ELSE Local
Done    == IF pass = 1 THEN cur - 1 ELSE Len(lines)

(***************************************************************************)
(* The inductive invariant.  The recorded states are those of pass 1, each *)
(* line of it was accepted and its label stands in the table, in a slot    *)
(* that no later label of the pass takes; in pass 2 the local state is the *)
(* one pass 1 had before the same line.                                    *)
(***************************************************************************)
Shape ==
  /\ lines \in Programs
  /\ pass \in {1, 2}
  /\ cur \in 1 .. Len(lines) + 1
  /\ numberLabelInfo \in 0 .. MaxLabels
  /\ labelInfo = [i \in LabelSlots |-> labelInfo[i]]
  /\ Len(trace) \in Nat
  /\ trace \in Seq({trace[i] : i \in 1 .. Len(trace)})

PassOne ==
  pass = 1 =>
    /\ Len(trace) = cur - 1
    /\ \A i \in 1 .. cur-1 :
         ScannedName(lines[i], Past(i).name).colon => Past(i).labels < numberLabelInfo

PassTwo == pass = 2 => Len(trace) = Len(lines) + 1 /\ Local = trace[cur]

Chain ==
  /\ Past(1) = Fresh
  /\ \A i \in 1 .. Done :
       /\ Accepted(lines[i], Past(i))
       /\ Past(i+1) = NextLocal(lines[i], Past(i))
       /\ Entered(lines[i], Past(i), labelInfo)

PassInv ==
  status = "running" => Shape /\ PassOne /\ PassTwo /\ Chain

AssemblerInv ==
  /\ PassInv
  /\ status \in {"running", "ASSEMBLING_SUCCESSFUL", "ASSEMBLING_WRONG", "undefined"}
  /\ WrongOnlyInPassOne

LEMMA AssemblerInvInit == Init => AssemblerInv
  <1> SUFFICES ASSUME Init PROVE AssemblerInv
    OBVIOUS
  <1>1. Shape
    BY ProgramsAssumption, MaxLabelsAssumption DEF Init, Idle, Shape
  <1>2. PassOne /\ PassTwo
    BY DEF Init, Idle, PassOne, PassTwo
  <1>3. Chain
    BY DEF Init, Idle, Chain, Past, Done, Fresh, Local
  <1> QED BY <1>1, <1>2, <1>3 DEF Init, Idle, AssemblerInv, PassInv, WrongOnlyInPassOne

(* The line at hand, in the terms of NextLocal and Accepted.               *)
LEMMA LineAtHand ==
  ASSUME PassInv, Running
  PROVE  /\ cur \in 1 .. Len(lines) /\ Len(lines) \in Nat
         /\ Kinds(Line)
         /\ Name = ScannedName(lines[cur], Local.name)
  BY ProgramsAssumption DEF PassInv, Shape, Running, Line, Name, Local, Kinds

(* A line of pass 1 that is accepted.                                      *)
LEMMA AdvanceOne ==
  ASSUME PassInv, Running, pass = 1,
         Accepted(Line, Local), Local' = NextLocal(Line, Local),
         cur' = cur + 1, trace' = Append(trace, Local), UNCHANGED <<lines, pass, status>>,
         Name.colon =>
           /\ labelInfo' = [labelInfo EXCEPT ![numberLabelInfo] =
                              [str |-> Name.text, value |-> numberBytesFile]]
           /\ numberLabelInfo' = numberLabelInfo + 1,
         ~Name.colon => labelInfo' = labelInfo /\ numberLabelInfo' = numberLabelInfo
  PROVE  PassInv'
  <1>1. /\ cur \in 1 .. Len(lines) /\ Len(lines) \in Nat
        /\ Name = ScannedName(lines[cur], Local.name)
    BY LineAtHand
  <1>2. Shape /\ PassOne /\ Chain /\ Len(trace) = cur - 1
    BY DEF PassInv, Running, PassOne
  <1>3. /\ Len(trace') = cur
        /\ \A i \in 1 .. cur-1 : trace'[i] = trace[i]
        /\ trace'[cur] = Local
        /\ trace' \in Seq({trace'[i] : i \in 1 .. Len(trace')})
    <2> DEFINE S == {trace[i] : i \in 1 .. Len(trace)}
    <2>1. trace \in Seq(S \cup {Local}) /\ Local \in S \cup {Local}
      BY <1>2 DEF Shape
    <2> HIDE DEF S
    <2>2. /\ trace' \in Seq(S \cup {Local}) /\ Len(trace') = cur
          /\ \A i \in 1 .. cur-1 : trace'[i] = trace[i]
          /\ trace'[cur] = Local
      BY <1>1, <1>2, <2>1
    <2>3. trace' \in Seq({trace'[i] : i \in 1 .. Len(trace')})
      BY <2>2
    <2> QED BY <2>2, <2>3
  <1>4. /\ \A i \in 1 .. cur : Past(i)' = Past(i)
        /\ Past(cur) = Local
        /\ \A i \in Nat : i = cur + 1 => Past(i)' = Local'
    BY <1>1, <1>2, <1>3 DEF Past
  <1>5. /\ numberLabelInfo \in Nat /\ numberLabelInfo <= MaxLabels
        /\ Local.labels = numberLabelInfo /\ Local.bytes = numberBytesFile
        /\ (Name.colon => numberLabelInfo \in LabelSlots)
    <2>1. Name.colon => Local.labels < MaxLabels
      BY <1>1 DEF Accepted, Line
    <2>2. Local.labels = numberLabelInfo /\ Local.bytes = numberBytesFile
      BY DEF Local
    <2>3. numberLabelInfo \in 0 .. MaxLabels
      BY <1>2 DEF Shape
    <2> QED BY <2>1, <2>2, <2>3, MaxLabelsAssumption DEF LabelSlots
  <1>6. /\ labelInfo' = [i \in LabelSlots |-> labelInfo'[i]]
        /\ numberLabelInfo' \in 0 .. MaxLabels
        /\ numberLabelInfo <= numberLabelInfo'
        /\ \A k \in LabelSlots : k # numberLabelInfo => labelInfo'[k] = labelInfo[k]
        /\ Name.colon => labelInfo'[numberLabelInfo] =
                           [str |-> Name.text, value |-> numberBytesFile]
    <2>1. labelInfo = [i \in LabelSlots |-> labelInfo[i]]
      BY <1>2 DEF Shape
    <2>2. CASE Name.colon
      <3>1. numberLabelInfo' = numberLabelInfo + 1 /\ numberLabelInfo < MaxLabels
        BY <1>5, <2>2, MaxLabelsAssumption DEF LabelSlots
      <3> QED BY <1>5, <2>1, <2>2, <3>1, MaxLabelsAssumption
    <2>3. CASE ~Name.colon
      BY <1>5, <2>1, <2>3, MaxLabelsAssumption
    <2> QED BY <2>2, <2>3
  <1>7. Shape'
    <2>1. /\ lines' \in Programs /\ pass' \in {1, 2}
          /\ cur' \in 1 .. Len(lines') + 1
      BY <1>1, <1>2 DEF Shape
    <2> QED BY <1>1, <1>3, <1>6, <2>1 DEF Shape
  <1>8. ASSUME NEW i \in 1 .. cur-1
        PROVE  /\ Accepted(lines[i], Past(i))
               /\ Past(i+1) = NextLocal(lines[i], Past(i))
               /\ Entered(lines[i], Past(i), labelInfo)
               /\ ScannedName(lines[i], Past(i).name).colon =>
                    Past(i).labels < numberLabelInfo
    BY <1>2, <1>8 DEF Chain, Done, PassOne
  <1>9. \A i \in 1 .. cur : Entered(lines[i], Past(i), labelInfo')
    <2>1. ASSUME NEW i \in 1 .. cur-1 PROVE Entered(lines[i], Past(i), labelInfo')
      BY <1>5, <1>6, <1>8, <2>1 DEF Entered, LabelSlots
    <2>2. Entered(lines[cur], Past(cur), labelInfo')
      BY <1>1, <1>4, <1>5, <1>6 DEF Entered
    <2> QED BY <1>1, <2>1, <2>2
  <1>10. \A i \in 1 .. cur : Accepted(lines[i], Past(i))
                           /\ Past(i+1)' = NextLocal(lines[i], Past(i))
    <2>1. ASSUME NEW i \in 1 .. cur-1
          PROVE  Accepted(lines[i], Past(i)) /\ Past(i+1)' = NextLocal(lines[i], Past(i))
      <3>1. Past(i+1)' = Past(i+1)
        BY <1>1, <1>4, <2>1
      <3> QED BY <1>8, <2>1, <3>1
    <2>2. Accepted(lines[cur], Past(cur)) /\ Local' = NextLocal(lines[cur], Past(cur))
      BY <1>4 DEF Line
    <2>3. ASSUME NEW i \in 1 .. cur
          PROVE  Accepted(lines[i], Past(i)) /\ Past(i+1)' = NextLocal(lines[i], Past(i))
      <3>1. CASE i = cur
        <4>1. Past(i+1)' = Local'
          BY <1>1, <1>4, <3>1
        <4> QED BY <2>2, <3>1, <4>1
      <3>2. CASE i # cur
        <4>1. i \in 1 .. cur-1
          BY <1>1, <3>2
        <4> QED BY <2>1, <4>1
      <3> QED BY <3>1, <3>2
    <2> QED BY <2>3
  <1>11. Chain'
    <2>1. Done' = cur
      BY <1>1 DEF Done
    <2>2. Past(1)' = Fresh
      BY <1>1, <1>2, <1>4 DEF Chain
    <2>3. \A i \in 1 .. cur : /\ Accepted(lines'[i], Past(i)')
                             /\ Past(i+1)' = NextLocal(lines'[i], Past(i)')
                             /\ Entered(lines'[i], Past(i)', labelInfo')
      BY <1>4, <1>9, <1>10
    <2> QED BY <2>1, <2>2, <2>3 DEF Chain
  <1>12. PassOne'
    <2>1. \A i \in 1 .. cur :
            ScannedName(lines[i], Past(i).name).colon => Past(i).labels < numberLabelInfo'
      <3>1. ASSUME NEW i \in 1 .. cur-1, ScannedName(lines[i], Past(i).name).colon
            PROVE  Past(i).labels < numberLabelInfo'
        <4>1. Past(i).labels \in LabelSlots /\ Past(i).labels < numberLabelInfo
          BY <1>8, <3>1 DEF Entered
        <4> QED BY <1>5, <1>6, <4>1 DEF LabelSlots
      <3>2. Name.colon => Local.labels < numberLabelInfo'
        BY <1>5
      <3> QED BY <1>1, <1>4, <3>1, <3>2
    <2>2. \A i \in 1 .. cur' - 1 :
            ScannedName(lines'[i], (Past(i)').name).colon => (Past(i)').labels < numberLabelInfo'
      BY <1>1, <1>4, <2>1
    <2> QED BY <1>1, <1>3, <2>2 DEF PassOne
  <1> QED BY <1>7, <1>11, <1>12 DEF PassInv, PassTwo

(* In pass 2 the recorded states say what the line at hand does.           *)
LEMMA KnownLine ==
  ASSUME PassInv, Running, pass = 2
  PROVE  /\ Len(trace) = Len(lines) + 1
         /\ Accepted(Line, Local)
         /\ trace[cur+1] = NextLocal(Line, Local)
         /\ Name.colon => /\ numberLabelInfo \in LabelSlots
                          /\ labelInfo[numberLabelInfo] =
                                [str |-> Name.text, value |-> numberBytesFile]
  <1>1. /\ cur \in 1 .. Len(lines) /\ Len(lines) \in Nat
        /\ Name = ScannedName(lines[cur], Local.name)
    BY LineAtHand
  <1>2. Len(trace) = Len(lines) + 1 /\ Local = trace[cur] /\ Chain
    BY DEF PassInv, Running, PassTwo
  <1>3. Past(cur) = Local /\ Past(cur+1) = trace[cur+1]
    BY <1>1, <1>2 DEF Past
  <1>4. /\ Accepted(lines[cur], Local) /\ trace[cur+1] = NextLocal(lines[cur], Local)
        /\ Entered(lines[cur], Local, labelInfo)
    BY <1>1, <1>2, <1>3 DEF Chain, Done
  <1>5. Local.labels = numberLabelInfo /\ Local.bytes = numberBytesFile
    BY DEF Local
  <1> QED BY <1>1, <1>2, <1>4, <1>5 DEF Entered, Line

(* A line of pass 2: the table stays as it is.                             *)
LEMMA AdvanceTwo ==
  ASSUME PassInv, Running, pass = 2, Local' = NextLocal(Line, Local),
         cur' = cur + 1, trace' = trace, UNCHANGED <<lines, pass, status>>,
         labelInfo' = labelInfo, numberLabelInfo' \in 0 .. MaxLabels
  PROVE  PassInv'
  <1>1. cur \in 1 .. Len(lines) /\ Len(lines) \in Nat
    BY LineAtHand
  <1>2. Len(trace) = Len(lines) + 1 /\ trace[cur+1] = NextLocal(Line, Local)
    BY KnownLine
  <1>3. Shape /\ Chain
    BY DEF PassInv, Running
  <1>4. Shape'
    BY <1>1, <1>3 DEF Shape
  <1>5. PassTwo'
    BY <1>1, <1>2 DEF PassTwo
  <1>6. Chain'
    <2>1. Done = Len(lines) /\ Done' = Len(lines)
      BY DEF Done
    <2>2. \A i \in 1 .. Len(lines) + 1 : Past(i) = trace[i] /\ Past(i)' = trace[i]
      BY <1>2 DEF Past
    <2>3. /\ trace[1] = Fresh
          /\ \A i \in 1 .. Len(lines) :
               /\ Accepted(lines[i], trace[i])
               /\ trace[i+1] = NextLocal(lines[i], trace[i])
               /\ Entered(lines[i], trace[i], labelInfo)
      <3>1. \A i \in 1 .. Len(lines) : i \in 1 .. Len(lines) + 1 /\ i + 1 \in 1 .. Len(lines) + 1
        BY <1>1
      <3>2. \A i \in 1 .. Len(lines) : Past(i) = trace[i] /\ Past(i+1) = trace[i+1]
        BY <2>2, <3>1
      <3>3. Past(1) = trace[1]
        BY <1>1, <2>2
      <3> QED BY <1>3, <2>1, <3>2, <3>3 DEF Chain
    <2>4. \A i \in 1 .. Len(lines) :
            /\ Accepted(lines'[i], Past(i)')
            /\ Past(i+1)' = NextLocal(lines'[i], Past(i)')
            /\ Entered(lines'[i], Past(i)', labelInfo')
      <3>1. \A i \in 1 .. Len(lines) : i \in 1 .. Len(lines) + 1 /\ i + 1 \in 1 .. Len(lines) + 1
        BY <1>1
      <3>2. \A i \in 1 .. Len(lines) : Past(i)' = trace[i] /\ Past(i+1)' = trace[i+1]
        BY <2>2, <3>1
      <3>3. lines' = lines /\ labelInfo' = labelInfo
        OBVIOUS
      <3> QED BY <2>3, <3>2, <3>3
    <2>5. Past(1)' = Fresh
      BY <1>1, <2>2, <2>3
    <2> QED BY <2>1, <2>4, <2>5 DEF Chain
  <1> QED BY <1>4, <1>5, <1>6 DEF PassInv, PassOne

(* Each of the two commands and the label is such a line.                  *)
LEMMA CommandLine ==
  ASSUME PassInv, CommandWithArg \/ CommandWithoutArg
  PROVE  /\ Running /\ ~Name.colon
         /\ Accepted(Line, Local) /\ Local' = NextLocal(Line, Local)
         /\ cur' = cur + 1 /\ UNCHANGED <<lines, pass, status, labelInfo, numberLabelInfo>>
         /\ trace' = IF pass = 1 THEN Append(trace, Local) ELSE trace
  <1>1. /\ Running /\ ~Name.colon /\ Recorded
        /\ Name.text \in Ops /\ ~(Name.text \in ArgOps /\ WrongOperand(Name.text, Line))
    BY DEF CommandWithArg, CommandWithoutArg, Ops, NoArgOps, ArgOps, Jumps,
           ConditionalJumps, Operators, Printers
  <1>2. Kinds(Line) /\ Name = ScannedName(Line, Local.name)
    BY <1>1, LineAtHand DEF Line
  <1>3. PICK e : Write(e) /\ e.bytes = Size(Name.text, Line)
    <2>1. CASE CommandWithArg
      <3>1. Name.text \notin NoArgOps
        BY <2>1 DEF CommandWithArg, NoArgOps, ArgOps, Jumps, ConditionalJumps,
                    Operators, Printers
      <3> QED BY <1>2, <2>1, <3>1, EncodedBytes DEF CommandWithArg
    <2>2. CASE CommandWithoutArg
      <3>1. EncodeWithoutArg(Name.text, NewElem).bytes = 2
        BY DEF EncodeWithoutArg, Encoding
      <3> QED BY <2>2, <3>1 DEF CommandWithoutArg, Size
    <2> QED BY <2>1, <2>2
  <1>4. Accepted(Line, Local)
    BY <1>1, <1>2 DEF Accepted
  <1>5. Local' = NextLocal(Line, Local)
    BY <1>1, <1>2, <1>3 DEF Write, Local, NextLocal
  <1> QED BY <1>1, <1>3, <1>4, <1>5 DEF Write, Recorded

LEMMA LabelLine ==
  ASSUME PassInv, Label, numberLabelInfo < MaxLabels
  PROVE  /\ Running /\ Name.colon
         /\ Accepted(Line, Local) /\ Local' = NextLocal(Line, Local)
         /\ cur' = cur + 1 /\ UNCHANGED <<lines, pass, status>>
         /\ labelInfo' = [labelInfo EXCEPT ![numberLabelInfo] =
                             [str |-> Name.text, value |-> numberBytesFile]]
         /\ numberLabelInfo' = numberLabelInfo + 1
         /\ trace' = IF pass = 1 THEN Append(trace, Local) ELSE trace
  <1>1. Running /\ Name.colon
    BY DEF Label
  <1>2. Name = ScannedName(Line, Local.name)
    BY <1>1, LineAtHand DEF Line
  <1> QED BY <1>1, <1>2 DEF Label, Recorded, Accepted, NextLocal, Local

LEMMA AssemblerInvNext == AssemblerInv /\ [Next]_vars => AssemblerInv'
  <1> SUFFICES ASSUME AssemblerInv, [Next]_vars PROVE AssemblerInv'
    OBVIOUS
  <1>1. ASSUME CommandWithArg \/ CommandWithoutArg PROVE AssemblerInv'
    <2>1. PassInv
      BY DEF AssemblerInv
    <2>2. /\ Running /\ ~Name.colon
          /\ Accepted(Line, Local) /\ Local' = NextLocal(Line, Local)
          /\ cur' = cur + 1 /\ UNCHANGED <<lines, pass, status, labelInfo, numberLabelInfo>>
          /\ trace' = IF pass = 1 THEN Append(trace, Local) ELSE trace
      BY <1>1, <2>1, CommandLine
    <2>3. status = "running" /\ numberLabelInfo \in 0 .. MaxLabels /\ pass \in {1, 2}
      BY <2>1, <2>2 DEF Running, PassInv, Shape
    <2>4. CASE pass = 1
      BY <2>1, <2>2, <2>3, <2>4, AdvanceOne DEF AssemblerInv, WrongOnlyInPassOne
    <2>5. CASE pass = 2
      BY <2>1, <2>2, <2>3, <2>5, AdvanceTwo DEF AssemblerInv, WrongOnlyInPassOne
    <2> QED BY <2>3, <2>4, <2>5
  <1>2. ASSUME Label PROVE AssemblerInv'
    <2>1. PassInv /\ Running /\ Name.colon
      BY <1>2 DEF AssemblerInv, Label
    <2>2. /\ status = "running" /\ numberLabelInfo \in 0 .. MaxLabels /\ pass \in {1, 2}
          /\ labelInfo = [i \in LabelSlots |-> labelInfo[i]]
      BY <2>1 DEF Running, PassInv, Shape
    <2>3. CASE numberLabelInfo < MaxLabels
      <3>1. CASE pass = 1
        BY <1>2, <2>1, <2>2, <2>3, <3>1, LabelLine, AdvanceOne
        DEF AssemblerInv, WrongOnlyInPassOne
      <3>2. CASE pass = 2
        <4>1. labelInfo' = labelInfo
          BY <1>2, <2>1, <2>2, <2>3, <3>2, LabelLine, KnownLine
        <4>2. numberLabelInfo' \in 0 .. MaxLabels
          BY <1>2, <2>1, <2>2, <2>3, LabelLine, MaxLabelsAssumption
        <4> QED BY <1>2, <2>1, <2>2, <2>3, <3>2, <4>1, <4>2, LabelLine, AdvanceTwo
                DEF AssemblerInv, WrongOnlyInPassOne
      <3> QED BY <2>2, <3>1, <3>2
    <2>4. CASE ~(numberLabelInfo < MaxLabels)
      <3>1. pass = 1
        BY <2>1, <2>2, <2>4, KnownLine, MaxLabelsAssumption DEF LabelSlots
      <3> QED BY <1>2, <2>4, <3>1 DEF Label, AssemblerInv, PassInv, WrongOnlyInPassOne
    <2> QED BY <2>3, <2>4
  <1>3. ASSUME Wrong PROVE AssemblerInv'
    <2>1. PassInv /\ Running /\ pass \in {1, 2}
      BY <1>3 DEF AssemblerInv, PassInv, Wrong, Running, Shape
    <2>2. ~Accepted(Line, Local)
      BY <1>3, <2>1, LineAtHand DEF Wrong, Accepted, Line
    <2>3. pass = 1
      BY <2>1, <2>2, KnownLine
    <2> QED BY <1>3, <2>3 DEF Wrong, AssemblerInv, PassInv, WrongOnlyInPassOne
  <1>4. ASSUME EndPass PROVE AssemblerInv'
    <2>1. Shape /\ PassOne /\ PassTwo /\ Chain /\ status = "running" /\ cur > Len(lines)
      BY <1>4 DEF EndPass, AssemblerInv, PassInv
    <2>2. CASE pass = 2
      BY <1>4, <2>2 DEF EndPass, AssemblerInv, PassInv, WrongOnlyInPassOne
    <2>3. CASE pass = 1
      <3>1. /\ pass' = 2 /\ cur' = 1 /\ numberLabelInfo' = 0 /\ status' = status
            /\ lines' = lines /\ labelInfo' = labelInfo
            /\ trace' = Append(trace, Local) /\ Local' = Fresh
        BY <1>4, <2>3 DEF EndPass, Recorded, Local, Fresh
      <3>2. /\ Len(lines) \in Nat \ {0} /\ cur = Len(lines) + 1
            /\ Len(trace) = Len(lines)
        BY <2>1, <2>3, ProgramsAssumption DEF Shape, PassOne
      <3>3. /\ Len(trace') = Len(lines) + 1
            /\ \A i \in 1 .. Len(lines) : trace'[i] = trace[i]
            /\ trace'[Len(lines) + 1] = Local
            /\ trace' \in Seq({trace'[i] : i \in 1 .. Len(trace')})
        <4> DEFINE S == {trace[i] : i \in 1 .. Len(trace)}
        <4>1. trace \in Seq(S \cup {Local}) /\ Local \in S \cup {Local}
          BY <2>1 DEF Shape
        <4> HIDE DEF S
        <4>2. /\ trace' \in Seq(S \cup {Local}) /\ Len(trace') = Len(lines) + 1
              /\ \A i \in 1 .. Len(lines) : trace'[i] = trace[i]
              /\ trace'[Len(lines) + 1] = Local
          BY <3>1, <3>2, <4>1
        <4> QED BY <4>2
      <3>4. \A i \in 1 .. Len(lines) + 1 : Past(i)' = Past(i) /\ Past(i)' = trace'[i]
        BY <3>2, <3>3 DEF Past
      <3>5. Shape'
        BY <2>1, <3>1, <3>2, <3>3, MaxLabelsAssumption DEF Shape
      <3>6. PassTwo'
        <4>1. trace'[1] = Fresh
          BY <2>1, <3>2, <3>4 DEF Chain
        <4> QED BY <3>1, <3>3, <4>1 DEF PassTwo
      <3>7. Chain'
        <4>1. Done = Len(lines) /\ Done' = Len(lines)
          BY <2>3, <3>1, <3>2 DEF Done
        <4>2. \A i \in 1 .. Len(lines) : i + 1 \in 1 .. Len(lines) + 1
          BY <3>2
        <4>3. \A i \in 1 .. Len(lines) : Past(i)' = Past(i) /\ Past(i+1)' = Past(i+1)
          BY <3>2, <3>4, <4>2
        <4>4. \A i \in 1 .. Len(lines) :
                /\ Accepted(lines'[i], Past(i)')
                /\ Past(i+1)' = NextLocal(lines'[i], Past(i)')
                /\ Entered(lines'[i], Past(i)', labelInfo')
          BY <2>1, <3>1, <4>1, <4>3 DEF Chain
        <4>5. Past(1)' = Fresh
          BY <2>1, <3>2, <3>4 DEF Chain
        <4> QED BY <4>1, <4>4, <4>5 DEF Chain
      <3> QED BY <2>1, <3>1, <3>5, <3>6, <3>7
              DEF AssemblerInv, PassInv, PassOne, WrongOnlyInPassOne
    <2> QED BY <2>1, <2>2, <2>3 DEF Shape
  <1>5. CASE UNCHANGED vars
    <2>1. UNCHANGED <<lines, pass, cur, nameOperation, labelInfo, numberLabelInfo,
                      numberBytesFile, status, trace>>
      BY <1>5 DEF vars
    <2>2. Local' = Local
      BY <2>1 DEF Local
    <2>3. Shape = Shape' /\ PassOne = PassOne' /\ PassTwo = PassTwo' /\ Chain = Chain'
      BY <2>1, <2>2 DEF Shape, PassOne, PassTwo, Chain, Past, Done, Local
    <2> QED BY <2>1, <2>3 DEF AssemblerInv, PassInv, WrongOnlyInPassOne
  <1> QED BY <1>1, <1>2, <1>3, <1>4, <1>5 DEF Next

THEOREM AssemblerInvariant == Spec => []AssemblerInv
  BY AssemblerInvInit, AssemblerInvNext, PTL DEF Spec

(***************************************************************************)
(* No line of pass 2 changes the table of labels.                          *)
(***************************************************************************)
THEOREM TableIsStable == Spec => PassTwoStable
  <1>1. ASSUME AssemblerInv, [Next]_vars PROVE [pass = 2 => labelInfo' = labelInfo]_vars
    <2>1. CASE Label
      <3>1. PassInv /\ Running /\ Name.colon
        BY <1>1, <2>1 DEF AssemblerInv, Label
      <3>2. CASE pass = 2
        <4>1. /\ numberLabelInfo \in LabelSlots
              /\ labelInfo[numberLabelInfo] =
                    [str |-> Name.text, value |-> numberBytesFile]
          BY <3>1, <3>2, KnownLine
        <4>2. labelInfo = [i \in LabelSlots |-> labelInfo[i]]
          BY <3>1 DEF PassInv, Running, Shape
        <4>3. labelInfo' = [labelInfo EXCEPT ![numberLabelInfo] =
                              [str |-> Name.text, value |-> numberBytesFile]]
          BY <2>1, <4>1, MaxLabelsAssumption DEF Label, LabelSlots
        <4> QED BY <4>1, <4>2, <4>3
      <3> QED BY <3>2
    <2>2. CASE CommandWithArg \/ CommandWithoutArg
      BY <2>2 DEF CommandWithArg, CommandWithoutArg, Write
    <2>3. CASE Wrong \/ EndPass
      BY <2>3 DEF Wrong, EndPass
    <2>4. CASE Next
      BY <2>1, <2>2, <2>3, <2>4 DEF Next
    <2> QED BY <1>1, <2>4
  <1> QED BY <1>1, AssemblerInvariant, PTL DEF Spec, PassTwoStable

(***************************************************************************)
(* A program that pass 1 accepts is accepted by pass 2.                    *)
(***************************************************************************)
THEOREM PassTwoSucceeds == Spec => []WrongOnlyInPassOne
  <1>1. AssemblerInv => WrongOnlyInPassOne
    BY DEF AssemblerInv
  <1> QED BY <1>1, AssemblerInvariant, PTL

-----------------------------------------------------------------------------
(***************************************************************************)
(* Where the instructions and the labels of a program come to lie: the     *)
(* machine decodes what the assembler wrote, every jump lands on an        *)
(* instruction, and of two labels of one name the first one counts.        *)
(*                                                                         *)
(* AssemblerInv relates the two passes.  LayoutInv adds where the lines    *)
(* are: their addresses never decrease, every entry of the table is the    *)
(* address of a line that defines a label, and the lines of the pass that  *)
(* are done begin at boundaries of the code.                               *)
(***************************************************************************)
Defines(line) == ~line.blank /\ line.word.colon

JumpsByName(line) ==
  /\ ~line.blank /\ ~line.word.colon
  /\ line.word.text \in Jumps /\ line.operand.kind = "name"

(* Every instruction ends where another begins, or at the end.             *)
Decoded == \A a \in DOMAIN code : a + InstrSize(code[a]) \in Boundaries

(* The local states before the lines of pass 1 follow one another.         *)
Ascending ==
  /\ \A i \in 1 .. Done + 1 :
       ~Past(i).name.colon /\ Past(i).bytes \in Nat /\ Past(i).labels \in Nat
  /\ \A i, j \in 1 .. Done + 1 :
       i <= j => Past(i).bytes <= Past(j).bytes /\ Past(i).labels <= Past(j).labels

(* Every entry of the table was made by a line, and the free ones are at    *)
(* the end of it.                                                          *)
EntriesAreLines ==
  \A k \in LabelSlots :
    \/ labelInfo[k] = NoLabel /\ \A i \in 1 .. Done + 1 : Past(i).labels <= k
    \/ \E i \in 1 .. Done : Defines(lines[i]) /\ Past(i).labels = k

(* The lines of this pass that are done, and the next, begin at boundaries. *)
LinesLie == \A i \in 1 .. cur : Past(i).bytes \in Boundaries

(* The jump at a was written for a line, and goes where its name says.     *)
WrittenFor(a, i) ==
  /\ ~lines[i].blank
  /\ Past(i).bytes = a
  /\ code[a].arg = CheckLabelJump(labelInfo, lines[i].operand.text)

(* The jumps of pass 2: they go to lines, and to those their names say.    *)
Resolved ==
  pass = 2 =>
    /\ \A a \in DOMAIN code :
         code[a].op \in Jumps =>
           /\ code[a].arg \in {-1} \cup {Past(i).bytes : i \in 1 .. Len(lines)}
           /\ \E i \in 1 .. Len(lines) : WrittenFor(a, i)
    /\ \A i \in 1 .. cur - 1 :
         JumpsByName(lines[i]) =>
           code[Past(i).bytes].arg = CheckLabelJump(labelInfo, lines[i].operand.text)

LayoutInv ==
  /\ AssemblerInv
  /\ Decoded
  /\ status = "running" => Ascending /\ EntriesAreLines /\ LinesLie /\ Resolved
  /\ JumpsLand
  /\ FirstDefinitionWins

-----------------------------------------------------------------------------
(* A name stands for the first entry that bears it, or for none.           *)
LEMMA LookedUp ==
  ASSUME NEW table, DOMAIN table = LabelSlots, NEW str
  PROVE  /\ CheckLabelJump(table, str) \in {-1} \cup {table[k].value : k \in LabelSlots}
         /\ \A i \in LabelSlots :
              /\ table[i].str = str
              /\ \A j \in LabelSlots : table[j].str = str => i <= j
              => CheckLabelJump(table, str) = table[i].value
  <1> DEFINE found == {i \in DOMAIN table : table[i].str = str}
             first == CHOOSE i \in found : \A j \in found : i <= j
  <1>1. found \in SUBSET Nat
    BY MaxLabelsAssumption DEF LabelSlots
  <1>2. CASE found = {}
    BY <1>2 DEF CheckLabelJump
  <1>3. CASE found # {}
    <2>1. first \in found /\ \A j \in found : first <= j
      BY <1>1, <1>3, First
    <2>2. CheckLabelJump(table, str) = table[first].value
      BY <1>3 DEF CheckLabelJump
    <2>3. ASSUME NEW i \in LabelSlots, table[i].str = str,
                 \A j \in LabelSlots : table[j].str = str => i <= j
          PROVE  i = first
      <3>1. i \in found /\ i <= first /\ first <= i
        BY <2>1, <2>3
      <3> QED BY <1>1, <2>1, <3>1
    <2> HIDE DEF first
    <2> QED BY <2>1, <2>2, <2>3
  <1> QED BY <1>2, <1>3

(* An encoding is as long as the machine takes it to be; only a lone name  *)
(* makes a jump, and the jump goes where the table says.                   *)
LEMMA EncodingFits ==
  ASSUME NEW op \in ArgOps \cup Jumps, NEW line, Kinds(line), NEW e, NEW table,
         NEW enc, enc = EncodeWithArg(op, line, e, table)
  PROVE  /\ InstrSize(enc.instr) = enc.bytes
         /\ enc.instr.op \in Jumps =>
              ~line.blank /\ enc.instr.arg = CheckLabelJump(table, line.operand.text)
         /\ op \in Jumps /\ Cnt(line) = 1 /\ line.operand.kind = "name" =>
              enc.instr.arg = CheckLabelJump(table, line.operand.text)
  <1> DEFINE o == line.operand
  <1> USE DEF Encoding, InstrSize, CodeBytes, RegBytes, IntBytes, NoArgOps, ArgOps,
              Jumps, ConditionalJumps, Operators, Printers
  <1>1. CASE Cnt(line) # 1
    <2>1. enc = Encoding("PUSH", "imm", e, 6, e)
      BY <1>1 DEF EncodeWithArg
    <2> QED BY <1>1, <2>1
  <1>2. CASE Cnt(line) = 1 /\ o.kind = "atname"
    <2>1. enc = Encoding(PushPopOrSqrt(op), "memreg", DefineRegistr(o.text), 3, e)
      BY <1>2 DEF EncodeWithArg
    <2> QED BY <1>2, <2>1 DEF PushPopOrSqrt
  <1>3. CASE Cnt(line) = 1 /\ o.kind = "atint"
    <2>1. enc = Encoding(PushPopOrSqrt(op), "memimm", o.value, 6, o.value)
      BY <1>3 DEF EncodeWithArg
    <2> QED BY <1>3, <2>1 DEF PushPopOrSqrt
  <1>4. CASE Cnt(line) = 1 /\ o.kind \in {"none", "name"} /\ op \in Jumps
    <2> DEFINE address == CheckLabelJump(table, o.text)
    <2>1. enc = Encoding(op, "none", address, 6, address)
      BY <1>4 DEF EncodeWithArg
    <2> HIDE DEF address
    <2>2. InstrSize(enc.instr) = enc.bytes /\ enc.instr.arg = address
      BY <1>4, <2>1
    <2>3. ~line.blank
      BY <1>4 DEF Cnt
    <2> QED BY <2>2, <2>3 DEF address
  <1>5. CASE Cnt(line) = 1 /\ o.kind \in {"none", "name"} /\ op \notin Jumps
    <2>1. enc = Encoding(op, "reg", DefineRegistr(o.text), 3, e)
      BY <1>5 DEF EncodeWithArg
    <2> QED BY <1>5, <2>1
  <1>6. Cnt(line) = 1 => o.kind \in {"none", "name", "atname", "atint"}
    BY DEF Cnt, Kinds, OperandKinds
  <1> QED BY <1>1, <1>2, <1>3, <1>4, <1>5, <1>6
-----------------------------------------------------------------------------
(* A word scanned from a line, when no colon is left over from before.     *)
LEMMA ScannedWord ==
  ASSUME PassInv, Running, ~nameOperation.colon
  PROVE  /\ Line = lines[cur]
         /\ Line.word = [colon |-> Line.word.colon, text |-> Line.word.text]
         /\ (Name.colon <=> Defines(Line))
         /\ ~Line.blank => Name = Line.word
  <1>1. cur \in 1 .. Len(lines) /\ lines \in Programs
    BY LineAtHand DEF PassInv, Running, Shape
  <1>2. Line.blank \in BOOLEAN /\ Line.word \in [colon : BOOLEAN, text : STRING]
    BY <1>1, ProgramsAssumption DEF Line
  <1>3. CASE Line.blank
    BY <1>2, <1>3 DEF Name, ScannedName, Defines, Line
  <1>4. CASE ~Line.blank
    <2>1. Name = Line.word
      BY <1>4 DEF Name, ScannedName
    <2> QED BY <1>2, <1>4, <2>1 DEF Defines, Line
  <1> QED BY <1>2, <1>3, <1>4

(* A line that a pass goes beyond adds the state behind it to the history. *)
LEMMA HistoryGrows ==
  ASSUME PassInv, Running, Local' = NextLocal(Line, Local),
         cur' = cur + 1, UNCHANGED <<lines, pass>>,
         trace' = IF pass = 1 THEN Append(trace, Local) ELSE trace
  PROVE  /\ cur \in 1 .. Done + 1 /\ Done \in Nat
         /\ \/ Done' = Done /\ pass = 2
            \/ Done' = Done + 1 /\ Done' = cur /\ pass = 1
         /\ \A i \in 1 .. Done + 1 : Past(i)' = Past(i)
         /\ Past(cur) = Local
         /\ cur + 1 <= Done' + 1
         /\ \A i \in Nat : i = cur + 1 => Past(i)' = NextLocal(Line, Local)
  <1>1. cur \in 1 .. Len(lines) /\ Len(lines) \in Nat /\ Line = lines[cur]
    BY LineAtHand DEF Line
  <1>2. Shape /\ PassOne /\ PassTwo /\ Chain
    BY DEF PassInv, Running
  <1>3. CASE pass = 1
    <2>1. Len(trace) = cur - 1 /\ Done = cur - 1 /\ Done' = cur
      BY <1>1, <1>2, <1>3 DEF PassOne, Done
    <2>2. /\ Len(trace') = cur
          /\ \A i \in 1 .. cur - 1 : trace'[i] = trace[i]
          /\ trace'[cur] = Local
      <3> DEFINE S == {trace[i] : i \in 1 .. Len(trace)} \cup {Local}
      <3>1. trace \in Seq(S) /\ Local \in S
        BY <1>2 DEF Shape
      <3> HIDE DEF S
      <3> QED BY <1>1, <1>3, <2>1, <3>1
    <2> QED BY <1>1, <1>3, <2>1, <2>2 DEF Past
  <1>4. CASE pass = 2
    <2>1. /\ Len(trace) = Len(lines) + 1 /\ Local = trace[cur] /\ trace' = trace
          /\ Done = Len(lines) /\ Done' = Len(lines)
      BY <1>1, <1>2, <1>4 DEF PassTwo, Done
    <2>2. Past(cur + 1) = NextLocal(lines[cur], Past(cur)) /\ Past(cur) = Local
      BY <1>1, <1>2, <2>1 DEF Chain, Past
    <2> QED BY <1>1, <1>4, <2>1, <2>2 DEF Past
  <1> QED BY <1>2, <1>3, <1>4 DEF Shape

(* The pass ends with the history of a whole pass 1.                       *)
LEMMA HistoryOfAPass ==
  ASSUME PassInv, status = "running", cur > Len(lines)
  PROVE  /\ Len(lines) \in Nat \ {0} /\ cur = Len(lines) + 1 /\ Done = Len(lines)
         /\ Past(cur) = Local
         /\ \A i \in 1 .. Len(lines) : Past(i) = trace[i]
  <1>1. Shape /\ PassOne /\ PassTwo
    BY DEF PassInv
  <1>2. Len(lines) \in Nat \ {0} /\ cur = Len(lines) + 1
    BY <1>1, ProgramsAssumption DEF Shape
  <1>3. pass = 1 \/ pass = 2
    BY <1>1 DEF Shape
  <1> QED BY <1>1, <1>2, <1>3 DEF PassOne, PassTwo, Past, Done

(* The history outlives the pass.                                          *)
LEMMA HistoryKept ==
  ASSUME PassInv, EndPass, pass = 1
  PROVE  /\ Done' = Done
         /\ \A i \in 1 .. Done + 1 : Past(i)' = Past(i)
         /\ Past(1)'.bytes = 0
  <1>1. /\ Len(lines) \in Nat \ {0} /\ cur = Len(lines) + 1 /\ Done = Len(lines)
        /\ Past(cur) = Local
    BY HistoryOfAPass DEF EndPass
  <1>2. Shape /\ PassOne /\ Chain
    BY DEF PassInv, EndPass
  <1>3. /\ Len(trace) = Len(lines) /\ trace' = Append(trace, Local)
        /\ pass' = 2 /\ lines' = lines
    BY <1>1, <1>2 DEF EndPass, Recorded, PassOne
  <1>4. /\ Len(trace') = Len(lines) + 1
        /\ \A i \in 1 .. Len(lines) : trace'[i] = trace[i]
        /\ trace'[Len(lines) + 1] = Local
    <2> DEFINE S == {trace[i] : i \in 1 .. Len(trace)} \cup {Local}
    <2>1. trace \in Seq(S) /\ Local \in S
      BY <1>2 DEF Shape
    <2> HIDE DEF S
    <2> QED BY <1>1, <1>3, <2>1
  <1>5. Done' = Len(lines)
    BY <1>3 DEF Done
  <1>6. \A i \in 1 .. Len(lines) + 1 : Past(i)' = Past(i)
    BY <1>1, <1>3, <1>4 DEF Past
  <1>7. Past(1).bytes = 0
    BY <1>2 DEF Chain, Fresh
  <1> QED BY <1>1, <1>5, <1>6, <1>7
-----------------------------------------------------------------------------
(* The state behind a line lies no lower than the one before it.           *)
LEMMA AscendingGrows ==
  ASSUME PassInv, Running, Ascending, Local' = NextLocal(Line, Local),
         cur' = cur + 1, UNCHANGED <<lines, pass>>,
         trace' = IF pass = 1 THEN Append(trace, Local) ELSE trace
  PROVE  Ascending'
  <1> DEFINE next == NextLocal(Line, Local)
  <1>1. /\ cur \in 1 .. Done + 1 /\ Done \in Nat
        /\ Done' = Done \/ (Done' = Done + 1 /\ Done' = cur)
        /\ \A i \in 1 .. Done + 1 : Past(i)' = Past(i)
        /\ Past(cur) = Local
        /\ \A i \in Nat : i = cur + 1 => Past(i)' = next
    BY HistoryGrows
  <1>2. ~Local.name.colon /\ Local.bytes \in Nat /\ Local.labels \in Nat
    BY <1>1 DEF Ascending
  <1>3. /\ ~next.name.colon /\ next.bytes \in Nat /\ next.labels \in Nat
        /\ Local.bytes <= next.bytes /\ Local.labels <= next.labels
    <2>1. Size(ScannedName(Line, Local.name).text, Line) \in Nat
      BY DEF Size
    <2> QED BY <1>2, <2>1 DEF NextLocal
  <1> HIDE DEF next
  <1>4. ASSUME NEW i \in 1 .. Done' + 1
        PROVE  \/ i \in 1 .. Done + 1 /\ Past(i)' = Past(i)
               \/ Past(i)' = next /\ cur = Done + 1
    BY <1>1
  <1>5. ASSUME NEW i \in 1 .. Done' + 1
        PROVE  ~(Past(i)').name.colon /\ (Past(i)').bytes \in Nat /\ (Past(i)').labels \in Nat
    BY <1>3, <1>4 DEF Ascending
  <1>6. ASSUME NEW i \in 1 .. Done' + 1, NEW j \in 1 .. Done' + 1, i <= j
        PROVE  (Past(i)').bytes <= (Past(j)').bytes /\ (Past(i)').labels <= (Past(j)').labels
    <2>1. CASE j \in 1 .. Done + 1
      <3>1. i \in 1 .. Done + 1
        BY <1>1, <1>6, <2>1
      <3> QED BY <1>1, <1>6, <2>1, <3>1 DEF Ascending
    <2>2. CASE j \notin 1 .. Done + 1
      <3>1. Past(j)' = next /\ cur = Done + 1
        BY <1>4, <2>2
      <3>2. CASE i \in 1 .. Done + 1
        <4>1. Past(i).bytes <= Local.bytes /\ Past(i).labels <= Local.labels
          BY <1>1, <3>1, <3>2 DEF Ascending
        <4>2. Past(i).bytes \in Nat /\ Past(i).labels \in Nat /\ Past(i)' = Past(i)
          BY <1>1, <3>2 DEF Ascending
        <4> QED BY <1>2, <1>3, <3>1, <4>1, <4>2
      <3>3. CASE i \notin 1 .. Done + 1
        BY <1>3, <1>4, <3>1, <3>3
      <3> QED BY <3>2, <3>3
    <2> QED BY <2>1, <2>2
  <1> QED BY <1>5, <1>6 DEF Ascending

(* What a command writes.                                                  *)
LEMMA Written ==
  ASSUME PassInv, ~nameOperation.colon, CommandWithArg \/ CommandWithoutArg
  PROVE  \E e : /\ Write(e)
                /\ e.bytes = Size(Name.text, Line)
                /\ e.bytes \in Nat \ {0}
                /\ InstrSize(e.instr) = e.bytes
                /\ e.instr.op \in Jumps =>
                     /\ e.instr.arg \in {-1} \cup {labelInfo[k].value : k \in LabelSlots}
                     /\ ~Line.blank
                     /\ e.instr.arg = CheckLabelJump(labelInfo, Line.operand.text)
                /\ JumpsByName(Line) =>
                     e.instr.arg = CheckLabelJump(labelInfo, Line.operand.text)
  <1>1. Running
    BY DEF CommandWithArg, CommandWithoutArg
  <1>2. /\ Kinds(Line) /\ DOMAIN labelInfo = LabelSlots
        /\ ~Line.blank => Name = Line.word
    BY <1>1, LineAtHand, ScannedWord DEF Line, PassInv, Running, Shape
  <1>3. Size(Name.text, Line) \in Nat \ {0}
    BY DEF Size
  <1>4. CASE CommandWithArg
    <2> DEFINE enc == EncodeWithArg(Name.text, Line, NewElem, labelInfo)
    <2>1. Write(enc) /\ Name.text \in ArgOps \cup Jumps /\ Name.text \notin NoArgOps
      BY <1>4 DEF CommandWithArg, NoArgOps, ArgOps, Jumps, ConditionalJumps,
                  Operators, Printers
    <2>2. /\ InstrSize(enc.instr) = enc.bytes
          /\ enc.instr.op \in Jumps =>
               ~Line.blank /\ enc.instr.arg = CheckLabelJump(labelInfo, Line.operand.text)
          /\ Name.text \in Jumps /\ Cnt(Line) = 1 /\ Line.operand.kind = "name" =>
               enc.instr.arg = CheckLabelJump(labelInfo, Line.operand.text)
      BY <1>2, <2>1, EncodingFits
    <2>3. enc.bytes = Size(Name.text, Line)
      BY <1>2, <2>1, EncodedBytes
    <2>4. JumpsByName(Line) => Name.text \in Jumps /\ Cnt(Line) = 1
      BY <1>2 DEF JumpsByName, Cnt
    <2> HIDE DEF enc
    <2> QED BY <1>2, <1>3, <2>1, <2>2, <2>3, <2>4, LookedUp DEF JumpsByName
  <1>5. CASE CommandWithoutArg
    <2> DEFINE enc == EncodeWithoutArg(Name.text, NewElem)
    <2>1. Write(enc) /\ Name.text \in NoArgOps
      BY <1>5 DEF CommandWithoutArg
    <2>2. enc.bytes = 2 /\ enc.instr.op = Name.text
      BY DEF EncodeWithoutArg, Encoding
    <2>3. Name.text \notin Jumps
      BY <2>1 DEF NoArgOps, Jumps, ConditionalJumps, Operators, Printers
    <2> HIDE DEF enc
    <2>4. InstrSize(enc.instr) = 2
      BY <2>1, <2>2 DEF InstrSize, CodeBytes, IntBytes, RegBytes, NoArgOps, ArgOps,
                        Jumps, ConditionalJumps, Operators, Printers
    <2>5. ~JumpsByName(Line)
      BY <1>2, <2>3 DEF JumpsByName
    <2> QED BY <1>3, <2>1, <2>2, <2>3, <2>4, <2>5 DEF Size
  <1> QED BY <1>4, <1>5
Lie == Ascending /\ EntriesAreLines /\ LinesLie /\ Resolved

(* A command is written at the end of what is there.                       *)
LEMMA WrittenCode ==
  ASSUME Decoded, NEW e, Write(e), InstrSize(e.instr) = e.bytes
  PROVE  /\ Decoded'
         /\ Boundaries \subseteq Boundaries' /\ numberBytesFile' \in Boundaries'
         /\ DOMAIN code' = DOMAIN code \cup {numberBytesFile}
         /\ code'[numberBytesFile] = e.instr
         /\ \A a \in DOMAIN code : a # numberBytesFile => code'[a] = code[a]
  <1>1. /\ code' = [a \in DOMAIN code \cup {numberBytesFile} |->
                      IF a = numberBytesFile THEN e.instr ELSE code[a]]
        /\ numberBytesFile' = numberBytesFile + e.bytes
    BY DEF Write
  <1>2. /\ DOMAIN code' = DOMAIN code \cup {numberBytesFile}
        /\ code'[numberBytesFile] = e.instr
        /\ \A a \in DOMAIN code : a # numberBytesFile => code'[a] = code[a]
    BY <1>1
  <1>3. Boundaries \subseteq DOMAIN code' /\ Boundaries' = DOMAIN code' \cup {numberBytesFile'}
    BY <1>2 DEF Boundaries
  <1>4. \A a \in DOMAIN code' : a + InstrSize(code'[a]) \in Boundaries'
    <2>1. ASSUME NEW a \in DOMAIN code' PROVE a + InstrSize(code'[a]) \in Boundaries'
      <3>1. CASE a = numberBytesFile
        BY <1>1, <1>2, <1>3, <3>1
      <3>2. CASE a # numberBytesFile
        BY <1>2, <1>3, <3>2 DEF Decoded
      <3> QED BY <3>1, <3>2
    <2> QED BY <2>1
  <1> QED BY <1>2, <1>3, <1>4 DEF Decoded

LEMMA CommandKeepsLayout ==
  ASSUME AssemblerInv, Decoded, Lie, CommandWithArg \/ CommandWithoutArg
  PROVE  Decoded' /\ Lie'
  <1>1. PassInv /\ Running
    BY DEF AssemblerInv, CommandWithArg, CommandWithoutArg
  <1>2. /\ Local' = NextLocal(Line, Local) /\ cur' = cur + 1
        /\ UNCHANGED <<lines, pass, status, labelInfo, numberLabelInfo>>
        /\ trace' = IF pass = 1 THEN Append(trace, Local) ELSE trace
    BY <1>1, CommandLine
  <1>3. /\ cur \in 1 .. Done + 1 /\ Done \in Nat
        /\ Done' = Done \/ (Done' = Done + 1 /\ Done' = cur)
        /\ \A i \in 1 .. Done + 1 : Past(i)' = Past(i)
        /\ Past(cur) = Local
        /\ \A i \in Nat : i = cur + 1 => Past(i)' = Local'
    BY <1>1, <1>2, HistoryGrows
  <1>4. /\ ~nameOperation.colon /\ numberBytesFile \in Nat
        /\ Local.bytes = numberBytesFile /\ (Local.bytes)' = numberBytesFile'
    BY <1>3 DEF Lie, Ascending, Local
  <1>5. PICK e : /\ Write(e) /\ e.bytes \in Nat \ {0}
                 /\ InstrSize(e.instr) = e.bytes
                 /\ e.instr.op \in Jumps =>
                      /\ e.instr.arg \in {-1} \cup {labelInfo[k].value : k \in LabelSlots}
                      /\ ~Line.blank
                      /\ e.instr.arg = CheckLabelJump(labelInfo, Line.operand.text)
                 /\ JumpsByName(Line) =>
                      e.instr.arg = CheckLabelJump(labelInfo, Line.operand.text)
    BY <1>1, <1>4, Written
  <1>6. /\ Decoded'
        /\ Boundaries \subseteq Boundaries' /\ numberBytesFile' \in Boundaries'
        /\ DOMAIN code' = DOMAIN code \cup {numberBytesFile}
        /\ code'[numberBytesFile] = e.instr
        /\ \A a \in DOMAIN code : a # numberBytesFile => code'[a] = code[a]
    BY <1>5, WrittenCode
  <1>7. Ascending'
    BY <1>1, <1>2, AscendingGrows DEF Lie
  <1>8. EntriesAreLines'
    <2>1. \A i \in 1 .. Done : i \in 1 .. Done' /\ Past(i)' = Past(i)
      BY <1>3
    <2>2. (Local.labels)' = Local.labels
      BY <1>2 DEF Local
    <2>3. ASSUME NEW i \in 1 .. Done' + 1
          PROVE  \E j \in 1 .. Done + 1 : (Past(i)').labels = Past(j).labels
      <3>1. CASE i \in 1 .. Done + 1
        BY <1>3, <3>1
      <3>2. CASE i = cur + 1
        BY <1>3, <2>2, <3>2
      <3> QED BY <1>3, <3>1, <3>2
    <2> QED BY <1>2, <2>1, <2>3 DEF Lie, EntriesAreLines
  <1>9. LinesLie'
    <2>1. ASSUME NEW i \in 1 .. cur + 1 PROVE (Past(i)').bytes \in Boundaries'
      <3>1. CASE i \in 1 .. cur
        BY <1>3, <1>6, <3>1 DEF Lie, LinesLie
      <3>2. CASE i = cur + 1
        BY <1>3, <1>4, <1>6, <3>2
      <3> QED BY <1>3, <3>1, <3>2
    <2> QED BY <1>2, <2>1 DEF LinesLie
  <1>10. Resolved'
    <2> SUFFICES ASSUME pass = 2 PROVE Resolved'
      BY <1>2 DEF Resolved
    <2>1. /\ Done = Len(lines) /\ Len(lines) \in Nat /\ Line = lines[cur]
          /\ cur \in 1 .. Len(lines)
      BY <1>1, LineAtHand DEF Done, Line
    <2> DEFINE goals == {-1} \cup {Past(i).bytes : i \in 1 .. Len(lines)}
    <2>0. /\ Past(1).bytes = 0 /\ 1 \in 1 .. Len(lines)
          /\ \A i \in 1 .. Len(lines) :
               /\ Past(i).bytes \in goals
               /\ Entered(lines[i], Past(i), labelInfo)
               /\ Past(i + 1) = NextLocal(lines[i], Past(i))
      BY <1>1, <2>1 DEF PassInv, Running, Chain, Fresh
    <2> HIDE DEF goals
    <2>2. \A k \in LabelSlots : labelInfo[k].value \in goals
      <3>1. ASSUME NEW k \in LabelSlots PROVE labelInfo[k].value \in goals
        <4>1. CASE labelInfo[k] = NoLabel
          <5>1. NoLabel.value = 0
            BY DEF NoLabel
          <5>2. Past(1).bytes \in goals /\ Past(1).bytes = 0
            BY <2>0
          <5> QED BY <4>1, <5>1, <5>2
        <4>2. ASSUME NEW i \in 1 .. Done, Defines(lines[i]), Past(i).labels = k
              PROVE  labelInfo[k].value \in goals
          <5>1. ScannedName(lines[i], Past(i).name).colon
            BY <4>2 DEF Defines, ScannedName
          <5>2. Entered(lines[i], Past(i), labelInfo) /\ Past(i).bytes \in goals
            BY <2>0, <2>1, <4>2
          <5>3. labelInfo[k] = [str |-> ScannedName(lines[i], Past(i).name).text,
                                value |-> Past(i).bytes]
            BY <4>2, <5>1, <5>2 DEF Entered
          <5> QED BY <5>2, <5>3
        <4> QED BY <4>1, <4>2 DEF Lie, EntriesAreLines
      <3> QED BY <3>1
    <2>3. /\ {(Past(i)').bytes : i \in 1 .. Len(lines)} = {Past(i).bytes : i \in 1 .. Len(lines)}
      BY <1>3, <2>1
    <2>4. \A a \in DOMAIN code' : code'[a].op \in Jumps => code'[a].arg \in goals
      <3>1. ASSUME NEW a \in DOMAIN code', code'[a].op \in Jumps PROVE code'[a].arg \in goals
        <4>1. CASE a = numberBytesFile
          BY <1>5, <1>6, <2>2, <3>1, <4>1 DEF goals
        <4>2. CASE a # numberBytesFile
          BY <1>6, <3>1, <4>2 DEF Lie, Resolved, goals
        <4> QED BY <4>1, <4>2
      <3> QED BY <3>1
    <2>8. ASSUME NEW a \in DOMAIN code', code'[a].op \in Jumps
          PROVE  \E i \in 1 .. Len(lines) :
                   /\ ~lines[i].blank /\ (Past(i)').bytes = a
                   /\ code'[a].arg = CheckLabelJump(labelInfo, lines[i].operand.text)
      <3>1. CASE a = numberBytesFile
        BY <1>3, <1>4, <1>5, <1>6, <2>1, <2>8, <3>1
      <3>2. CASE a # numberBytesFile
        <4>1. PICK i \in 1 .. Len(lines) : WrittenFor(a, i)
          BY <1>6, <2>8, <3>2 DEF Lie, Resolved
        <4>2. Past(i)' = Past(i)
          BY <1>3, <2>1
        <4> QED BY <1>6, <2>8, <3>2, <4>1, <4>2 DEF WrittenFor
      <3> QED BY <3>1, <3>2
    <2>5. ASSUME NEW i \in 1 .. cur, JumpsByName(lines[i])
          PROVE  code'[Past(i).bytes].arg = CheckLabelJump(labelInfo, lines[i].operand.text)
      <3>1. CASE i = cur
        BY <1>3, <1>4, <1>5, <1>6, <2>1, <2>5, <3>1
      <3>2. CASE i # cur
        <4>1. i \in 1 .. cur - 1 /\ i \in 1 .. Len(lines) /\ i + 1 \in 1 .. cur
              /\ i + 1 \in 1 .. Done + 1 /\ i \in 1 .. Done + 1
          BY <1>3, <2>1, <3>2
        <4>2. Past(i + 1).bytes = Past(i).bytes + Size(lines[i].word.text, lines[i])
          <5>1. Past(i + 1) = NextLocal(lines[i], Past(i))
            BY <2>0, <4>1
          <5>2. ScannedName(lines[i], Past(i).name) = lines[i].word /\ ~lines[i].word.colon
            BY <2>5 DEF ScannedName, JumpsByName
          <5> QED BY <5>1, <5>2 DEF NextLocal
        <4>3. Size(lines[i].word.text, lines[i]) \in Nat \ {0}
          BY DEF Size
        <4>4. Past(i).bytes \in Nat /\ Past(i + 1).bytes <= numberBytesFile
          BY <1>3, <1>4, <4>1 DEF Lie, Ascending
        <4>5. Past(i).bytes # numberBytesFile
          BY <1>4, <4>2, <4>3, <4>4
        <4>6. Past(i).bytes \in DOMAIN code
          BY <1>3, <4>1, <4>5 DEF Lie, LinesLie, Boundaries
        <4> QED BY <1>6, <2>5, <4>1, <4>5, <4>6 DEF Lie, Resolved
      <3> QED BY <2>1, <3>1, <3>2
    <2>6. \A i \in 1 .. cur : JumpsByName(lines[i]) =>
            code'[(Past(i)').bytes].arg = CheckLabelJump(labelInfo, lines[i].operand.text)
      BY <1>3, <2>5
    <2>7. cur' - 1 = cur
      BY <1>2, <2>1
    <2> QED BY <1>2, <2>3, <2>4, <2>6, <2>7, <2>8 DEF Resolved, WrittenFor, goals
  <1> QED BY <1>6, <1>7, <1>8, <1>9, <1>10 DEF Lie
(* The same for a label: in pass 2 it finds its entry made.                *)
LEMMA LabelKeepsLayout ==
  ASSUME AssemblerInv, Decoded, Lie, Label, numberLabelInfo < MaxLabels
  PROVE  Decoded' /\ Lie'
  <1>1. PassInv /\ Running
    BY DEF AssemblerInv, Label
  <1>2. /\ Name.colon /\ Local' = NextLocal(Line, Local) /\ cur' = cur + 1
        /\ UNCHANGED <<lines, pass, status>>
        /\ labelInfo' = [labelInfo EXCEPT ![numberLabelInfo] =
                             [str |-> Name.text, value |-> numberBytesFile]]
        /\ numberLabelInfo' = numberLabelInfo + 1
        /\ trace' = IF pass = 1 THEN Append(trace, Local) ELSE trace
    BY <1>1, LabelLine
  <1>3. /\ cur \in 1 .. Done + 1 /\ Done \in Nat
        /\ \/ Done' = Done /\ pass = 2
           \/ Done' = Done + 1 /\ Done' = cur /\ pass = 1
        /\ \A i \in 1 .. Done + 1 : Past(i)' = Past(i)
        /\ Past(cur) = Local
        /\ \A i \in Nat : i = cur + 1 => Past(i)' = Local'
    BY <1>1, <1>2, HistoryGrows
  <1>4. /\ ~nameOperation.colon /\ numberBytesFile' = numberBytesFile /\ code' = code
        /\ Local.bytes = numberBytesFile /\ (Local.bytes)' = numberBytesFile
        /\ Local.labels = numberLabelInfo /\ (Local.labels)' = numberLabelInfo + 1
    BY <1>2, <1>3 DEF Lie, Ascending, Local, Label
  <1>5. Decoded' /\ Boundaries' = Boundaries
    BY <1>4 DEF Decoded, Boundaries
  <1>6. Ascending'
    BY <1>1, <1>2, AscendingGrows DEF Lie
  <1>7. Defines(Line) /\ Line = lines[cur] /\ ~JumpsByName(Line)
    BY <1>1, <1>2, <1>4, ScannedWord DEF Defines, JumpsByName
  <1>8. /\ numberLabelInfo \in Nat
        /\ labelInfo = [i \in LabelSlots |-> labelInfo[i]]
    BY <1>1, MaxLabelsAssumption DEF PassInv, Running, Shape
  <1>9. pass = 2 => labelInfo' = labelInfo
    BY <1>1, <1>2, <1>8, KnownLine
  <1>10. EntriesAreLines'
    <2>1. CASE pass = 2
      BY <1>2, <1>3, <1>9, <2>1 DEF Lie, EntriesAreLines
    <2>2. CASE pass = 1
      <3>1. ASSUME NEW k \in LabelSlots, k # numberLabelInfo,
                   labelInfo[k] = NoLabel, \A i \in 1 .. Done + 1 : Past(i).labels <= k
            PROVE  labelInfo'[k] = NoLabel /\ \A i \in 1 .. Done' + 1 : (Past(i)').labels <= k
        <4>1. numberLabelInfo <= k /\ k \in Nat
          BY <1>3, <1>4, <3>1, MaxLabelsAssumption DEF LabelSlots
        <4>2. ASSUME NEW i \in 1 .. Done' + 1 PROVE (Past(i)').labels <= k
          <5>1. CASE i \in 1 .. Done + 1
            BY <1>3, <3>1, <5>1
          <5>2. CASE i = cur + 1
            BY <1>3, <1>4, <1>8, <3>1, <4>1, <5>2
          <5> QED BY <1>3, <2>2, <5>1, <5>2
        <4> QED BY <1>2, <1>8, <3>1, <4>2
      <3>2. ASSUME NEW k \in LabelSlots, NEW i \in 1 .. Done,
                   Defines(lines[i]), Past(i).labels = k
            PROVE  i \in 1 .. Done' /\ Defines(lines'[i]) /\ (Past(i)').labels = k
        BY <1>2, <1>3, <2>2, <3>2
      <3>3. cur \in 1 .. Done' /\ Defines(lines'[cur]) /\ \A i \in Nat : i = cur => (Past(i)').labels = numberLabelInfo
        BY <1>2, <1>3, <1>4, <1>7, <2>2
      <3>4. ASSUME NEW k \in LabelSlots
            PROVE  \/ labelInfo'[k] = NoLabel /\ \A i \in 1 .. Done' + 1 : (Past(i)').labels <= k
                   \/ \E i \in 1 .. Done' : Defines(lines'[i]) /\ (Past(i)').labels = k
        <4>1. CASE k = numberLabelInfo
          BY <3>3, <4>1
        <4>2. CASE k # numberLabelInfo
          BY <3>1, <3>2, <4>2 DEF Lie, EntriesAreLines
        <4> QED BY <4>1, <4>2
      <3> QED BY <3>4 DEF EntriesAreLines
    <2> QED BY <1>3, <2>1, <2>2
  <1>11. LinesLie'
    <2>1. ASSUME NEW i \in 1 .. cur + 1 PROVE (Past(i)').bytes \in Boundaries'
      <3>1. CASE i \in 1 .. cur
        BY <1>3, <1>5, <3>1 DEF Lie, LinesLie
      <3>2. CASE i = cur + 1
        BY <1>3, <1>4, <1>5, <3>2 DEF Boundaries
      <3> QED BY <1>3, <3>1, <3>2
    <2> QED BY <1>2, <2>1 DEF LinesLie
  <1>12. Resolved'
    <2> SUFFICES ASSUME pass = 2 PROVE Resolved'
      BY <1>2 DEF Resolved
    <2>1. Done = Len(lines) /\ Len(lines) \in Nat /\ cur \in 1 .. Len(lines)
      BY <1>1, LineAtHand DEF Done
    <2>2. {(Past(i)').bytes : i \in 1 .. Len(lines)} = {Past(i).bytes : i \in 1 .. Len(lines)}
      BY <1>3, <2>1
    <2>3. \A i \in 1 .. cur : JumpsByName(lines[i]) =>
            code[(Past(i)').bytes].arg = CheckLabelJump(labelInfo, lines[i].operand.text)
      <3>1. ASSUME NEW i \in 1 .. cur, JumpsByName(lines[i])
            PROVE  /\ Past(i)' = Past(i)
                   /\ code[Past(i).bytes].arg = CheckLabelJump(labelInfo, lines[i].operand.text)
        <4>1. i \in 1 .. cur - 1
          BY <1>3, <1>7, <3>1
        <4> QED BY <1>3, <3>1, <4>1 DEF Lie, Resolved
      <3> QED BY <3>1
    <2>4. cur' - 1 = cur
      BY <1>2, <2>1
    <2>5. \A a \in DOMAIN code : code[a].op \in Jumps =>
            code[a].arg \in {-1} \cup {(Past(i)').bytes : i \in 1 .. Len(lines)}
      BY <2>2 DEF Lie, Resolved
    <2>6. ASSUME NEW a \in DOMAIN code, code[a].op \in Jumps
          PROVE  \E i \in 1 .. Len(lines) :
                   /\ ~lines[i].blank /\ (Past(i)').bytes = a
                   /\ code[a].arg = CheckLabelJump(labelInfo, lines[i].operand.text)
      <3>1. PICK i \in 1 .. Len(lines) : WrittenFor(a, i)
        BY <2>6 DEF Lie, Resolved
      <3>2. Past(i)' = Past(i)
        BY <1>3, <2>1
      <3> QED BY <3>1, <3>2 DEF WrittenFor
    <2>7. /\ UNCHANGED <<lines, labelInfo, code>> /\ cur' - 1 = cur
          /\ \A a, i : WrittenFor(a, i)' <=>
               /\ ~lines[i].blank /\ (Past(i)').bytes = a
               /\ code[a].arg = CheckLabelJump(labelInfo, lines[i].operand.text)
      BY <1>2, <1>4, <1>9, <2>4 DEF WrittenFor
    <2> QED BY <2>3, <2>5, <2>6, <2>7 DEF Resolved
  <1> QED BY <1>5, <1>6, <1>10, <1>11, <1>12 DEF Lie
(* Pass 2 begins with no code and the history of pass 1.                   *)
LEMMA NewPassKeepsLayout ==
  ASSUME AssemblerInv, Lie, EndPass, pass = 1
  PROVE  Decoded' /\ Lie'
  <1>1. PassInv
    BY DEF AssemblerInv
  <1>2. /\ pass' = 2 /\ cur' = 1 /\ numberBytesFile' = 0 /\ DOMAIN code' = {}
        /\ UNCHANGED <<lines, labelInfo>>
    BY DEF EndPass, Fresh
  <1>3. /\ Done' = Done
        /\ \A i \in 1 .. Done + 1 : Past(i)' = Past(i)
        /\ Past(1)'.bytes = 0
    BY <1>1, HistoryKept
  <1>4. Done \in Nat
    BY <1>1, HistoryOfAPass DEF EndPass
  <1>5. Decoded'
    BY <1>2 DEF Decoded
  <1>6. Ascending'
    BY <1>3 DEF Lie, Ascending
  <1>7. EntriesAreLines'
    <2>1. \A i \in 1 .. Done : Past(i)' = Past(i)
      BY <1>3, <1>4
    <2> QED BY <1>2, <1>3, <2>1 DEF Lie, EntriesAreLines
  <1>8. LinesLie'
    BY <1>2, <1>3 DEF LinesLie, Boundaries
  <1>9. Resolved'
    BY <1>2 DEF Resolved
  <1> QED BY <1>5, <1>6, <1>7, <1>8, <1>9 DEF Lie

(* The first definition of a name: what FirstDefinition chooses.           *)
LEMMA FirstOfTheName ==
  ASSUME lines \in Programs, NEW text \in Defined
  PROVE  LET f == FirstDefinition(text)
         IN  /\ f \in 1 .. Len(lines)
             /\ Defines(lines[f]) /\ lines[f].word.text = text
             /\ \A j \in 1 .. Len(lines) :
                  Defines(lines[j]) /\ lines[j].word.text = text => f <= j
  <1> DEFINE S == {j \in DOMAIN lines : Defines(lines[j]) /\ lines[j].word.text = text}
             named(i) == ~lines[i].blank /\ lines[i].word = [colon |-> TRUE, text |-> text]
  <1>1. /\ Len(lines) \in Nat /\ DOMAIN lines = 1 .. Len(lines)
        /\ \A i \in DOMAIN lines : lines[i].word \in [colon : BOOLEAN, text : STRING]
    BY ProgramsAssumption
  <1>2. \A j \in DOMAIN lines : j \in S <=> named(j)
    <2>1. ASSUME NEW j \in DOMAIN lines
          PROVE  lines[j].word = [colon |-> lines[j].word.colon, text |-> lines[j].word.text]
                 /\ lines[j].word.colon \in BOOLEAN
      BY <1>1
    <2>2. ASSUME NEW j \in DOMAIN lines, j \in S PROVE named(j)
      BY <2>1, <2>2 DEF Defines
    <2>3. ASSUME NEW j \in DOMAIN lines, named(j) PROVE j \in S
      BY <2>3 DEF Defines
    <2> QED BY <2>2, <2>3
  <1>3. S # {} /\ S \in SUBSET Nat
    BY <1>1 DEF Defined, Defines
  <1>4. PICK f \in S : \A j \in S : f <= j
    BY <1>3, First
  <1> DEFINE first(i) == named(i) /\ \A j \in 1 .. i - 1 : ~named(j)
  <1>5. FirstDefinition(text) = CHOOSE i \in DOMAIN lines : first(i)
    BY DEF FirstDefinition
  <1>6. first(f)
    <2>1. \A j \in 1 .. f - 1 : j \in DOMAIN lines /\ ~(f <= j)
      BY <1>1, <1>4
    <2> QED BY <1>2, <1>4, <2>1
  <1> HIDE DEF first
  <1>7. FirstDefinition(text) \in DOMAIN lines /\ first(FirstDefinition(text))
    BY <1>4, <1>5, <1>6
  <1>8. ASSUME NEW i \in DOMAIN lines, first(i) PROVE i = f
    <2>1. i \in S
      BY <1>2, <1>8 DEF first
    <2>2. ~(f < i)
      <3> SUFFICES ASSUME f < i PROVE FALSE
        OBVIOUS
      <3>1. f \in 1 .. i - 1
        BY <1>1, <1>4
      <3> QED BY <1>2, <1>4, <1>8, <3>1 DEF first
    <2> QED BY <1>1, <1>4, <2>1, <2>2
  <1> QED BY <1>1, <1>4, <1>7, <1>8

(* At the end of pass 2 the lines have told what was to be shown.          *)
LEMMA LaidOut ==
  ASSUME AssemblerInv, Lie, EndPass, pass = 2
  PROVE  JumpsLand' /\ FirstDefinitionWins'
  <1>1. /\ PassInv /\ status = "running" /\ cur > Len(lines)
        /\ UNCHANGED <<lines, code, numberBytesFile, trace, labelInfo>>
    BY DEF AssemblerInv, EndPass, Recorded
  <1>2. /\ Len(lines) \in Nat \ {0} /\ cur = Len(lines) + 1 /\ Done = Len(lines)
        /\ \A i \in 1 .. Len(lines) : Past(i) = trace[i]
    BY <1>1, HistoryOfAPass
  <1>3. lines \in Programs /\ Chain /\ DOMAIN lines = 1 .. Len(lines)
    BY <1>1, ProgramsAssumption DEF PassInv, Shape
  <1>4. ASSUME NEW text \in Defined
        PROVE  /\ FirstDefinition(text) \in 1 .. Len(lines)
               /\ CheckLabelJump(labelInfo, text) = Past(FirstDefinition(text)).bytes
    <2> DEFINE f == FirstDefinition(text)
    <2>1. /\ f \in 1 .. Len(lines)
          /\ Defines(lines[f]) /\ lines[f].word.text = text
          /\ \A j \in 1 .. Len(lines) :
               Defines(lines[j]) /\ lines[j].word.text = text => f <= j
      BY <1>3, FirstOfTheName
    <2> HIDE DEF f
    <2>2. \A j \in 1 .. Len(lines) :
            Defines(lines[j]) =>
              /\ Past(j).labels \in LabelSlots
              /\ labelInfo[Past(j).labels] =
                   [str |-> lines[j].word.text, value |-> Past(j).bytes]
      BY <1>2, <1>3 DEF Chain, Entered, Defines, ScannedName
    <2>3. ASSUME NEW k \in LabelSlots, labelInfo[k].str = text
          PROVE  Past(f).labels <= k
      <3>1. CASE \A j \in 1 .. Done + 1 : Past(j).labels <= k
        BY <1>2, <2>1, <3>1
      <3>2. ASSUME NEW j \in 1 .. Done, Defines(lines[j]), Past(j).labels = k
            PROVE  Past(f).labels <= k
        <4>1. labelInfo[k] = [str |-> lines[j].word.text, value |-> Past(j).bytes]
          BY <1>2, <2>2, <3>2
        <4>2. lines[j].word.text = text
          BY <2>3, <4>1
        <4>3. f <= j /\ f \in 1 .. Done + 1 /\ j \in 1 .. Done + 1
          BY <1>2, <2>1, <3>2, <4>2
        <4> QED BY <3>2, <4>3 DEF Lie, Ascending
      <3> QED BY <3>1, <3>2 DEF Lie, EntriesAreLines
    <2>4. /\ DOMAIN labelInfo = LabelSlots /\ Past(f).labels \in LabelSlots
          /\ labelInfo[Past(f).labels].str = text
          /\ labelInfo[Past(f).labels].value = Past(f).bytes
      <3>1. labelInfo[Past(f).labels] =
              [str |-> lines[f].word.text, value |-> Past(f).bytes]
        BY <2>1, <2>2
      <3> QED BY <1>1, <2>1, <2>2, <3>1 DEF PassInv, Shape
    <2>5. CheckLabelJump(labelInfo, text) = Past(f).bytes
      BY <2>3, <2>4, LookedUp
    <2> QED BY <2>1, <2>5 DEF f
  <1>5. ASSUME NEW i \in 1 .. Len(lines), JumpsByName(lines[i]),
               lines[i].operand.text \in Defined
        PROVE  code[trace[i].bytes].arg = trace[FirstDefinition(lines[i].operand.text)].bytes
    <2>1. code[Past(i).bytes].arg = CheckLabelJump(labelInfo, lines[i].operand.text)
      BY <1>1, <1>2, <1>5 DEF Lie, Resolved
    <2> QED BY <1>2, <1>4, <1>5, <2>1
  <1>6. JumpsLand'
    <2>1. \A i \in 1 .. Len(lines) : Past(i).bytes \in Boundaries /\ Past(i).bytes \in Nat
      BY <1>2 DEF Lie, LinesLie, Ascending
    <2>2. ASSUME NEW a \in DOMAIN code, code[a].op \in Jumps
          PROVE  \/ code[a].arg \in Boundaries
                 \/ /\ code[a].arg = -1
                    /\ \E i \in DOMAIN lines : trace[i].bytes = a /\ NamesNoLabel(lines[i])
      <3>1. code[a].arg \in {-1} \cup {Past(i).bytes : i \in 1 .. Len(lines)}
        BY <1>1, <2>2 DEF Lie, Resolved
      <3>2. PICK i \in 1 .. Len(lines) : WrittenFor(a, i)
        BY <1>1, <2>2 DEF Lie, Resolved
      <3>3. CASE lines[i].operand.text \in Defined
        <4>1. PICK f \in 1 .. Len(lines) : code[a].arg = Past(f).bytes
          BY <1>4, <3>2, <3>3 DEF WrittenFor
        <4> QED BY <2>1, <4>1
      <3>4. CASE lines[i].operand.text \notin Defined
        <4>1. trace[i].bytes = a /\ NamesNoLabel(lines[i]) /\ i \in DOMAIN lines
          BY <1>2, <1>3, <3>2, <3>4 DEF WrittenFor, NamesNoLabel
        <4> QED BY <2>1, <3>1, <4>1
      <3> QED BY <3>3, <3>4
    <2>3. Defined' = Defined /\ Boundaries' = Boundaries
      BY <1>1 DEF Defined, Boundaries
    <2> QED BY <1>1, <2>2, <2>3 DEF JumpsLand, NamesNoLabel
  <1>7. FirstDefinitionWins'
    <2>1. Defined' = Defined /\ \A text : FirstDefinition(text)' = FirstDefinition(text)
      BY <1>1 DEF Defined, FirstDefinition
    <2>2. \A i \in 1 .. Len(lines) :
            JumpsByName(lines[i]) /\ lines[i].operand.text \in Defined =>
              code[trace[i].bytes].arg = trace[FirstDefinition(lines[i].operand.text)].bytes
      BY <1>5
    <2> QED BY <1>1, <1>3, <2>1, <2>2 DEF FirstDefinitionWins, JumpsByName
  <1> QED BY <1>6, <1>7

-----------------------------------------------------------------------------
LEMMA LayoutInvInit == Init => LayoutInv
  <1> SUFFICES ASSUME Init PROVE LayoutInv
    OBVIOUS
  <1>1. /\ pass = 1 /\ cur = 1 /\ status = "running" /\ DOMAIN code = {}
        /\ numberBytesFile = 0 /\ Len(trace) = 0 /\ Local = Fresh
        /\ \A k \in LabelSlots : labelInfo[k] = NoLabel
    BY DEF Init, Idle, Local, Fresh
  <1>2. Done = 0 /\ Past(1) = Fresh
    BY <1>1 DEF Done, Past
  <1>3. Ascending
    <2>1. 1 .. Done + 1 = {1}
      BY <1>2
    <2>2. ~Fresh.name.colon /\ Fresh.bytes = 0 /\ Fresh.labels = 0
      BY DEF Fresh, NoWord
    <2> QED BY <1>2, <2>1, <2>2 DEF Ascending
  <1>4. EntriesAreLines
    BY <1>1, <1>2, MaxLabelsAssumption DEF EntriesAreLines, Fresh, LabelSlots
  <1>5. LinesLie /\ Resolved /\ Decoded
    BY <1>1, <1>2 DEF LinesLie, Resolved, Decoded, Boundaries, Fresh
  <1> QED BY <1>1, <1>3, <1>4, <1>5, AssemblerInvInit
          DEF LayoutInv, Lie, JumpsLand, FirstDefinitionWins

LEMMA LayoutInvNext == LayoutInv /\ [Next]_vars => LayoutInv'
  <1> SUFFICES ASSUME LayoutInv, [Next]_vars PROVE LayoutInv'
    OBVIOUS
  <1>1. AssemblerInv /\ AssemblerInv' /\ Decoded
    BY AssemblerInvNext DEF LayoutInv
  <1>2. CASE CommandWithArg \/ CommandWithoutArg
    <2>1. status = "running" /\ status' = status
      BY <1>2 DEF CommandWithArg, CommandWithoutArg, Running, Write
    <2> QED BY <1>1, <1>2, <2>1, CommandKeepsLayout
            DEF LayoutInv, Lie, JumpsLand, FirstDefinitionWins
  <1>3. CASE Label
    <2>1. CASE numberLabelInfo < MaxLabels
      <3>1. status = "running" /\ status' = status
        BY <1>3, <2>1 DEF Label, Running
      <3> QED BY <1>1, <1>3, <2>1, <3>1, LabelKeepsLayout
              DEF LayoutInv, Lie, JumpsLand, FirstDefinitionWins
    <2>2. CASE ~(numberLabelInfo < MaxLabels)
      BY <1>1, <1>3, <2>2
      DEF Label, LayoutInv, Decoded, Boundaries, JumpsLand, FirstDefinitionWins
    <2> QED BY <2>1, <2>2
  <1>4. CASE Wrong
    BY <1>1, <1>4 DEF Wrong, LayoutInv, Decoded, Boundaries, JumpsLand, FirstDefinitionWins
  <1>5. CASE EndPass
    <2>1. status = "running" /\ pass \in {1, 2}
      BY <1>1, <1>5 DEF EndPass, AssemblerInv, PassInv, Shape
    <2>2. CASE pass = 1
      <3>1. status' = status
        BY <1>5, <2>2 DEF EndPass
      <3> QED BY <1>1, <1>5, <2>1, <2>2, <3>1, NewPassKeepsLayout
              DEF LayoutInv, Lie, JumpsLand, FirstDefinitionWins
    <2>3. CASE pass = 2
      <3>1. status' = "ASSEMBLING_SUCCESSFUL" /\ UNCHANGED <<code, numberBytesFile>>
        BY <1>5, <2>3 DEF EndPass
      <3>2. Decoded'
        BY <1>1, <3>1 DEF Decoded, Boundaries
      <3> QED BY <1>1, <1>5, <2>1, <2>3, <3>1, <3>2, LaidOut DEF LayoutInv, Lie
    <2> QED BY <2>1, <2>2, <2>3
  <1>6. CASE UNCHANGED vars
    <2>1. /\ Local' = Local /\ Done' = Done /\ Boundaries' = Boundaries
          /\ UNCHANGED <<lines, pass, cur, labelInfo, code, status, trace>>
      BY <1>6 DEF vars, Local, Done, Boundaries
    <2> QED BY <1>1, <2>1 DEF LayoutInv, Decoded, Ascending, EntriesAreLines, LinesLie,
                Resolved, WrittenFor, JumpsLand, NamesNoLabel, FirstDefinitionWins,
                FirstDefinition, Defined, Past
  <1> QED BY <1>2, <1>3, <1>4, <1>5, <1>6 DEF Next

-----------------------------------------------------------------------------
(***************************************************************************)
(* The inductive invariant holds in every state, for every set of programs *)
(* and every size of the table of labels.                                  *)
(***************************************************************************)
THEOREM LayoutInvariant == Spec => []LayoutInv
  BY LayoutInvInit, LayoutInvNext, PTL DEF Spec

(***************************************************************************)
(* Stepping over the code by the sizes it decodes the machine meets what   *)
(* the assembler wrote, whatever operands the lines have.                  *)
(***************************************************************************)
THEOREM WrittenIsDecoded == Spec => []DecodedAsWritten
  <1>1. LayoutInv => DecodedAsWritten
    BY DEF LayoutInv, Decoded, DecodedAsWritten
  <1> QED BY <1>1, LayoutInvariant, PTL

(***************************************************************************)
(* Every jump of an assembled program goes to an instruction or to the end *)
(* of the program; to -1 only if no line defines the label it names.       *)
(***************************************************************************)
THEOREM EveryJumpLands == Spec => []JumpsLand
  <1>1. LayoutInv => JumpsLand
    BY DEF LayoutInv
  <1> QED BY <1>1, LayoutInvariant, PTL

(***************************************************************************)
(* A jump goes to the first line that defines its label, wherever it       *)
(* stands and however many labels share the name.                          *)
(***************************************************************************)
THEOREM FirstDefinitionCounts == Spec => []FirstDefinitionWins
  <1>1. LayoutInv => FirstDefinitionWins
    BY DEF LayoutInv
  <1> QED BY <1>1, LayoutInvariant, PTL
-----------------------------------------------------------------------------
(***************************************************************************)
(* Types.  They need the first invariant for nothing: an instruction is    *)
(* written where the file ends, and every encoding makes it longer.        *)
(***************************************************************************)
TypeInv == lines \in Programs /\ TypeOK

LEMMA TypedLine ==
  ASSUME TypeInv, Running
  PROVE  /\ cur \in 1 .. Len(lines) /\ Len(lines) \in Nat /\ Kinds(Line)
         /\ Name.colon \in BOOLEAN /\ NewElem \in Int
         /\ Line.operand.kind \in {"int", "atint"} => Line.operand.value \in Int
  <1>1. cur \in 1 .. Len(lines) /\ Len(lines) \in Nat /\ cur \in DOMAIN lines
    BY ProgramsAssumption DEF TypeInv, TypeOK, Running
  <1>2. /\ Kinds(Line) /\ Line.word.colon \in BOOLEAN
        /\ Line.operand.kind \in {"int", "atint"} => Line.operand.value \in Int
    <2>1. /\ lines[cur].blank \in BOOLEAN
          /\ lines[cur].word \in [colon : BOOLEAN, text : STRING]
          /\ lines[cur].operand.kind \in OperandKinds
          /\ lines[cur].operand.kind \in {"int", "atint"} => lines[cur].operand.value \in Int
      BY <1>1, ProgramsAssumption DEF TypeInv
    <2> QED BY <2>1 DEF Line, Kinds
  <1>3. Name.colon \in BOOLEAN
    BY <1>2 DEF Name, ScannedName, TypeInv, TypeOK
  <1>4. NewElem \in Int
    BY <1>2 DEF NewElem, ScannedElem, Cnt, TypeInv, TypeOK
  <1> QED BY <1>1, <1>2, <1>3, <1>4

(* What a command leaves in elem, and how far it goes.                     *)
LEMMA EncodedElem ==
  ASSUME NEW op, NEW line, Kinds(line), line.operand.kind \in {"int", "atint"} => line.operand.value \in Int,
         NEW e \in Int, NEW table, DOMAIN table = LabelSlots, \A k \in LabelSlots : table[k].value \in Nat,
         op \notin NoArgOps
  PROVE  /\ EncodeWithArg(op, line, e, table).elem \in Int
         /\ EncodeWithArg(op, line, e, table).bytes \in Nat \ {0}
  <1>1. EncodeWithArg(op, line, e, table).bytes \in Nat \ {0}
    BY EncodedBytes DEF Size
  <1>2. CheckLabelJump(table, line.operand.text) \in Int
    BY LookedUp
  <1>3. CASE Cnt(line) # 1
    BY <1>1, <1>3 DEF EncodeWithArg, Encoding
  <1>4. CASE Cnt(line) = 1
    <2>1. line.operand.kind \in {"none", "name", "atname", "atint"}
      BY <1>4 DEF Kinds, OperandKinds, Cnt
    <2>2. CASE line.operand.kind = "atname"
      BY <1>1, <1>4, <2>2 DEF EncodeWithArg, Encoding
    <2>3. CASE line.operand.kind = "atint"
      BY <1>1, <1>4, <2>3 DEF EncodeWithArg, Encoding
    <2>4. CASE line.operand.kind \in {"none", "name"} /\ op \in Jumps
      BY <1>1, <1>2, <1>4, <2>4 DEF EncodeWithArg, Encoding
    <2>5. CASE line.operand.kind \in {"none", "name"} /\ op \notin Jumps
      BY <1>1, <1>4, <2>5 DEF EncodeWithArg, Encoding
    <2> QED BY <2>1, <2>2, <2>3, <2>4, <2>5
  <1> QED BY <1>3, <1>4

LEMMA TypedWrite ==
  ASSUME TypeInv, Running, NEW e, Write(e), e.elem \in Int, e.bytes \in Nat \ {0}
  PROVE  TypeInv'
  <1>1. cur \in 1 .. Len(lines) /\ Len(lines) \in Nat /\ Name.colon \in BOOLEAN
    BY TypedLine
  <1>2. /\ DOMAIN code' = DOMAIN code \cup {numberBytesFile}
        /\ numberBytesFile' = numberBytesFile + e.bytes /\ elem' = e.elem
        /\ nameOperation' = Name /\ cur' = cur + 1
        /\ UNCHANGED <<lines, pass, labelInfo, numberLabelInfo, status>>
    BY DEF Write
  <1>3. \A a \in DOMAIN code' : a \in Nat /\ a < numberBytesFile'
    BY <1>2 DEF TypeInv, TypeOK
  <1>4. cur' \in 1 .. Len(lines') + 1 /\ numberBytesFile' \in Nat
    BY <1>1, <1>2 DEF TypeInv, TypeOK
  <1> QED BY <1>1, <1>2, <1>3, <1>4 DEF TypeInv, TypeOK

LEMMA TypeInvNext == TypeInv /\ [Next]_vars => TypeInv'
  <1> SUFFICES ASSUME TypeInv, [Next]_vars PROVE TypeInv'
    OBVIOUS
  <1> USE DEF TypeInv
  <1>1. CASE CommandWithArg
    <2>1. Running /\ Name.text \notin NoArgOps
          /\ Write(EncodeWithArg(Name.text, Line, NewElem, labelInfo))
      BY <1>1 DEF CommandWithArg, ArgOps, Jumps, ConditionalJumps, NoArgOps, Operators, Printers
    <2>2. DOMAIN labelInfo = LabelSlots /\ \A k \in LabelSlots : labelInfo[k].value \in Nat
      BY DEF TypeOK
    <2> QED BY <2>1, <2>2, TypedLine, EncodedElem, TypedWrite
  <1>2. CASE CommandWithoutArg
    <2>1. Running /\ Write(EncodeWithoutArg(Name.text, NewElem))
      BY <1>2 DEF CommandWithoutArg
    <2>2. /\ EncodeWithoutArg(Name.text, NewElem).elem \in Int
          /\ EncodeWithoutArg(Name.text, NewElem).bytes \in Nat \ {0}
      BY <2>1, TypedLine DEF EncodeWithoutArg, Encoding
    <2> QED BY <2>1, <2>2, TypedWrite
  <1>3. CASE Label
    <2>1. /\ Running /\ nameOperation' = [colon |-> FALSE, text |-> Name.text] /\ elem' = NewElem
          /\ UNCHANGED <<lines, pass, numberBytesFile, code>>
      BY <1>3 DEF Label
    <2>2. cur \in 1 .. Len(lines) /\ Len(lines) \in Nat /\ NewElem \in Int
      BY <2>1, TypedLine
    <2>3. CASE numberLabelInfo < MaxLabels
      <3>1. /\ labelInfo' = [labelInfo EXCEPT ![numberLabelInfo] =
                               [str |-> Name.text, value |-> numberBytesFile]]
            /\ numberLabelInfo' = numberLabelInfo + 1 /\ cur' = cur + 1 /\ UNCHANGED status
        BY <1>3, <2>3 DEF Label
      <3>2. /\ DOMAIN labelInfo' = LabelSlots
            /\ \A i \in LabelSlots : labelInfo'[i].value \in Nat
        BY <3>1 DEF TypeOK
      <3>3. numberLabelInfo' \in 0 .. MaxLabels /\ cur' \in 1 .. Len(lines') + 1
        BY <2>1, <2>2, <2>3, <3>1, MaxLabelsAssumption DEF TypeOK
      <3> QED BY <2>1, <2>2, <3>1, <3>2, <3>3 DEF TypeOK
    <2>4. CASE ~ (numberLabelInfo < MaxLabels)
      BY <1>3, <2>1, <2>2, <2>4 DEF Label, TypeOK
    <2> QED BY <2>3, <2>4
  <1>4. CASE Wrong
    <2>1. Running
      BY <1>4 DEF Wrong
    <2>2. Name.colon \in BOOLEAN /\ NewElem \in Int
      BY <2>1, TypedLine
    <2> QED BY <1>4, <2>2 DEF Wrong, TypeOK
  <1>5. CASE EndPass
    <2>1. CASE pass = 1
      <3>1. /\ pass' = 2 /\ cur' = 1 /\ elem' = 0 /\ UNCHANGED <<status, lines, labelInfo>>
            /\ nameOperation' = Fresh.name /\ numberLabelInfo' = Fresh.labels
            /\ numberBytesFile' = Fresh.bytes /\ DOMAIN code' = {}
        BY <1>5, <2>1 DEF EndPass
      <3>2. /\ nameOperation'.colon \in BOOLEAN /\ numberLabelInfo' = 0
            /\ numberBytesFile' = 0
        BY <3>1 DEF Fresh, NoWord
      <3>3. cur' \in 1 .. Len(lines') + 1
        BY <3>1, ProgramsAssumption
      <3>4. 0 \in 0 .. MaxLabels
        BY MaxLabelsAssumption
      <3> QED BY <3>1, <3>2, <3>3, <3>4 DEF TypeOK
    <2>2. CASE pass # 1
      BY <1>5, <2>2 DEF EndPass, TypeOK
    <2> QED BY <2>1, <2>2
  <1>6. CASE UNCHANGED vars
    BY <1>6 DEF vars, TypeOK
  <1> QED BY <1>1, <1>2, <1>3, <1>4, <1>5, <1>6 DEF Next

(***************************************************************************)
(* The table keeps its slots and the count of labels stays in it, what is  *)
(* written lies before the end of the file, and a scanned number is one.   *)
(***************************************************************************)
THEOREM TypeCorrect == Spec => []TypeOK
  <1>1. Init => TypeInv
    <2> SUFFICES ASSUME Init PROVE TypeInv
      OBVIOUS
    <2>1. lines \in Programs /\ Len(lines) \in Nat \ {0}
      BY ProgramsAssumption DEF Init
    <2>2. DOMAIN code = {} /\ DOMAIN labelInfo = LabelSlots /\ \A i \in LabelSlots : labelInfo[i].value \in Nat
      BY DEF Init, Idle, NoLabel
    <2>3. /\ pass = 1 /\ cur = 1 /\ elem = 0 /\ status = "running" /\ numberLabelInfo = 0
          /\ numberBytesFile = 0 /\ nameOperation.colon \in BOOLEAN
      BY DEF Init, Idle, NoWord
    <2>4. /\ pass \in {1, 2} /\ cur \in 1 .. Len(lines) + 1 /\ elem \in Int
          /\ nameOperation.colon \in BOOLEAN /\ numberLabelInfo \in 0 .. MaxLabels
          /\ numberBytesFile \in Nat
      BY <2>1, <2>3, MaxLabelsAssumption
    <2>5. \A a \in DOMAIN code : a \in Nat /\ a < numberBytesFile
      BY <2>2
    <2> QED BY <2>1, <2>2, <2>3, <2>4, <2>5 DEF TypeInv, TypeOK
  <1>2. TypeInv => TypeOK
    BY DEF TypeInv
  <1> QED BY <1>1, <1>2, TypeInvNext, PTL DEF Spec
=============================================================================
