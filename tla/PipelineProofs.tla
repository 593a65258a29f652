--------------------------- MODULE PipelineProofs ---------------------------
(***************************************************************************)
(* What module Pipeline promises, for any set of sources and any number of *)
(* faults.                                                                 *)
(*                                                                         *)
(* RunsThisSource speaks of the moment the machine starts.  It needs to be *)
(* known of every stage before what asm.txt holds there: what was left by  *)
(* an earlier make is gone once it was opened, and nothing that is empty   *)
(* gets past the assembler's assertion.                                    *)
(***************************************************************************)
EXTENDS Pipeline, TLAPS

Assembled == stage \in {"assembler", "pass", "writing", "cpu"}
Written   == stage \in {"pass", "writing", "cpu"}

AsmIsOfThisMake ==
  /\ At("printing") => opened = "yes" /\ asm = File(making, "empty")
  /\ Assembled /\ opened = "yes" => asm.part \in {"empty", "whole"} /\ asm.of = making
  /\ Assembled /\ opened = "no" => making \notin WithMain

CodeIsOfThisAsm ==
  /\ Written => asm.part # "empty"
  /\ At("writing") => code.of = asm
  /\ At("cpu") => code = File(asm, "whole")

IInv == TypeOK /\ AsmIsOfThisMake /\ CodeIsOfThisAsm

-----------------------------------------------------------------------------
FilesTyped ==
  /\ making \in Sources \cup {None} /\ source \in Sources
  /\ asm \in FilesOf(Sources \cup {None})
  /\ code \in FilesOf(FilesOf(Sources \cup {None}))

ControlTyped ==
  /\ opened \in {"yes", "no"} /\ stage \in Stages /\ pass \in {1, 2}
  /\ faults \in 0 .. MaxFaults

LEMMA TypeParts == TypeOK <=> FilesTyped /\ ControlTyped
BY DEF TypeOK, FilesTyped, ControlTyped

(* What a file that is made, and one that is there, can hold.              *)
LEMMA PartNames ==
  /\ "missing" \in Parts /\ "empty" \in Parts /\ "partial" \in Parts
  /\ "pass one" \in Parts /\ "whole" \in Parts /\ Cut \subseteq Parts
BY DEF Parts, Cut

LEMMA FileMade ==
  ASSUME NEW S, NEW of \in S, NEW part \in Parts
  PROVE  File(of, part) \in FilesOf(S)
BY DEF File, FilesOf

LEMMA FileHolds ==
  ASSUME NEW of, NEW part
  PROVE  File(of, part).of = of /\ File(of, part).part = part
BY DEF File

LEMMA FileIs ==
  ASSUME NEW S, NEW file \in FilesOf(S)
  PROVE  file.of \in S /\ file.part \in Parts /\ file = File(file.of, file.part)
BY DEF File, FilesOf

LEMMA AsmMade ==
  ASSUME NEW of \in Sources \cup {None}, NEW part \in Parts
  PROVE  File(of, part) \in FilesOf(Sources \cup {None})
BY FileMade

LEMMA CodeMade ==
  ASSUME NEW of \in FilesOf(Sources \cup {None}), NEW part \in Parts
  PROVE  File(of, part) \in FilesOf(FilesOf(Sources \cup {None}))
BY FileMade

LEMMA Held ==
  ASSUME FilesTyped
  PROVE  /\ asm.of \in Sources \cup {None} /\ asm.part \in Parts
         /\ asm = File(asm.of, asm.part)
         /\ code.of \in FilesOf(Sources \cup {None}) /\ code.part \in Parts
         /\ code = File(code.of, code.part)
BY FileIs DEF FilesTyped

LEMMA FaultsCounted ==
  ASSUME ControlTyped, Fault \/ NoFault
  PROVE  faults' \in 0 .. MaxFaults
<1>1. MaxFaults \in Nat
  BY SourcesAssumption
<1> QED
  BY <1>1 DEF ControlTyped, Fault, NoFault

-----------------------------------------------------------------------------
LEMMA InitHolds == Init => IInv
<1> SUFFICES ASSUME Init PROVE IInv
  OBVIOUS
<1>1. FilesTyped
  BY PartNames, AsmMade, CodeMade DEF Init, FilesTyped
<1>2. ControlTyped
  BY SourcesAssumption DEF Init, ControlTyped, Stages
<1>3. AsmIsOfThisMake /\ CodeIsOfThisAsm
  BY DEF Init, AsmIsOfThisMake, CodeIsOfThisAsm, Assembled, Written, At
<1> QED
  BY <1>1, <1>2, <1>3, TypeParts DEF IInv

(* Files are made of what was read.                                        *)
LEMMA FilesStep == FilesTyped /\ [Next]_vars => FilesTyped'
<1> SUFFICES ASSUME FilesTyped, [Next]_vars PROVE FilesTyped'
  OBVIOUS
<1> USE SourcesAssumption, PartNames, AsmMade, CodeMade, Held DEF FilesTyped
<1>1. CASE Edit
  BY <1>1 DEF Edit
<1>2. CASE Make
  BY <1>2 DEF Make
<1>3. CASE ReadSource
  BY <1>3 DEF ReadSource
<1>4. CASE OpenAsm
  BY <1>4 DEF OpenAsm
<1>5. CASE PrintAsm
  BY <1>5 DEF PrintAsm, Holding
<1>6. CASE ReadAsm
  BY <1>6 DEF ReadAsm
<1>7. CASE OpenCode
  BY <1>7 DEF OpenCode
<1>8. CASE WritePass
  BY <1>8 DEF WritePass, Holding
<1>9. CASE Run
  BY <1>9 DEF Run
<1>10. CASE Interrupt
  BY <1>10 DEF Interrupt, Holding
<1>11. CASE UNCHANGED vars
  BY <1>11 DEF vars
<1> QED
  BY <1>1, <1>2, <1>3, <1>4, <1>5, <1>6, <1>7, <1>8, <1>9, <1>10, <1>11
     DEF Next, Step

(* make goes through its stages, the assembler through its two passes.      *)
LEMMA ControlStep == ControlTyped /\ [Next]_vars => ControlTyped'
<1> SUFFICES ASSUME ControlTyped, [Next]_vars PROVE ControlTyped'
  OBVIOUS
<1> USE FaultsCounted DEF ControlTyped, At, Goto, Stages
<1>1. CASE Edit
  BY <1>1 DEF Edit
<1>2. CASE Make
  BY <1>2 DEF Make
<1>3. CASE ReadSource
  BY <1>3 DEF ReadSource
<1>4. CASE OpenAsm
  BY <1>4 DEF OpenAsm
<1>5. CASE PrintAsm
  BY <1>5 DEF PrintAsm, NoFault
<1>6. CASE ReadAsm
  BY <1>6 DEF ReadAsm
<1>7. CASE OpenCode
  BY <1>7 DEF OpenCode
<1>8. CASE WritePass
  BY <1>8 DEF WritePass
<1>9. CASE Run
  BY <1>9 DEF Run
<1>10. CASE Interrupt
  BY <1>10 DEF Interrupt
<1>11. CASE UNCHANGED vars
  BY <1>11 DEF vars
<1> QED
  BY <1>1, <1>2, <1>3, <1>4, <1>5, <1>6, <1>7, <1>8, <1>9, <1>10, <1>11
     DEF Next, Step

(* asm.txt is made by the step that opens it and finished by the next.     *)
LEMMA AsmStep ==
  FilesTyped /\ ControlTyped /\ AsmIsOfThisMake /\ [Next]_vars => AsmIsOfThisMake'
<1> SUFFICES ASSUME FilesTyped, ControlTyped, AsmIsOfThisMake, [Next]_vars
             PROVE  AsmIsOfThisMake'
  OBVIOUS
<1> USE SourcesAssumption, FileHolds, Held DEF ControlTyped, AsmIsOfThisMake, Assembled, At, Goto
<1>1. CASE Edit
  BY <1>1 DEF Edit
<1>2. CASE Make
  BY <1>2 DEF Make
<1>3. CASE ReadSource
  BY <1>3 DEF ReadSource
<1>4. CASE OpenAsm
  BY <1>4 DEF OpenAsm
<1>5. CASE PrintAsm
  BY <1>5 DEF PrintAsm, Holding
<1>6. CASE ReadAsm
  BY <1>6 DEF ReadAsm
<1>7. CASE OpenCode
  BY <1>7 DEF OpenCode
<1>8. CASE WritePass
  BY <1>8 DEF WritePass, Holding
<1>9. CASE Run
  BY <1>9 DEF Run
<1>10. CASE Interrupt
  BY <1>10 DEF Interrupt, Holding
<1>11. CASE UNCHANGED vars
  BY <1>11 DEF vars
<1> QED
  BY <1>1, <1>2, <1>3, <1>4, <1>5, <1>6, <1>7, <1>8, <1>9, <1>10, <1>11
     DEF Next, Step

(* The assembler never changes what it reads.                              *)
LEMMA CodeStep ==
  FilesTyped /\ AsmIsOfThisMake /\ CodeIsOfThisAsm /\ [Next]_vars => CodeIsOfThisAsm'
<1> SUFFICES ASSUME FilesTyped, AsmIsOfThisMake, CodeIsOfThisAsm, [Next]_vars
             PROVE  CodeIsOfThisAsm'
  OBVIOUS
<1> USE FileHolds, Held DEF AsmIsOfThisMake, Assembled, CodeIsOfThisAsm, Written, At, Goto
<1>1. CASE Edit
  BY <1>1 DEF Edit
<1>2. CASE Make
  BY <1>2 DEF Make
<1>3. CASE ReadSource
  BY <1>3 DEF ReadSource
<1>4. CASE OpenAsm
  BY <1>4 DEF OpenAsm
<1>5. CASE PrintAsm
  BY <1>5 DEF PrintAsm, Holding
<1>6. CASE ReadAsm
  BY <1>6 DEF ReadAsm
<1>7. CASE OpenCode
  BY <1>7 DEF OpenCode
<1>8. CASE WritePass
  BY <1>8 DEF WritePass, Holding
<1>9. CASE Run
  BY <1>9 DEF Run
<1>10. CASE Interrupt
  BY <1>10 DEF Interrupt, Holding, Cut
<1>11. CASE UNCHANGED vars
  BY <1>11 DEF vars
<1> QED
  BY <1>1, <1>2, <1>3, <1>4, <1>5, <1>6, <1>7, <1>8, <1>9, <1>10, <1>11
     DEF Next, Step

LEMMA Inductive == Spec => []IInv
<1>1. IInv /\ [Next]_vars => IInv'
  <2> SUFFICES ASSUME IInv, [Next]_vars PROVE IInv'
    OBVIOUS
  <2>1. FilesTyped' /\ ControlTyped'
    BY FilesStep, ControlStep, TypeParts DEF IInv
  <2>2. TypeOK'
    BY <2>1 DEF TypeOK, FilesTyped, ControlTyped
  <2>3. AsmIsOfThisMake' /\ CodeIsOfThisAsm'
    BY AsmStep, CodeStep, TypeParts DEF IInv
  <2> QED
    BY <2>2, <2>3 DEF IInv
<1> QED
  BY <1>1, InitHolds, PTL DEF Spec

(* The files, the stages and the counters stay what they are said to be.   *)
THEOREM TypeCorrect == Spec => []TypeOK
<1>1. IInv => TypeOK
  BY DEF IInv
<1> QED
  BY <1>1, Inductive, PTL

(* Whatever was left by earlier makes, the machine runs what the two       *)
(* passes made of the asm.txt that is there, and that is of the source     *)
(* just read, unless a source without a main met a file that could not be  *)
(* opened.                                                                 *)
THEOREM NothingStaleRuns == Spec => []RunsThisSource
<1>1. IInv => RunsThisSource
  <2> SUFFICES ASSUME IInv, At("cpu") PROVE RunsThisSource
    BY DEF RunsThisSource
  <2>1. asm = File(asm.of, asm.part)
    BY TypeParts, Held DEF IInv
  <2> QED
    BY <2>1 DEF IInv, AsmIsOfThisMake, CodeIsOfThisAsm, Assembled, Written, RunsThisSource, At
<1> QED
  BY <1>1, Inductive, PTL
=============================================================================
