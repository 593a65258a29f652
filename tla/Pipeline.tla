------------------------------ MODULE Pipeline ------------------------------
(***************************************************************************)
(* The three programs make runs one after the other, and the two files     *)
(* they hand on: src/generateAsmCode reads res/code.txt and writes         *)
(* CPU/res/asm.txt, CPU/Assembler/asm turns that into CPU/res/code.txt,    *)
(* CPU/CPU/cpu runs it.  Every command opens its output before it knows    *)
(* whether it will get to the end, and the files of earlier makes are      *)
(* still there.  Between any two steps the source can be edited, and make  *)
(* can be interrupted.                                                     *)
(*                                                                         *)
(* What the programs do to a source is left to the other modules: here a   *)
(* source has a tree or not, a main or not, and gets through the generator *)
(* and the assembler or not.                                               *)
(***************************************************************************)
EXTENDS Naturals

CONSTANTS
  Sources,      (* what res/code.txt can hold                               *)
  WithTree,     (* those the front end finds a tree for                     *)
  WithMain,     (* those of them with a main                                *)
  Translated,   (* those of them the generator gets to the end of           *)
  Assembling,   (* those of them whose code the assembler takes             *)
  None,         (* no source                                                *)
  MaxFaults     (* bound: interrupts and failing fopens                     *)

ASSUME SourcesAssumption ==
  /\ None \notin Sources
  /\ Assembling \subseteq Translated /\ Translated \subseteq WithMain
  /\ WithMain \subseteq WithTree /\ WithTree \subseteq Sources
  /\ MaxFaults \in Nat

VARIABLES
  source,       (* res/code.txt                                             *)
  making,       (* the source this make has read                            *)
  asm, code,    (* the files between the programs: what they were made of,  *)
                (* and how much of it they hold                             *)
  opened,       (* could asm.txt be opened in this make                     *)
  stage,        (* where make is                                            *)
  pass,         (* of the assembler                                         *)
  faults

vars == <<source, making, asm, code, opened, stage, pass, faults>>

Parts  == {"missing", "empty", "partial", "pass one", "whole"}
FilesOf(S)     == [of : S, part : Parts]
File(of, part) == [of |-> of, part |-> part]
Holding(file, part) == File(file.of, part)
Stages == {"idle", "front end", "generator", "printing", "assembler", "pass", "writing", "cpu"}

Init ==
  /\ source \in Sources
  /\ making = None
  /\ asm = File(None, "missing") /\ code = File(File(None, "missing"), "missing")
  /\ opened = "yes" /\ stage = "idle" /\ pass = 1 /\ faults = 0

At(s)    == stage = s
Goto(s)  == stage' = s
Fault    == faults < MaxFaults /\ faults' = faults + 1
NoFault  == UNCHANGED faults
Cut      == {"empty", "partial"}   (* what is left of a file being written  *)

-----------------------------------------------------------------------------
Edit ==
  /\ source' \in Sources
  /\ UNCHANGED <<making, asm, code, opened, stage, pass, faults>>

Make ==
  /\ At("idle") /\ Goto("front end")
  /\ UNCHANGED <<source, making, asm, code, opened, pass, faults>>

(* Without a tree TreeDump aborts, and make stops.  A front end that hangs *)
(* on a character it does not know (module Tokenizer) is taken for one     *)
(* that aborts.                                                            *)
ReadSource ==
  /\ At("front end")
  /\ making' = source
  /\ Goto(IF source \in WithTree THEN "generator" ELSE "idle")
  /\ UNCHANGED <<source, asm, code, opened, pass, faults>>

(* Variant: asm.txt is opened once main has been found.                    *)
OpensLate ==
  /\ At("generator")
  /\ \/ /\ making \in WithMain
        /\ asm' = File(making, "empty") /\ opened' = "yes"
        /\ Goto("printing") /\ NoFault
     \/ /\ making \in WithMain
        /\ UNCHANGED asm /\ opened' = "no"
        /\ Goto("idle") /\ Fault
     \/ /\ making \notin WithMain
        /\ UNCHANGED <<asm, opened>>
        /\ Goto("assembler") /\ NoFault
  /\ UNCHANGED <<source, making, code, pass>>

(* Variant: a file that exists is not opened again.                        *)
OpensNewOnly ==
  /\ At("generator")
  /\ \/ /\ asm.part = "missing"
        /\ asm' = File(making, "empty") /\ opened' = "yes"
        /\ Goto("printing")
     \/ /\ asm.part # "missing"
        /\ UNCHANGED asm /\ opened' = "no"
        /\ Goto(IF making \in WithMain THEN "idle" ELSE "assembler")
  /\ UNCHANGED <<source, making, code, pass, faults>>

(* GenerateAsmCode opens asm.txt first of all.  The null pointer it may    *)
(* get is used when there is a main; without one it returns as after any   *)
(* program, and the assembler is next.                                     *)
OpenAsm ==
  /\ At("generator")
  /\ \/ /\ asm' = File(making, "empty") /\ opened' = "yes"
        /\ Goto("printing") /\ NoFault
     \/ /\ UNCHANGED asm /\ opened' = "no"
        /\ Goto(IF making \in WithMain THEN "idle" ELSE "assembler") /\ Fault
  /\ UNCHANGED <<source, making, code, pass>>

PrintAsm ==
  /\ At("printing")
  /\ \/ /\ making \notin WithMain
        /\ Goto("assembler") /\ UNCHANGED asm
     \/ /\ making \in Translated
        /\ asm' = Holding(asm, "whole") /\ Goto("assembler")
     \/ /\ making \in WithMain \ Translated
        /\ \E part \in Cut : asm' = Holding(asm, part)
        /\ Goto("idle")
  /\ UNCHANGED <<source, making, code, opened, pass, faults>>

-----------------------------------------------------------------------------
(* fillStructLine and readFile assert that there is something to read.     *)
ReadAsm ==
  /\ At("assembler")
  /\ pass' = 1
  /\ Goto(IF asm.part \in {"missing", "empty"} THEN "idle" ELSE "pass")
  /\ UNCHANGED <<source, making, asm, code, opened, faults>>

(* Each pass begins the file anew.  A listing that cannot be opened is     *)
(* found out when it is written to.                                        *)
OpenCode ==
  /\ At("pass")
  /\ \/ code' = File(asm, "empty") /\ Goto("writing") /\ NoFault
     \/ code' = File(asm, "empty") /\ Goto("idle") /\ Fault
     \/ UNCHANGED code /\ Goto("idle") /\ Fault
  /\ UNCHANGED <<source, making, asm, opened, pass>>

(* What was cut off in an earlier make assembles as far as it goes, or it  *)
(* does not.  The first pass knows no label that is still to come.         *)
Taken   == asm.part = "whole" => asm.of \in Assembling
Refused == asm.part = "whole" => asm.of \notin Assembling

(* Variant: one pass too many.                                             *)
WritePassThrice ==
  /\ At("writing")
  /\ \/ /\ Taken /\ pass <= 2
        /\ code' = Holding(code, "pass one")
        /\ Goto("pass") /\ pass' = pass + 1
     \/ /\ Taken /\ pass > 2
        /\ code' = Holding(code, "whole")
        /\ Goto("cpu") /\ UNCHANGED pass
     \/ /\ Refused
        /\ code' = Holding(code, "partial")
        /\ Goto("idle") /\ UNCHANGED pass
  /\ UNCHANGED <<source, making, asm, opened, faults>>

WritePass ==
  /\ At("writing")
  /\ \/ /\ Taken /\ pass = 1
        /\ code' = Holding(code, "pass one")
        /\ Goto("pass") /\ pass' = 2
     \/ /\ Taken /\ pass = 2
        /\ code' = Holding(code, "whole")
        /\ Goto("cpu") /\ UNCHANGED pass
     \/ /\ Refused
        /\ code' = Holding(code, "partial")
        /\ Goto("idle") /\ UNCHANGED pass
  /\ UNCHANGED <<source, making, asm, opened, faults>>

Run ==
  /\ At("cpu") /\ Goto("idle")
  /\ UNCHANGED <<source, making, asm, code, opened, pass, faults>>

-----------------------------------------------------------------------------
(* make and what it runs are killed: buffers are lost, files stay.         *)
Interrupt ==
  /\ stage # "idle" /\ Fault
  /\ Goto("idle")
  /\ IF At("printing") THEN \E part \in Cut : asm' = Holding(asm, part)
     ELSE UNCHANGED asm
  /\ IF At("writing") THEN \E part \in Cut : code' = Holding(code, part)
     ELSE UNCHANGED code
  /\ UNCHANGED <<source, making, opened, pass>>

Step == ReadSource \/ OpenAsm \/ PrintAsm \/ ReadAsm \/ OpenCode \/ WritePass \/ Run

Next == Edit \/ Make \/ Step \/ Interrupt

Spec == Init /\ [][Next]_vars

(* make starts the next command when one has ended, and each of them ends; *)
(* nobody has to call make.                                                *)
FairSpec == Spec /\ WF_vars(Step)

-----------------------------------------------------------------------------
TypeOK ==
  /\ source \in Sources /\ making \in Sources \cup {None}
  /\ asm \in FilesOf(Sources \cup {None})
  /\ code \in FilesOf(FilesOf(Sources \cup {None}))
  /\ opened \in {"yes", "no"} /\ stage \in Stages /\ pass \in {1, 2}
  /\ faults \in 0 .. MaxFaults

(***************************************************************************)
(* The machine never runs what an earlier make or an interrupted one left: *)
(* it gets the second pass over the asm.txt that is there, and that was    *)
(* made of the source this make has read.  There is one exception, by the  *)
(* early return of a front end that finds no main and could not open       *)
(* asm.txt either: it ends like any other, and the old file goes on.       *)
(***************************************************************************)
RunsThisSource ==
  At("cpu") =>
    /\ code = File(asm, "whole")
    /\ opened = "yes" => asm = File(making, "whole")
    /\ opened = "no" => making \notin WithMain

(***************************************************************************)
(* Whatever the files hold, a make that nothing disturbs any more runs the *)
(* source it has read: no state of them has to be cleaned up by hand.      *)
(***************************************************************************)
Recovers ==
  \A s \in Assembling :
    (At("generator") /\ making = s /\ faults = MaxFaults)
      ~> (At("cpu") /\ code = File(File(s, "whole"), "whole"))
=============================================================================
