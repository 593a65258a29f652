----------------------------- MODULE Toolchain ------------------------------
(***************************************************************************)
(* The three programs of the Makefile, one after the other: the code       *)
(* generator writes asm.txt, the assembler reads it and writes code.txt,   *)
(* the machine reads that and runs it.  Each is its own module; what this  *)
(* one adds is the two files between them.                                 *)
(***************************************************************************)
EXTENDS LazyC

CONSTANTS
  Programs,
  MaxLabels,
  Inputs, SizeMem, NumberReg, FieldWidth, Capacity, MaxOutput,
  LeftCanary, RightCanary, RecallocValue, Garbage, AllocOutcomes, NoInput

VARIABLES
  stage,     (* "generate", "assemble" or "execute"                         *)
  source,    (* history: the tree the generator was given                   *)
  typed,     (* the number the user types at every prompt                   *)
  meant,     (* history: what the program means, if it is a supported one   *)
  items, at, globalNames, curGlobal, functions, curLabel, tables, agenda,
  asm, generated, passing,
  lines, pass, cur, nameOperation, elem, labelInfo, numberLabelInfo,
  numberBytesFile, code, assembled, trace,
  image, pc, registers, dynMem, stack, callArray, cntNumAddress, elem1,
  cpuError, output, result

Generator == INSTANCE CodeGen WITH code <- asm, status <- generated
Assembler == INSTANCE Assembler WITH status <- assembled
Machine   == INSTANCE CPU WITH Images <- {}

generatorVars == <<items, at, globalNames, curGlobal, functions, curLabel, tables, agenda,
                   asm, generated, passing>>
assemblerVars == <<lines, pass, cur, nameOperation, elem, labelInfo, numberLabelInfo,
                   numberBytesFile, code, assembled, trace>>
machineVars   == <<image, pc, registers, dynMem, stack, callArray, cntNumAddress, elem1,
                   cpuError, output, result>>
vars == <<stage, source, typed, meant, generatorVars, assemblerVars, machineVars>>

Init ==
  /\ stage = "generate"
  /\ typed \in Inputs
  /\ Generator!Init
  /\ source = items
  /\ meant = IF Supported(source) THEN Meaning(source, typed) ELSE [flow |-> "stuck"]
  /\ lines = <<>> /\ Assembler!Idle
  /\ image = [code |-> <<>>, size |-> 0] /\ Machine!Idle

Generate ==
  /\ stage = "generate"
  /\ Generator!Next
  /\ UNCHANGED <<stage, source, typed, meant, assemblerVars, machineVars>>

(* A line of asm.txt as sscanf finds it: a generated label is one word.    *)
Word1(text, n) == text \o ToString(n)

Scanned(l) ==
  [blank   |-> FALSE,
   word    |-> [colon |-> l.colon,
                text  |-> IF l.colon /\ l.kind = "next" THEN Word1(l.text, l.value) ELSE l.text],
   operand |-> CASE l.colon ->
                      [kind |-> "none", text |-> "", value |-> 0]
                 [] ~l.colon /\ l.kind = "next" ->
                      [kind |-> "name", text |-> Word1("next", l.value), value |-> 0]
                 [] ~l.colon /\ l.kind # "next" ->
                      [kind |-> l.kind, text |-> l.name, value |-> l.value]]

ReadAsm ==
  /\ stage = "generate"
  /\ generated = "done"
  /\ stage' = "assemble"
  /\ lines' = [i \in DOMAIN asm |-> Scanned(asm[i])]
  /\ UNCHANGED <<source, typed, meant, generatorVars, machineVars, pass, cur, nameOperation,
                 elem, labelInfo, numberLabelInfo, numberBytesFile, code, assembled, trace>>

Assemble ==
  /\ stage = "assemble"
  /\ Assembler!Next
  /\ UNCHANGED <<stage, source, typed, meant, generatorVars, machineVars>>

ReadCode ==
  /\ stage = "assemble"
  /\ assembled = "ASSEMBLING_SUCCESSFUL"
  /\ stage' = "execute"
  /\ image' = [code |-> code, size |-> numberBytesFile]
  /\ UNCHANGED <<source, typed, meant, generatorVars, assemblerVars, pc, registers, dynMem,
                 stack, callArray, cntNumAddress, elem1, cpuError, output, result>>

Execute ==
  /\ stage = "execute"
  /\ Machine!Next
  /\ Machine!Fetched("IN") => elem1' = typed
  /\ UNCHANGED <<stage, source, typed, meant, generatorVars, assemblerVars>>

GaveUp == generated \in {"no main", "abort", "undefined"}
          \/ assembled \in {"ASSEMBLING_WRONG", "undefined"}

(* One of the programs is at work, or make is to start the next one.       *)
Working == ~GaveUp /\ result = "running"

Ended == ~Working /\ UNCHANGED vars

Next == Generate \/ ReadAsm \/ Assemble \/ ReadCode \/ Execute \/ Ended

Spec == Init /\ [][Next]_vars

(* Each of the three programs is sequential and make starts the next one   *)
(* when one has ended; IN and MOVE are taken to get their input.  This is  *)
(* weak fairness of Next with Working for its being enabled, which takes   *)
(* TLC much less time.  The two are the same where there is no deadlock    *)
(* and no working program leaves everything as it is, as a jump to itself  *)
(* would (FetchesInstructions).                                            *)
FairSpec == Spec /\ ([]<>~Working \/ []<><<TRUE>>_vars)

-----------------------------------------------------------------------------
Meaningful == meant.flow # "stuck"

(***************************************************************************)
(* A program the generator supports is accepted by the generator and the   *)
(* assembler; once run it has printed what it prints when it is read as C, *)
(* and it ends without an error.                                           *)
(***************************************************************************)
OutputAsMeant ==
  Meaningful =>
    /\ ~GaveUp
    /\ result # "running" => result = "CPU_NO_ERROR" /\ output = meant.out

(***************************************************************************)
(* A supported program with a meaning is translated, assembled, run and    *)
(* ends: neither the stack nor a table gives out on the way.               *)
(***************************************************************************)
RunsToTheEnd == <>(Meaningful => result = "CPU_NO_ERROR")

(***************************************************************************)
(* The assembler accepts whatever the generator writes, a program with a   *)
(* power excepted, for which it has no command: the two agree on every     *)
(* command, operand and label.                                             *)
(***************************************************************************)
UsesPower == \E d \in Functions(source) : Some(Nodes(d), LAMBDA n : n.type = "POW")

GeneratedAssembles == assembled = "ASSEMBLING_WRONG" => UsesPower

(***************************************************************************)
(* The machine only ever fetches instructions the assembler wrote, or      *)
(* stands at the end: with every function of a supported program returning *)
(* and every label resolved, no jump, return or fall-through leads between *)
(* them, and none to itself, so that a program that goes on gets on.       *)
(***************************************************************************)
FetchesInstructions ==
  stage = "execute" /\ result = "running" /\ Meaningful =>
    /\ pc \in DOMAIN code \cup {numberBytesFile}
    /\ \A a \in DOMAIN code : code[a].op = "JMP" => code[a].arg # a
=============================================================================
