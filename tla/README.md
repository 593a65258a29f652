# Specifications of the Lazy C tool chain

Lazy C is a small language with the syntax of C. The repository holds its
compiler and everything the compiled program needs: a front end that turns the
source text into a syntax tree and the tree into an assembler program, a
two-pass assembler, and a stack machine that runs the result. `make` builds the
three programs and runs them one after the other:

    src/generateAsmCode    code -> tree -> CPU/res/asm.txt
    CPU/Assembler/asm      CPU/res/asm.txt -> CPU/res/code.txt
    CPU/CPU/cpu            runs CPU/res/code.txt

This directory specifies the three and the pipeline they form in TLA+, checks
them with TLC on small instances and proves the main facts about the stack, the
machine, the assembler and its lines, the code generator, the parser and the
pipeline with TLAPS.

    tlc -workers 2 -config MCStack.cfg MCStack.tla
    tlapm StackProofs.tla

## Inventory

Paths are those of the repository. Everything is sequential: there are no
threads and no messages. What makes the system hard is elsewhere:
allocations that fail halfway through an instruction, values that outlive the
step that made them (a register, a scanned word, a table), tables of fixed size
that nobody checks, three programs that must agree on encodings without sharing
more than one header, arithmetic on labels and frames that is right only for
some shapes of program, a tree whose links are tied and cut by hand, and files
that outlive the run that made them.

| Part | State | Operations | Correct when |
|---|---|---|---|
| Operand stack, `CPU/CPU/Stack.cpp` | a block with canaries, capacity, size, status | constructor, push (may expand), pop (may shrink), destructor | it is a last-in-first-out sequence; no element or canary is lost to a reallocation; nothing touches the block once it is gone |
| Virtual machine, `CPU/CPU/main.cpp`, `Commands.h`, `Commands_help.h` | registers, memory, operand stack, return addresses, program counter | 25 commands, `getArg` | commands do what they say on a sequence of operands and a sequence of calls; a failure of the stack ends the run |
| Assembler, `CPU/Assembler/main.cpp` | label table, bytes written, the words last scanned | two passes over the lines | both passes lay out the same bytes; a jump goes to its label; the machine decodes what was written |
| Code generator, `src/GenerateAsmCode.cpp` | tables of globals, functions and locals, next label | one Convert function for each kind of node | the generated program does what the tree means |
| Tokenizer, `src/Tokenizer.cpp` | token array, offset in the text, one token filled again and again | one loop | it ends, and yields the tokens of the text |
| Parser, `src/Parser.cpp` | position in the token array, error code | recursive descent, one function per rule | it stays inside the array and builds the tree of the grammar |
| Tree, `src/Tree.cpp` | nodes with parent links, status | constructor, insertion, destructor, dump | every node is freed once; the links agree |
| Front-end driver, `src/main.cpp`, `src/FileOperations.cpp` | the text, the tokens, the tree | read, tokenize, parse, dump, generate, destroy | the generator gets what was written; a supported program goes through |
| File helpers, `CPU/*/FileOperations.cpp` | the text of `asm.txt`, places in it | count, split, discard comments | the lines are those of the file |
| Pipeline, `Makefile` | two files, the stage `make` is at | start the next program, stop at a failure | a later stage reads what an earlier one wrote in this run |
| Graphviz dump (`TreeDump`), disassembler stub, examples | none | | |

**Interactions.** The machine calls the stack, and every call returns through
`IS_CPU_ERROR_`, which ends `executeCode` at the first error. The assembler and
the machine include the same `Commands.h`, once for the names and codes and
once for the actions. The generator and the assembler share nothing: command
names, register names, the form of labels and of `[n]` operands are string
literals in one and comparisons in the other. The tokenizer fills the token
array the parser walks, the parser allocates the tree the generator walks and
partly destroys (it cuts global variables out of it). Stages communicate
through two files and the exit status that `make` looks at.

The hazards this gives rise to are listed, line by line, in `PROJECT.json`,
each with the properties that watch it. Where no property does, mostly because the
programs exposed to it are not among the supported ones, the note says so.

## Modules

| Module | What it is |
|---|---|
| `StackOps` | `Stack.cpp` as operators on one record: what each function leaves in the `stack_t`, the code it returns, the value it delivers |
| `Stack` | the stack as a state machine: CRT, pushes, pops and HLT in any order until the first error |
| `AbstractStack` | what it promises: a sequence |
| `Bytecode` | what assembler and machine share: commands, instruction sizes, arithmetic on `int` |
| `CPU` | `executeCode`, one action per command, with `StackOps` for its stack |
| `AbstractMachine` | what it promises: a machine with two sequences, without blocks, capacities or call array |
| `Assembler` | `main` and `assemblerFile`, one action per line of a pass |
| `CodeGen` | `GenerateAsmCode.cpp`, from the tree to the lines of `asm.txt` |
| `LazyC` | the meaning of a program read as C, and which programs the tool chain supports; an independent reference, no translation of the code |
| `Toolchain` | generator, assembler and machine composed through the two files |
| `Lexicon`, `Tokenizer` | the keywords and kinds of characters; the loop of the tokenizer, one action per branch |
| `Tree` | nodes in memory with their pointers, and the functions of `Tree.cpp` on them |
| `Parser` | the recursive descent, from tokens to the nodes of `Tree` |
| `Syntax` | what a tree stands for, as a program of `CodeGen`, and what tokens a program has; a reference, no translation of the code |
| `FrontEnd` | `src/main.cpp`: `Tokenizer`, `Parser`, `CodeGen` and `Tree` composed, from the file to the exit |
| `TextLines` | how the assembler cuts `asm.txt` into lines |
| `Pipeline` | the three programs under `make`, with files that outlive it, edits, interrupts and failing `fopen`s |
| `LazyCPrograms` | trees to run them on |
| `StackOpsProofs` | lemmas: what one call of `Stack.cpp` does to a stack fit for use |
| `StackProofs`, `CPUProofs`, `AssemblerProofs`, `TextLinesProofs`, `CodeGenProofs`, `ParserProofs`, `PipelineProofs` | the theorems about the module of that name |
| `MC*` | instances for TLC |

**Stack.** The record `stack` is a `stack_t`; `block` is the memory behind
`data`: a function on `-1 .. capacity` whose ends are the canaries. `data` also
takes the values "dangling" (the block was freed by a failed `realloc`) and
"corrupted" (something was stored in it after that). The model is that of the
DEBUG build, the one `Stack.h` selects: with canaries, and with `RecallocStack`
filling the unused slots. Each call may find the allocator failing; `TRUE` in
`AllocOutcomes` is success. Hashes are computed but read by no active code and
are left out.

**CPU.** An image maps addresses to decoded instructions. An action is a whole
turn of the loop, with all the stack calls of the command; every
one of them may fail. Where the code steps into undefined behaviour (an index
outside an array, a division that traps, a 21st call) the result is
"undefined" and the behaviour ends: nothing is promised after that, and in the
abstract machine only the action `Lose` reaches it. Signed overflow is
the exception: `Wrap` gives the two's complement result of the x86-64 build,
and the square root of a negative number is the `INT_MIN` its conversion gives
there. `dynMem` has `2 * SIZE_MEM` cells because the code allocates
`SIZE_MEM * sizeof(size_t)` bytes for ints. The prompts of the user are a
choice: `IN` reads any of `Inputs`, or nothing.

**Assembler.** A line is what `sscanf` finds in it, after `discardComments`.
The variables are those of `main` and `assemblerFile`; `nameOperation` and
`elem` persist from line to line as they do in the code, which is where the
repeated command after an empty line comes from. `trace` is a history variable:
the local state before each line of the first pass.

**CodeGen.** The tree is a nest of records in which a left chain of statements
is a sequence. Where a chain hangs as the left operand of an operation
(below), it is a STATEMENT node with the sequence in it, and an operand that is
not there is NOTHING, at which the generator asserts. The recursion of the Convert functions is an *agenda* of tasks:
an action does what a function does up to its first recursive call or between
two of them. `tables` is the C++ call stack's `TableLocalNames`. A generated
label is the pair of "next" and its number, a line a record of the form the
assembler tells apart. `passing` is a history variable: the registers that hold
arguments of unfinished calls. `Trees` says what the nodes the parser builds look
like; only the proofs need it, and `MCCodeGen` holds it against `LazyCPrograms`.

**Toolchain.** The three components with their own variables, a `stage`, and
two actions for the files: `ReadAsm` turns the generator's lines into the words
`sscanf` finds, `ReadCode` makes the written bytes the machine's image. `meant`
is fixed at the start: what `LazyC` says the program prints.

**Tokenizer.** A text is a string, an action one round of the loop: skip blanks,
then a keyword, a number, a name, a `$`, or nothing. `token` is the union that
is filled again and again. It is modelled by what a reader sees of its bytes:
`kw` as a `NodeType`, `id` as a string, `value` as a number. A double whose lower
half is zero is `CONST` and an empty string (`Short`), which is why numbers are
told apart at all, and why they can be taken for an operator. `$` writes two
bytes: it is `JE` (36) unless a name stood there before. `capacity` is what
the code believes, `room` what `realloc` gave it.

**Tree.** A `Tree_t` carries the memory with it: nodes are numbered in the order
`calloc` returned them, a freed one is not `live`. `TreeInsert`, `Linked`,
`SubtreeDtor` and `TreeDtor` do to the pointers what the code does.

**Parser.** As in `CodeGen` the calls under way are an agenda; an action is what a
grammar function does up to its next call, or the statements that follow a
call. `GetBool`, `GetE`, `GetT` and `GetPow` are one loop with four sets of
operators. Cells beyond the tokens are cleared while they are in the first block
and `beyond` after it; a walk further than `MaxBeyond` cells is given up as
undefined. `IS_PARSER_ERROR` up to the top is one step (`Unwind`). A null
pointer that is used ends as "crash".

A statement that is no more than an operation gets the statements before it for
its left operand (`Parser.cpp` line 289), and the operand that was parsed is lost.
`LinkedIn` of `LazyCPrograms` says what tree that gives, `ReadsBack` that it is
the one the parser builds, `OnlyOperandsLost` that nothing else is lost: what does
not hang in the tree is exactly what hangs below these operands.

**FrontEnd.** The three machines run one after the other on shared variables:
`tokens` between tokenizer and parser, `tree` between parser and generator.
`CodeGen` works on a sequence of definitions; what `FindAndPrintGlobalVar`
does to the nodes meanwhile (new root, bypass, free) is added to its actions
here, and `CutsAgree` says that the two stay in step. `OnlyGlobalsLeak` names
all that is never freed: the first node of the tree, the lost operands, and the
globals behind the last function. An error of syntax ends
in the assertion of `TreeDump`, before `asm.txt` is opened.

**TextLines.** The text is one block; newlines, its last character and semicolons
are overwritten with NUL. `findNextLine` is the walk to the next NUL.

**Pipeline.** A file is what it was made of and how much of it is there. A
program's effect on its output is split where the code can stop: opened
(empty), written, closed. The sources are model values, told apart by how
far they get. `OpenAsm` opens `asm.txt` first and looks for `main` afterwards, as the
code does; each pass of the assembler truncates `code.txt`. `Edit` and
`Interrupt` are the user; an interrupt may leave an empty or a cut-off file,
because buffers are lost. `opened` is a history variable.

### Supported programs

`LazyC!Supported` names the programs for which the tool chain is compared with
the meaning of C. Every rule is a limit of the code; `LazyCPrograms` has,
among `Limits`, programs that break one rule and go wrong:

| Rule | Limit |
|---|---|
| at most one global, a constant | `ex` is set before globals are counted (line 527), adjacent globals are skipped (72), others get a message (60) |
| at most two arguments, no user call in the first of two | they travel in `ax` and `bx` (333-345) |
| as many arguments as parameters, of a function that exists | a missing one is whatever the register holds |
| a condition is one comparison, and comparisons stand nowhere else | labels are reckoned from the next one (377, 394-396) |
| a function ends with `return` on every path, with a value unless it is main | nothing closes a function (278); `gx` is stale (304) |
| no value is thrown away in a function | it would cover the saved `ex` (355) |
| in a loop with a call, no name is new | the callee's frame is fixed at the first passage (350) |
| branches and bodies are not empty | assertion (482) |
| no statement is only an operation, a name or a number | its left operand is lost to the statements before it (`Parser.cpp` 289) |
| no power | no such command (467) |
| numbers below one million | `%g` keeps six digits, and `%d` reads no exponent (452) |
| no more names and functions than fit the tables | lines 180, 192, 250 |
| a parameter is not named like a global | globals are looked up first (406, 430) |

## Runs

All properties are stated, with the code behaviour they are about, above their
definitions.

| Run | Question | Bounds |
|---|---|---|
| `MCStack` | Is the stack a sequence, its block sound, and expansion stable? | capacity 5, up to 8 elements of 2 values, any allocation fails |
| `MCCPU` | Does the machine implement the abstract one, stop at the first failure of the stack, and stop at all? | words of 4 bits (`MaxInt` 7), 4 memory cells, 2 registers, 3 calls, capacity 3 |
| `MCAssembler` | Do the passes agree, with each other and with the machine? | every program of up to 4 lines out of 14, 3 labels |
| `MCCodeGen` | Do labels, frames, tables and calls come out right, for supported programs and others? | every tree of `LazyCPrograms` with one comparison in each condition (208), those with bare expressions included, tables of 4 names and 3 functions |
| `MCToolchain` | Does what the generator writes assemble, does a compiled program print what it means, and does it come to its end? | 200 trees, tables of 4 names and 3 functions, 4 numbers typed, words of 8 bits (`MaxInt` 127) |
| `MCTokenizer` | Are the tokens the words of the text, and does the loop end? | every text of up to 3 of 16 pieces, one whole program; blocks of 2 tokens, any `realloc` fails |
| `MCParser` | Is the tree the program, is it sound for any tokens, and does the parser end? | all trees of `LazyCPrograms`, every operator in every operand of every other, arrays, empty blocks, expressions for statements; every sequence of 2 tokens out of 20 at the top level, after a global and a function and in a block, every one of 3 out of 14 there; 2 kinds of memory behind the tokens |
| `MCFrontEnd` | Does a program in a file get through unharmed, and what is never freed? | the trees as text, those with bare expressions included, endings of the file, files with no program or an error |
| `MCTextLines` | Are the lines those of the file? | every text of up to 6 characters of 3 kinds |
| `MCPipeline` | Does a stale or cut-off file ever run, and does `make` recover by itself? | 6 sources, one for each way to end; 2 interrupts or failures |

Two runs show that the program does not do what its own text says:

| Run | What it shows |
|---|---|
| `MCAssemblerComments` | a comment on a line of its own repeats the command above it |
| `MCCodeGenParameters` | a call within the first argument overwrites the second |

Other places where the code does not do what it seems meant to are part of the
model, and the properties say what is true in spite of them:

- `GetStackError` finds an error in every live stack (the struct's canaries are
  filled in by a constructor nothing calls), so `ASSERT_OK` can only have been
  disabled; `SoundOrStopped` says how far it gets.
- A failed shrink stores into the freed block; `SoundOrStopped` says that
  nothing runs on it afterwards.
- An argument error that `getArg` found (`cpuError`) is not returned.
- A name that begins with a keyword is taken apart, and a `$` is a comparison
  unless it comes after a name; `TokensAsWritten` leaves both out. After a failed `realloc` the token is stored past the block;
  `LeavesOnlyAtBlanks` says that nothing else but blanks at the end of a text
  leads out of memory.
- A number in the place of an operator is taken for a comparison
  (`BoolOperation`).
- Once the table of functions is full, no function is translated any more, while
  calls still find the names (lines 250 and 329); `CallsHaveFunctions` says that
  every call has its function up to there, and none from there on.
- The missing semicolon of the last global is noted, and the tree goes on
  (`TreeSound` names this exception).
- A destructed tree is not marked as one (`TreeDtor` writes its size).

**Why the bounds are enough.** Capacity 5 makes the block go through 5 -> 10 and
the shrinks 5 -> 1 and 10 -> 3 -> 1; the proofs are for every capacity. The
machine's capacity of 3 lets programs of fifteen instructions expand and shrink
several times. Four-bit words make every operator overflow and the one trap of
the minimum appear. Four lines are enough for a jump before, between and after
two definitions of a label, and for a table of three to overflow. The trees of
`LazyCPrograms` pair every operator with every kind of operand in both orders,
and put branches in loops in branches with each comparison; the rules of
`Supported` were found by dropping them one by one. The labels of `MCToolchain`
are 14 because no supported tree needs more.

A block of two tokens makes the token array grow twice within three
words. The pieces of `MCTokenizer` put names, keywords, numbers and signs
side by side with and without blanks, and every one at the end of a text. Two
tokens are what the parser looks ahead, and three what the shortest statements
take; `MCParser` covers the long inputs. The parser's blocks of 10 tokens
are full in some programs and not in others, so that the cells behind them are
both cleared and not. One interrupt and one failure are what it takes to
leave `code.txt` of one source, `asm.txt` of another and to fail to open the
next; the proof is for any number.

**Deadlock** is checked in `MCToolchain`, `MCFrontEnd`, `MCTextLines` and `MCPipeline`, where
the end of the program is a step of its own (`Ended`) or `make` may be called
again. Elsewhere the programs end.

**Fairness.** `FairSpec` of `CPU` is weak fairness of the whole next-state
relation: a sequential program goes on as long as it can. So is that of
`Toolchain`, where `make` starts the next program when one has ended; it is
written with the predicate `Working` in the place of ENABLED, of which the missing
deadlock shows that it is no less. It also takes the user to answer:
`IN` and `MOVE` wait for input. No action is given fairness of its own. That of
`Tokenizer` and `Parser` is the same: they are loops and calls of one thread.
The tokenizer does not always end under it, and `EndsOrMeetsUnknown` says
when: a round that steps over nothing changes nothing. `Pipeline` has weak
fairness of the steps of `make` and the programs, not of calling `make`, editing
or interrupting; `Recovers` begins where no fault is left.

## What is proved

A theorem holds for every value of the constants that satisfies the assumptions
named; the runs check the same properties on one instance each.

**Stack** (`StackOpsProofs`, `StackProofs`), for every set of elements, every
capacity above 0 and every behaviour of the allocator. Assumed: the capacity is
a positive natural number (`executeCode` passes a constant), `Garbage` (the mark
of an indeterminate cell) is no element, `AllocOutcomes` is a set of Booleans.

- The lemmas of `StackOpsProofs` are about one call, for any set of elements:
  they serve the stack and the machine alike. A *fit* stack has a live block,
  positive capacity, size within it, canaries in place and elements below
  the top; a *lost* one had its block taken away. `CtorFit`, `PushFit` and
  `PopFit` say that a call on a fit stack leaves a fit or a lost one; each
  rests on `RecallocFit`, where the guard `size # 0` of `StackPop` is what
  keeps the capacity positive. `PushContents` and `PopContents` say the same of
  the sequence a stack stands for.
- `StackInvariant`: the inductive invariant. The properties are not inductive:
  `BlockIntact` says nothing of a stack whose block is gone, on which a further
  call would be as bad. The invariant adds that after a call without an error a
  constructed stack is fit, that a lost block comes only with an error, and that
  an abort happens only on a stack that was never constructed.
- `TypeCorrect`, `BlockStaysIntact`, `AssertionHolds`: the invariants of
  `MCStack` follow from it.
- `ExpansionIsKept`: after an expansion the capacity is twice the old one and
  the size one more than it, so a third of the capacity is less than the size
  a pop leaves.
- `StackRefinement`: initial states map to initial states and each call maps to
  the abstract call of the same name; the mapping sends the cells below `size`
  to the sequence.

**CPU** (`CPUProofs`), for every set of programs, every width of
an int, every size of the memory, the registers and `callArray`, every initial
capacity and every behaviour of the allocator. Assumed of the constants: the
sizes are natural numbers, the capacity a positive one, `MaxInt` at least 1, the
width of the picture of DRAW an int, what is typed is an int (`scanf` with `%d`
stores one), `Garbage` is none. Assumed of a program (`ImagesAssumption`): it has
a size and addresses, and every instruction is one that bytes can decode to: an
argument is a number, one of the four modes for a command that calls
`getArg`, an int for an immediate value. Nothing is assumed of the order of
the commands, their jumps or their register numbers.

- `MachineInvariant`: the invariant has three parts. *Calls*: to
  `ReturnsFollowCalls` it adds that `callArray` keeps its domain and
  `cntNumAddress` stays in `0 .. DepthRecursion`; without it, nothing says that
  CALL writes an entry that is there. *Types*: registers, memory and what is
  printed are ints, for which every command has to compute one from ints:
  `ComputeWord` and `RootWord`, over the wrap-around of
  `Wrap` and the whole part of a root. *Stack*: it is untouched or fit while the
  machine runs, lost only once it has stopped, destroyed only with the program
  counter at its end. This is what `SoundOrStopped` lacks to be inductive: that
  a push keeps the block sound takes all of *fit*, that no command runs on a
  lost block takes `result`, that none runs after HLT takes the program counter.
- `MachineTypeCorrect`, `ReturnsAreFromCalls`, `NothingRunsOnALostBlock`: its
  consequences.
- `MachineRefines`: the machine implements `AbstractMachine`, one with a
  sequence of operands and one of return addresses. One lemma for each command
  (`CrtRefines`, ... `HltRefines`): it finds the operands at the end of the
  sequence (`PeekContents`), does to it what the abstract command does
  (`SuccessRefines`), or stops where the abstract machine may stop, an operand
  missing or the block lost (`FailureRefines`). Undefined behaviour is `Lose`.

**Assembler** (`AssemblerProofs`), for every set of programs and table size.
Assumed: programs are non-empty sequences of lines of the known kinds
(`assemblerFile` asserts that there are lines), the number in an operand an int.

- `AssemblerInvariant`: pass 2 repeats pass 1. The statement "the table does not
  change in pass 2" is not inductive, because nothing in it says why a
  label would be met at the same address again. The invariant relates the
  passes through `trace`: each recorded local state follows from the one before
  it by `NextLocal`, which mentions neither `elem` nor the table
  (`EncodedBytes`: no encoding's size depends on them), each accepted label
  stands in the table where pass 1 put it, and in pass 2 the local state is the
  one recorded for the same line.
- `TableIsStable`, `PassTwoSucceeds`: the two consequences.
- `LayoutInvariant`: where things lie in the file. It adds to the first
  invariant that addresses never decrease from line to line, that the lines of
  the pass done so far begin at boundaries of the code and every instruction
  written ends at one, that every entry of the table was made by some line
  that defines its name and the free entries are at its end, and that a jump
  written in pass 2 has the address of its name in the table. `EncodingFits` is
  where assembler and machine meet: the bytes an encoding takes are the bytes
  the machine steps over.
- `WrittenIsDecoded`, `EveryJumpLands`, `FirstDefinitionCounts`: the machine
  decodes what was written; a jump goes to an instruction or the end, and to -1
  only for a label that no line defines; of two labels of one name the first counts, although `processLabel` takes the
  next entry without looking for the name.
- `TypeCorrect`: the table keeps its slots, the count of labels stays in it, and
  what was written lies before the end of the file.

**Lines** (`TextLinesProofs`), for every set of texts. Assumed: a text is a
sequence; NUL, newline and semicolon are different characters; for
`LinesAreAsWritten` also that no text has a NUL in it (`TextFiles`; the generator
writes `asm.txt` with `fprintf`, from C strings). With one, a line would end there.

- `LinesInvariant`: `splitToLines` makes as many lines as `countNumberLines`
  counted, by walking from NUL to NUL, and nothing in it looks where the text
  ends. The walk stays inside because there are never fewer NULs from the place
  looked at to the end than there are lines left to be made: counting writes
  one for each line it counts (a text with no newline at its end has its last
  character overwritten), and no stage writes anything but NULs over the
  text, so none of them disappears.
- `LinesStayInTheFile`: every line, and every comment cut off it, ends in the text.
- `WrittenInvariant`: what the text holds at each stage. Each stage overwrites what
  the next one walks over, so the invariant says which NULs are there and why:
  the text is that of the file but for the line breaks passed so far (its last
  character counts as one) and the first semicolon of each line cut so far, and
  line k begins behind break k - 1.
- `LinesAreAsWritten`: in the end every line is what the file has between two
  breaks, up to its first semicolon. What makes it true is that a semicolon
  cut in one line is never taken for the end of another.

**Code generator** (`CodeGenProofs`), for every set of programs and every size of
the tables. Assumed: `TablesAssumption`, a table of names has a place and that of
functions any number of them; `Trees` (as `TreesGiven`): an expression, a
condition or a statement has only such parts as the parser gives it, and no name
is that of a command (names are written in quotes). Nothing is assumed of what
the names are, how many, whether they are defined, how deep the trees are or
whether the program is supported. For the labels alone, `OneComparisonEach`: a
condition is one comparison and comparisons stand nowhere else. This is a
rule of `Supported`, and without it the statement is false (`NoComparison`
among `Limits`): labels are reckoned from the next one.

- `TypedInvariant`: the agenda stands for the C++ call stack, and whether a
  table may be touched depends on whose task comes next. The invariant divides
  the agenda: the tasks of the function under way, the one that leaves it,
  those of the top level. There are two tables up to the one that leaves and one
  after it. Each task gets from the tree what it looks for in it, and no
  table grows past its array, because the code ends at the first full one.
- `TypesAreKept`: `TypeOK`.
- `FramesInvariant`, `CalleesHaveFreeFrames`: a callee's frame begins where the
  names known at the call end, and a name met later gets the next address,
  possibly while the arguments of an outer call are being computed. The
  invariant holds every address written since the function began against the
  number of names now known, which never falls, and every finished frame against
  the addresses before it in the text. The property is about programs whose
  global variables are constants (`OnlyFunctions`): another leaves code between two
  functions, which belongs to neither and is never run.
- `LabelsInvariant`: every number below `curLabel` is given to one line,
  written or still due in a task, and to no other. The exception is what makes
  the generator hard to follow: a comparison takes a label and jumps to it, but
  the statement around it writes it, reckoning it as one less than the next one.
  So there are three phases: no condition is under way; the comparison is
  still to come; or it was made, and the last label taken is given nowhere
  yet. `OneComparisonEach` is what makes that the label the statement reckons.
- `JumpsHaveTheirLabels`: in the end every jump to a generated label has one place
  to go to.

**Parser** (`ParserProofs`), for every set of token sequences, any contents of
the memory after the array, every size of the first block and every `MaxBeyond`.
Assumed: an array of tokens is a sequence, the two bounds are natural numbers.
Nothing is assumed of the tokens: they need not be a program.

- `ParserInvariant`: `TreeSound` speaks of the end, when the nodes are tied;
  the invariant has to follow the local variables of all the calls that are
  still going to tie them. *Nodes*: the pointers that are there agree (`Tied`);
  the nodes that the tasks of the agenda hold are all different and hang
  nowhere; a node that was just returned hangs nowhere and is held by none; and
  no task hangs anything to the right of the outer node of a statement under
  way, where its keyword hangs. So a tie never takes a node away from where it
  hung. *Order*: what may follow a task (`Follows`, the calls of the grammar
  functions read backwards), so that the node it returns is one the
  next task can use. *Errors*: while there is one, some task of the agenda will
  ask for it, or it is the missing semicolon of the last global variable, which
  none asks for. *Missing nodes*: a task finds none only after a semicolon and
  closing brackets, or in an empty block.
- The lemmas say what each operator of `Tree` does to a sound tree (`Hung`,
  `Inserted`, ...), what each kind of task in front of an agenda needs and adds
  (`PushGet`, `PushLoop`, ...), and which changes of the tree the other
  tasks do not notice (`Spared`). Then there is one lemma for each of the
  actions, and `InvNext` joins them.
- `TypeCorrect`: no pointer leads out of the nodes.
- `TreeIsSound`: the tree is sound from the root down, and after an error there
  is none but a global variable's. `LinksAgreeBelow` takes this from the nodes
  to the subtree of the root; that the walk down stays among the nodes
  is an induction over the depth, made by hand with the least depth at which
  it would leave them (`LevelsExist`, `SubtreeIn`).
- `CrashesAreOnMissing`: a null pointer is used only for one of the two reasons.

**Pipeline** (`PipelineProofs`), for every set of sources and any number of faults.
Assumed: a source that assembles is one that is translated, has a main and a
tree, and `None` is no source.

- `TypeCorrect`: every step leaves every variable in its type. The lemmas go by
  variable (`FilesStep`, `ControlStep`, ...), each over the actions.
- `NothingStaleRuns`: the machine never runs what an earlier make left.
  `RunsThisSource` is about the last stage only; the invariant follows the file
  through the stages before it. `AsmIsOfThisMake`: from `OpenAsm` to the end of
  the make, if `asm.txt` could be opened it is of the source that was read, and
  whole when there is a main and printing is over. `CodeIsOfThisAsm`: while the
  assembler writes, `code.txt` is of the `asm.txt` that is there, and whole
  once `cpu` is next. An edit does not disturb it, since a source is read once.

**Only model-checked.** Everything about `Tokenizer`, `Toolchain` and `FrontEnd`;
`OnlyOperandsLost` and `ReadsBack` of the parser; all liveness (`Stops`,
`RunsToTheEnd`, `Ends`, `EndsOrMeetsUnknown`, `Recovers`), since the prover does not treat fairness and ENABLED. The
induction theorems of the library take an operator, which the provers cannot
instantiate. An induction over the numbers for one given statement can be made
with the least counterexample (`First` of `CPUProofs` and `ParserProofs`),
as for the walk over a subtree and the square root; one over trees or
programs, as in `LazyC` and `Syntax` (with their `RECURSIVE` operators), cannot, and
with them `Toolchain`, `FrontEnd` and some MC modules are for TLC only.

## What is not modelled

The dump for Graphviz (but for the assertion it ends a parse without a tree
with), the listing file of the assembler, log output, the unused `writeFile` and
`moveToNextLine` and the disassembler stub change nothing the rest depends on.
In what is modelled, these are abstracted: fractions, exponents and hexadecimals,
which `strtod` would take and whose bytes can make the parser take a number for
a name; names too long for their buffers (400 bytes in a token, fewer in the
tables of the generator and the assembler); `calloc` returning a null pointer
in the tree, which the code takes for granted cannot happen; errors of `fseek`,
`ftell` and `fread`, which end in an assertion or a null pointer at once; the
header of the code file; `StackCtorForDebug` and the hashes.

## Plan

Done: the stack, the machine and the assembler with their abstract
specifications, the generator, the composition of the four, tokenizer, parser,
tree and front end, the lines of the assembler, the pipeline; the proofs of the
stack, the machine and its refinement, the assembler, its lines, the generator,
the pipeline, and of the soundness of the tree. Left, in this order:

1. `OnlyOperandsLost` of `Parser`, from `ParserInvariant`: every node is held by a task,
   returned, or hangs below one that is, but for left operands.
2. `LeavesOnlyAtBlanks` of `Tokenizer`: capacity, room and count of the tokens
   through the reallocations.
