----------------------------- MODULE CPUProofs ------------------------------
(***************************************************************************)
(* What module CPU promises, for every image, every width of a word, every *)
(* behaviour of the allocator and all sizes of its arrays.                 *)
(*                                                                         *)
(* ReturnsFollowCalls alone is not inductive: for the entry that Call      *)
(* makes it has to be known that it is an entry of callArray, and that     *)
(* the entries below it are there still.  SoundOrStopped is not either:    *)
(* that a push keeps the block sound takes all of Fit, that nothing runs   *)
(* on a lost block takes what result is then, and that nothing runs after  *)
(* HLT takes where the program counter is.                                 *)
(***************************************************************************)
EXTENDS CPU, StackOpsProofs, WellFoundedInduction

(* A set of naturals that is not empty has a first element.                *)
LEMMA First ==
  ASSUME NEW S \in SUBSET Nat, S # {}
  PROVE  \E i \in S : \A j \in S : i <= j
  <1>1. \E i \in S : \A j \in S : ~ (<<j, i>> \in OpToRel(<, Nat))
    BY WFMin, NatLessThanWellFounded
  <1>2. \A i, j \in S : i <= j \/ <<j, i>> \in OpToRel(<, Nat)
    BY DEF OpToRel
  <1> QED BY <1>1, <1>2

LEMMA WordIsInt ==
  /\ Word \subseteq Int /\ 0 \in Word /\ 1 \in Word /\ -1 \in Word
  /\ MinInt \in Word /\ MaxInt \in Word
  BY WordAssumption DEF Word, MinInt

(* Overflow wraps around.                                                  *)
LEMMA WrapWord ==
  ASSUME NEW x \in Int
  PROVE  Wrap(x) \in Word
  <1> DEFINE m == 2 * (MaxInt + 1)
  <1>1. m \in Nat \ {0} /\ MinInt \in Int /\ MaxInt = MinInt + m - 1
    BY WordAssumption DEF MinInt
  <1> HIDE DEF m
  <1>2. (x - MinInt) % m \in 0 .. m - 1
    BY <1>1
  <1> QED BY <1>1, <1>2 DEF Wrap, Word, m

(* A quotient is no larger than what is divided, and smaller unless the     *)
(* divisor is 1.                                                           *)
LEMMA QuotientBound ==
  ASSUME NEW a \in Nat, NEW b \in Nat \ {0}
  PROVE  a \div b \in 0 .. a /\ (a > 0 /\ b > 1 => a \div b < a)
  <1> DEFINE q == a \div b
             r == a % b
  <1>1. q \in Int /\ r \in 0 .. b - 1 /\ a = b * q + r
    OBVIOUS
  <1> HIDE DEF q, r
  <1>2. q >= 0
    BY <1>1
  <1>3. q <= b * q /\ (q > 0 /\ b > 1 => q < b * q)
    BY <1>2, <1>1
  <1> QED BY <1>1, <1>2, <1>3 DEF q

LEMMA QuotientWord ==
  ASSUME NEW x \in Word, NEW y \in Word, ~Traps("DIV", x, y)
  PROVE  Quotient(x, y) \in Word
  <1> DEFINE a == Magnitude(x)
             b == Magnitude(y)
  <1>1. a \in Nat /\ b \in Nat \ {0} /\ a <= MaxInt + 1
    BY WordAssumption DEF Word, MinInt, Magnitude, Traps
  <1>2. a \div b \in 0 .. a /\ (a > 0 /\ b > 1 => a \div b < a)
    BY <1>1, QuotientBound
  <1>3. a = MaxInt + 1 => x = MinInt
    BY WordAssumption DEF Word, MinInt, Magnitude
  <1>4. x = MinInt /\ y < 0 => b > 1
    BY WordAssumption DEF Word, MinInt, Magnitude, Traps
  <1>5. x < 0 /\ y < 0 => a \div b <= MaxInt
    BY <1>1, <1>2, <1>3, <1>4, WordAssumption DEF Word, MinInt
  <1>6. ~(x < 0) => a <= MaxInt
    BY WordAssumption DEF Word, MinInt, Magnitude
  <1> HIDE DEF a, b
  <1>7. Quotient(x, y) = IF (x < 0) = (y < 0) THEN a \div b ELSE -(a \div b)
    BY DEF Quotient, a, b
  <1> QED BY <1>1, <1>2, <1>5, <1>6, <1>7, WordAssumption DEF Word, MinInt

LEMMA ComputeWord ==
  ASSUME NEW op \in Operators, NEW x \in Word, NEW y \in Word, ~Traps(op, x, y)
  PROVE  Compute(op, x, y) \in Word
  <1>1. x \in Int /\ y \in Int
    BY WordIsInt
  <1>2. Wrap(x + y) \in Word /\ Wrap(x - y) \in Word /\ Wrap(x * y) \in Word
    BY <1>1, WrapWord
  <1>3. op = "DIV" => Quotient(x, y) \in Word
    BY QuotientWord
  <1> QED BY <1>2, <1>3 DEF Compute, Operators

(* The root that is cut off exists: one below the first number whose        *)
(* square is too large.                                                    *)
LEMMA RootExists ==
  ASSUME NEW x \in Nat
  PROVE  \E r \in 0 .. x : r * r <= x /\ x < (r + 1) * (r + 1)
  <1> DEFINE S == {k \in Nat : x < k * k}
  <1>1. x + 1 \in S
    OBVIOUS
  <1>2. PICK k \in S : \A j \in S : k <= j
    <2>1. S \in SUBSET Nat /\ S # {}
      BY <1>1
    <2> HIDE DEF S
    <2> QED BY <2>1, First
  <1>3. k \in Nat /\ x < k * k /\ k # 0 /\ k <= x + 1
    BY <1>1, <1>2
  <1>4. k - 1 \in Nat /\ ~(k <= k - 1) /\ (k - 1) + 1 = k
    BY <1>3
  <1>5. k - 1 \notin S
    BY <1>2, <1>4
  <1>6. (k - 1) * (k - 1) <= x
    BY <1>4, <1>5
  <1>7. k - 1 \in 0 .. x
    BY <1>3, <1>4
  <1> QED BY <1>3, <1>4, <1>6, <1>7

LEMMA RootWord ==
  ASSUME NEW x \in Word
  PROVE  SquareRoot(x) \in Word
  <1>1. CASE x < 0
    BY <1>1, WordIsInt DEF SquareRoot
  <1>2. CASE ~(x < 0)
    <2>1. x \in Nat /\ x <= MaxInt
      BY <1>2, WordAssumption DEF Word, MinInt
    <2>2. SquareRoot(x) \in 0 .. x
      BY <1>2, <2>1, RootExists DEF SquareRoot
    <2> QED BY <2>1, <2>2, WordAssumption DEF Word, MinInt
  <1> QED BY <1>1, <1>2

-----------------------------------------------------------------------------
Entries == 0 .. DepthRecursion - 1

CallsTyped ==
  /\ image \in Images
  /\ cntNumAddress \in 0 .. DepthRecursion
  /\ callArray \in [Entries -> Nat]

CallsInv == CallsTyped /\ ReturnsFollowCalls

(* What a program prints: numbers, characters and pictures.                *)
Item == Word \cup Printers \cup Seq({"*", " "})

MachineTyped ==
  /\ pc \in Int
  /\ registers \in [Regs -> Word]
  /\ dynMem \in [MemCells -> Word]
  /\ elem1 \in Word
  /\ cpuError \in {"CPU_NO_ERROR", "CPU_NO_NUMBER_REGISTER", "CPU_NO_NUMBER_DYN_MEM"}
  /\ output \in Seq(Item)
  /\ result \in Results

StackInv ==
  \/ stack = UnconstructedStack
  \/ Fit(Word, stack)
  \/ Lost(Word, stack) /\ result = "CPU_STACK_ERROR"
  \/ stack = DestroyedStack /\ pc >= image.size

IInv == CallsInv /\ MachineTyped /\ StackInv

CallsKept == UNCHANGED <<image, callArray, cntNumAddress>>

-----------------------------------------------------------------------------
(* The machine always steps over something.                                *)
LEMMA InstrSizePositive ==
  ASSUME NEW i
  PROVE  i.op \in Ops => InstrSize(i) \in Nat \ {0}
BY DEF InstrSize, CodeBytes, IntBytes, RegBytes, Ops, NoArgOps, Operators, Printers,
       ArgOps, Jumps, ConditionalJumps

LEMMA FetchedInstr ==
  ASSUME image \in Images, NEW op \in Ops, Fetched(op)
  PROVE  /\ result = "running" /\ pc < image.size
         /\ pc \in DOMAIN image.code /\ pc \in Nat
         /\ Instr.op = op /\ Decodes(Instr)
         /\ NextPc \in Nat /\ image.size \in Nat
<1>1. InstrSize(Instr) \in Nat
  BY InstrSizePositive DEF Fetched
<1>2. pc \in DOMAIN image.code /\ pc \in Nat /\ Decodes(Instr) /\ image.size \in Nat
  BY ImagesAssumption DEF Fetched, Instr
<1>. QED
  BY <1>1, <1>2 DEF Fetched, NextPc

LEMMA InitCalls == Init => CallsInv
<1>. SUFFICES ASSUME Init PROVE CallsInv
  OBVIOUS
<1>1. image \in Images /\ cntNumAddress = 0 /\ callArray = [i \in Entries |-> 0]
  BY DEF Init, Idle, Entries
<1>2. CallsTyped
  BY <1>1, DepthAssumption DEF CallsTyped
<1>3. ReturnsFollowCalls
  BY <1>1 DEF ReturnsFollowCalls
<1>. QED
  BY <1>2, <1>3 DEF CallsInv

(* A step that leaves the program and the calls alone.                     *)
LEMMA KeptStep == CallsInv /\ CallsKept => CallsInv'
BY DEF CallsInv, CallsTyped, ReturnsFollowCalls, CallsKept

(* All commands but CALL and RET do.                                       *)
LEMMA OtherCommands ==
  ASSUME Next, ~Call, ~Ret
  PROVE  CallsKept
<1>. USE DEF CallsKept, machine
<1>1. CASE Crt
  BY <1>1 DEF Crt
<1>2. CASE In
  BY <1>2 DEF In
<1>3. CASE Push
  BY <1>3 DEF Push
<1>4. CASE Pop
  BY <1>4 DEF Pop
<1>5. CASE Out
  BY <1>5 DEF Out
<1>6. CASE Hlt
  BY <1>6 DEF Hlt
<1>7. CASE Jmp
  BY <1>7 DEF Jmp
<1>8. CASE Sqrt
  BY <1>8 DEF Sqrt
<1>9. CASE Draw
  BY <1>9 DEF Draw
<1>10. CASE Move
  BY <1>10 DEF Move
<1>11. CASE BadFetch \/ Finish
  BY <1>11 DEF BadFetch, Finish
<1>12. CASE \E op \in Operators : Operate(op)
  BY <1>12 DEF Operate
<1>13. CASE \E op \in ConditionalJumps : CondJmp(op)
  BY <1>13 DEF CondJmp
<1>14. CASE \E op \in Printers : PrintChar(op)
  BY <1>14 DEF PrintChar
<1>. QED
  BY <1>1, <1>2, <1>3, <1>4, <1>5, <1>6, <1>7, <1>8, <1>9, <1>10, <1>11, <1>12, <1>13,
     <1>14 DEF Next

(* CALL adds the address of the instruction behind it.                     *)
LEMMA CallStep == CallsInv /\ Call => CallsInv'
<1>. SUFFICES ASSUME CallsInv, Call PROVE CallsInv'
  OBVIOUS
<1>0. image' = image
  BY DEF Call
<1>1. CASE ~(cntNumAddress < DepthRecursion)
  BY <1>1, KeptStep, <1>0 DEF Call, CallsKept
<1>2. CASE cntNumAddress < DepthRecursion
  <2>. DEFINE here == cntNumAddress
  <2>1. here \in Entries /\ here \in Nat
    BY <1>2, DepthAssumption DEF CallsInv, CallsTyped, Entries
  <2>2. /\ cntNumAddress' = here + 1
        /\ callArray' = [callArray EXCEPT ![here] = NextPc]
    BY <1>2 DEF Call
  <2>3. /\ pc \in DOMAIN image.code /\ image.code[pc].op = "CALL"
        /\ NextPc = pc + InstrSize(image.code[pc]) /\ NextPc \in Nat
    BY FetchedInstr DEF Call, Fetched, NextPc, Instr, Ops, Jumps, CallsInv, CallsTyped
  <2>4. /\ callArray' \in [Entries -> Nat]
        /\ callArray'[here] = NextPc
        /\ \A i \in Entries : i # here => callArray'[i] = callArray[i]
    BY <2>1, <2>2, <2>3 DEF CallsInv, CallsTyped
  <2>5. CallsTyped'
    BY <1>0, <1>2, <2>1, <2>2, <2>4, DepthAssumption DEF CallsInv, CallsTyped, Entries
  <2>6. ASSUME NEW i \in 0 .. cntNumAddress' - 1
        PROVE  \E a \in DOMAIN image'.code :
                 /\ image'.code[a].op = "CALL"
                 /\ callArray'[i] = a + InstrSize(image'.code[a])
    <3>1. CASE i = here
      BY <3>1, <2>3, <2>4, <1>0
    <3>2. CASE i # here
      <4>1. i \in 0 .. here - 1 /\ i \in Entries
        BY <3>2, <1>2, <2>1, <2>2, DepthAssumption DEF Entries
      <4>2. callArray'[i] = callArray[i]
        BY <4>1, <3>2, <2>4
      <4>3. PICK a \in DOMAIN image.code :
              image.code[a].op = "CALL" /\ callArray[i] = a + InstrSize(image.code[a])
        BY <4>1 DEF CallsInv, ReturnsFollowCalls
      <4>. QED
        BY <4>2, <4>3, <1>0
    <3>. QED
      BY <3>1, <3>2
  <2>. QED
    BY <2>5, <2>6 DEF CallsInv, ReturnsFollowCalls
<1>. QED
  BY <1>1, <1>2

(* RET takes the last one away.                                            *)
LEMMA RetStep == CallsInv /\ Ret => CallsInv'
<1>. SUFFICES ASSUME CallsInv, Ret PROVE CallsInv'
  OBVIOUS
<1>1. image' = image /\ callArray' = callArray
  BY DEF Ret
<1>2. CASE ~(cntNumAddress > 0)
  BY <1>1, <1>2, KeptStep DEF Ret, CallsKept
<1>3. CASE cntNumAddress > 0
  <2>1. cntNumAddress' = cntNumAddress - 1
    BY <1>3 DEF Ret
  <2>2. CallsTyped'
    BY <1>1, <1>3, <2>1, DepthAssumption DEF CallsInv, CallsTyped
  <2>3. 0 .. cntNumAddress' - 1 \subseteq 0 .. cntNumAddress - 1
    BY <1>3, <2>1, DepthAssumption DEF CallsInv, CallsTyped
  <2>. QED
    BY <1>1, <2>2, <2>3 DEF CallsInv, ReturnsFollowCalls
<1>. QED
  BY <1>2, <1>3

LEMMA CallsNext == CallsInv /\ [Next]_vars => CallsInv'
<1>. SUFFICES ASSUME CallsInv, [Next]_vars PROVE CallsInv'
  OBVIOUS
<1>1. CASE UNCHANGED vars
  BY <1>1, KeptStep DEF vars, machine, CallsKept
<1>2. CASE Next /\ ~Call /\ ~Ret
  BY <1>2, OtherCommands, KeptStep
<1>. QED
  BY <1>1, <1>2, CallStep, RetStep

-----------------------------------------------------------------------------
(***************************************************************************)
(* The commands and the operand stack.                                     *)
(***************************************************************************)
LEMMA Commands ==
  /\ {"CRT", "IN", "PUSH", "POP", "OUT", "HLT", "JMP", "CALL", "RET", "SQRT",
      "DRAW", "MOVE"} \subseteq Ops
  /\ Operators \subseteq Ops /\ ConditionalJumps \subseteq Ops /\ Printers \subseteq Ops
  /\ Word \subseteq Item /\ Printers \subseteq Item
BY DEF Ops, NoArgOps, Operators, Printers, ArgOps, Jumps, ConditionalJumps, Item

Usable(s) == s = UnconstructedStack \/ Fit(Word, s)

(* No command is fetched once the block is lost or the stack destroyed.    *)
LEMMA UsableStack ==
  ASSUME IInv, NEW op \in Ops, Fetched(op)
  PROVE  Usable(stack)
<1>1. result = "running" /\ pc < image.size /\ pc \in Nat /\ image.size \in Nat
  BY FetchedInstr DEF IInv, CallsInv, CallsTyped
<1>2. ~(stack = DestroyedStack /\ pc >= image.size)
  BY <1>1
<1>. QED
  BY <1>1, <1>2 DEF IInv, StackInv, Usable

(* What a sequence of calls that starts on a usable stack may come to.     *)
Leaves(r) ==
  \/ r.err = Ok /\ Fit(Word, r.stack)
  \/ r.err = "abort" /\ r.stack = UnconstructedStack
  \/ r.err \notin {Ok, "abort"} /\ (Usable(r.stack) \/ Lost(Word, r.stack))

LEMMA SettleInv ==
  ASSUME pc \in Int, result = "running", NEW r, Leaves(r), NEW next \in Int,
         Settle(r, next)
  PROVE  StackInv' /\ pc' \in Int /\ result' \in Results
<1>1. stack' = r.stack
  BY DEF Settle
<1>2. CASE r.err = Ok
  <2>1. pc' = next /\ result' = result
    BY <1>2 DEF Settle
  <2>2. Fit(Word, stack')
    BY <1>1, <1>2 DEF Leaves, Ok
  <2>. QED
    BY <2>1, <2>2 DEF StackInv, Results
<1>3. CASE r.err # Ok
  <2>1. pc' = pc /\ result' = Failure(r.err)
    BY <1>3 DEF Settle, Stop
  <2>2. CASE r.err = "abort" /\ r.stack = UnconstructedStack
    BY <1>1, <2>1, <2>2 DEF StackInv, Failure, Results
  <2>3. CASE r.err # "abort" /\ (Usable(r.stack) \/ Lost(Word, r.stack))
    <3>1. result' = "CPU_STACK_ERROR"
      BY <2>1, <2>3 DEF Failure
    <3>. QED
      BY <1>1, <2>1, <2>3, <3>1 DEF StackInv, Usable, Results
  <2>. QED
    BY <1>3, <2>2, <2>3 DEF Leaves, Ok
<1>. QED
  BY <1>2, <1>3

LEMMA CtorLeaves ==
  ASSUME NEW s, Usable(s), NEW ok \in BOOLEAN
  PROVE  Leaves(StackCtor(s, Capacity, ok))
<1>. DEFINE r == StackCtor(s, Capacity, ok)
<1>1. CASE s = UnconstructedStack
  <2>1. \/ Fit(Word, r.stack) /\ r.err = Ok
        \/ r.stack = s /\ r.err = "STACK_DATA_CALLOC_ERROR"
    <3>. HIDE DEF r
    <3>1. r = StackCtor(UnconstructedStack, Capacity, ok)
      BY <1>1 DEF r
    <3>. QED
      BY <1>1, <3>1, CtorFit, CapacityAssumption
  <2>. QED
    BY <1>1, <2>1 DEF Leaves, Usable, Ok
<1>2. CASE Fit(Word, s)
  <2>1. r = Outcome(s, "STACK_ALREADY_CONSTRUCTED", Garbage)
    BY <1>2 DEF Fit, StackCtor
  <2>. QED
    BY <1>2, <2>1 DEF Leaves, Usable, Ok, Outcome
<1>. QED
  BY <1>1, <1>2 DEF Usable

LEMMA CtorWord ==
  ASSUME NEW s, s = UnconstructedStack, NEW ok \in BOOLEAN
  PROVE  LET r == StackCtor(s, Capacity, ok)
         IN  \/ ok /\ Fit(Word, r.stack) /\ r.stack.size = 0 /\ r.err = Ok
             \/ ~ok /\ r.stack = s /\ r.err = "STACK_DATA_CALLOC_ERROR"
BY CtorFit, CapacityAssumption

LEMMA PushLeaves ==
  ASSUME NEW s, Usable(s), NEW e \in Word, NEW ok \in BOOLEAN
  PROVE  Leaves(StackPush(s, e, ok))
<1>. DEFINE r == StackPush(s, e, ok)
<1>1. \/ Fit(Word, r.stack) /\ r.err = Ok
      \/ Lost(Word, r.stack) /\ r.err = "STACK_DATA_REALLOC_ERROR"
      \/ r.stack = UnconstructedStack /\ r.err = "abort"
  BY PushContents DEF Usable
<1>. QED
  BY <1>1 DEF Leaves, Ok

LEMMA PopWord ==
  ASSUME NEW s, Usable(s), NEW ok \in BOOLEAN
  PROVE  LET r == StackPop(s, ok)
             c == ContentsOf(s)
         IN  \/ /\ Fit(Word, s) /\ c \in Seq(Word) /\ Len(c) > 0
                /\ r.top = c[Len(c)] /\ r.top \in Word
                /\ \/ /\ Fit(Word, r.stack) /\ r.err = Ok
                      /\ ContentsOf(r.stack) = SubSeq(c, 1, Len(c) - 1)
                   \/ ~ok /\ Lost(Word, r.stack) /\ r.err = "STACK_DATA_REALLOC_ERROR"
             \/ /\ c = <<>> /\ r.stack = s
                /\ r.err = "STACK_POP_FROM_EMPTY" /\ r.top = Garbage
BY PopContents DEF Usable

LEMMA PopLeaves ==
  ASSUME NEW s, Usable(s), NEW ok \in BOOLEAN
  PROVE  LET r == StackPop(s, ok)
         IN  /\ Leaves(r) /\ r.err # "abort"
             /\ r.top # Garbage <=> ContentsOf(s) # <<>>
             /\ r.top # Garbage => r.top \in Word
             /\ r.err = Ok => r.top \in Word
<1>. DEFINE r == StackPop(s, ok)
            c == ContentsOf(s)
<1>1. \/ /\ Fit(Word, s) /\ c \in Seq(Word) /\ Len(c) > 0
         /\ r.top = c[Len(c)] /\ r.top \in Word
         /\ \/ /\ Fit(Word, r.stack) /\ r.err = Ok
               /\ ContentsOf(r.stack) = SubSeq(c, 1, Len(c) - 1)
            \/ ~ok /\ Lost(Word, r.stack) /\ r.err = "STACK_DATA_REALLOC_ERROR"
      \/ /\ c = <<>> /\ r.stack = s
         /\ r.err = "STACK_POP_FROM_EMPTY" /\ r.top = Garbage
  BY PopWord
<1>. HIDE DEF r, c
<1>2. Len(c) > 0 => c # <<>>
  OBVIOUS
<1>3. r.top \in Word => r.top # Garbage
  BY GarbageAssumption
<1>4. Leaves(r) /\ r.err # "abort"
  BY <1>1 DEF Leaves, Ok, Usable
<1>. QED
  BY <1>1, <1>2, <1>3, <1>4 DEF r, c, Ok

(***************************************************************************)
(* Two pops deliver the two topmost elements and leave the rest, or the    *)
(* block is lost, or the operands are missing and nothing is left.         *)
(***************************************************************************)
LEMMA PopTwoContents ==
  ASSUME NEW s, Usable(s), NEW ok1 \in BOOLEAN, NEW ok2 \in BOOLEAN,
         NEW r, r = PopTwo(s, ok1, ok2)
  PROVE  LET c == ContentsOf(s)
         IN  \/ /\ Fit(Word, s) /\ c \in Seq(Word) /\ Len(c) >= 2
                /\ Fit(Word, r.stack) /\ r.err = Ok
                /\ ContentsOf(r.stack) = SubSeq(c, 1, Len(c) - 2)
             \/ /\ Fit(Word, s) /\ Lost(Word, r.stack)
                /\ ~ok1 \/ ~ok2
                /\ r.err = "STACK_DATA_REALLOC_ERROR"
             \/ /\ c = <<>> \/ (c \in Seq(Word) /\ Len(c) = 1)
                /\ Usable(r.stack) /\ ContentsOf(r.stack) = <<>>
                /\ PhaseOf(r.stack) = PhaseOf(s)
                /\ r.err = "STACK_POP_FROM_EMPTY"
<1>. DEFINE c  == ContentsOf(s)
            r1 == StackPop(s, ok1)
            c1 == ContentsOf(r1.stack)
            r2 == StackPop(r1.stack, ok2)
<1>1. \/ /\ Fit(Word, s) /\ c \in Seq(Word) /\ Len(c) > 0
         /\ \/ /\ Fit(Word, r1.stack) /\ r1.err = Ok
               /\ c1 = SubSeq(c, 1, Len(c) - 1)
            \/ ~ok1 /\ Lost(Word, r1.stack) /\ r1.err = "STACK_DATA_REALLOC_ERROR"
      \/ c = <<>> /\ r1.stack = s /\ r1.err = "STACK_POP_FROM_EMPTY"
  BY PopContents DEF Usable
<1>2. r = IF r1.err = Ok THEN r2 ELSE r1
  BY DEF PopTwo
<1>. HIDE DEF r1, c
<1>3. CASE c = <<>> /\ r1.stack = s /\ r1.err = "STACK_POP_FROM_EMPTY"
  BY <1>2, <1>3 DEF Ok, c
<1>4. CASE /\ Fit(Word, s) /\ ~ok1 /\ Lost(Word, r1.stack)
           /\ r1.err = "STACK_DATA_REALLOC_ERROR"
  BY <1>2, <1>4 DEF Ok
<1>5. CASE /\ Fit(Word, s) /\ c \in Seq(Word) /\ Len(c) > 0
           /\ Fit(Word, r1.stack) /\ r1.err = Ok
           /\ c1 = SubSeq(c, 1, Len(c) - 1)
  <2>1. r = r2 /\ PhaseOf(r1.stack) = PhaseOf(s)
    BY <1>2, <1>5, ContentsOfFit
  <2>2. \/ /\ c1 \in Seq(Word) /\ Len(c1) > 0
           /\ \/ /\ Fit(Word, r2.stack) /\ r2.err = Ok
                 /\ ContentsOf(r2.stack) = SubSeq(c1, 1, Len(c1) - 1)
              \/ ~ok2 /\ Lost(Word, r2.stack) /\ r2.err = "STACK_DATA_REALLOC_ERROR"
        \/ c1 = <<>> /\ r2.stack = r1.stack /\ r2.err = "STACK_POP_FROM_EMPTY"
    <3>1. Usable(r1.stack)
      BY <1>5 DEF Usable
    <3>. QED
      BY <3>1, PopContents DEF Usable
  <2>. HIDE DEF c1, r2
  <2>3. Len(c1) = Len(c) - 1 /\ Len(c) \in Nat
    <3>1. /\ c \in Seq(Word) /\ Len(c) \in Nat /\ Len(c) > 0
          /\ Len(c) - 1 \in 0 .. Len(c)
      BY <1>5
    <3>2. Len(SubSeq(c, 1, Len(c) - 1)) = Len(c) - 1
      BY <3>1, Front
    <3>. QED
      BY <1>5, <3>1, <3>2
  <2>4. CASE c1 = <<>> /\ r2.stack = r1.stack /\ r2.err = "STACK_POP_FROM_EMPTY"
    <3>1. Len(c) = 1
      <4>1. Len(c1) = 0
        BY <2>4
      <4>. QED
        BY <2>3, <4>1
    <3>. QED
      BY <1>5, <2>1, <2>4, <3>1 DEF Usable, c, c1
  <2>5. CASE ~ok2 /\ Lost(Word, r2.stack) /\ r2.err = "STACK_DATA_REALLOC_ERROR"
    BY <1>5, <2>1, <2>5
  <2>6. CASE /\ Len(c1) > 0 /\ Fit(Word, r2.stack) /\ r2.err = Ok
             /\ ContentsOf(r2.stack) = SubSeq(c1, 1, Len(c1) - 1)
    <3>1. Len(c) >= 2 /\ Len(c1) - 1 = Len(c) - 2
      BY <1>5, <2>3, <2>6
    <3>2. SubSeq(c1, 1, Len(c1) - 1) = SubSeq(c, 1, Len(c) - 2)
      BY <1>5, <3>1
    <3>. QED
      BY <1>5, <2>1, <2>6, <3>1, <3>2 DEF c
  <2>. QED
    BY <2>2, <2>4, <2>5, <2>6
<1>. QED
  BY <1>1, <1>3, <1>4, <1>5

(* The two topmost elements, as the machine looks at them.                 *)
LEMMA PeekContents ==
  ASSUME Fit(Word, stack), Len(ContentsOf(stack)) >= 2
  PROVE  LET c == ContentsOf(stack)
         IN  /\ Peek(0) = c[Len(c)] /\ Peek(1) = c[Len(c) - 1]
             /\ Peek(0) \in Word /\ Peek(1) \in Word
<1>. DEFINE c == ContentsOf(stack)
<1>1. /\ c \in Seq(Word) /\ Len(c) = stack.size /\ stack.size \in Nat
      /\ \A i \in 1 .. stack.size : c[i] = stack.block[i-1]
  BY ContentsOfFit
<1>. HIDE DEF c
<1>2. Len(c) \in 1 .. stack.size /\ Len(c) - 1 \in 1 .. stack.size
  BY <1>1 DEF c
<1>3. c[Len(c)] = stack.block[stack.size - 1 - 0] /\ c[Len(c) - 1] = stack.block[stack.size - 1 - 1]
  BY <1>1, <1>2
<1>4. c[Len(c)] \in Word /\ c[Len(c) - 1] \in Word
  BY <1>1, <1>2
<1>. QED
  BY <1>3, <1>4 DEF Peek, c

LEMMA PopTwoLeaves ==
  ASSUME NEW s, Usable(s), NEW ok1 \in BOOLEAN, NEW ok2 \in BOOLEAN
  PROVE  LET r == PopTwo(s, ok1, ok2)
         IN  Leaves(r) /\ (r.err = Ok => Fit(Word, s) /\ Len(ContentsOf(s)) >= 2)
<1>. DEFINE r == PopTwo(s, ok1, ok2)
            c == ContentsOf(s)
<1>1. \/ Fit(Word, s) /\ Len(c) >= 2 /\ Fit(Word, r.stack) /\ r.err = Ok
      \/ Lost(Word, r.stack) /\ r.err = "STACK_DATA_REALLOC_ERROR"
      \/ Usable(r.stack) /\ r.err = "STACK_POP_FROM_EMPTY"
  BY PopTwoContents
<1>. HIDE DEF r, c
<1>. QED
  BY <1>1 DEF Leaves, Ok, r, c

-----------------------------------------------------------------------------
(***************************************************************************)
(* The argument of PUSH, POP and SQRT.                                     *)
(***************************************************************************)
LEMMA ArgIsWord ==
  ASSUME IInv, NEW op \in ArgOps, Fetched(op), Readable
  PROVE  ArgValue \in Word
<1>1. /\ Instr.mode \in {"imm", "reg", "memimm", "memreg"}
      /\ Instr.mode = "imm" => Instr.arg \in Word
  BY FetchedInstr DEF IInv, CallsInv, CallsTyped, Ops, Decodes
<1>2. registers \in [Regs -> Word] /\ dynMem \in [MemCells -> Word]
  BY DEF IInv, MachineTyped
<1>3. Place.in = "program" => Instr.mode = "imm"
  BY <1>1 DEF Place
<1>4. Place.in \in {"program", "registers", "dynMem"}
  BY <1>1 DEF Place
<1>5. CASE Place.in = "program"
  BY <1>1, <1>3, <1>5 DEF ArgValue
<1>6. CASE Place.in = "registers"
  BY <1>2, <1>6 DEF ArgValue, Readable
<1>7. CASE Place.in = "dynMem"
  BY <1>2, <1>7 DEF ArgValue, Readable
<1>. QED
  BY <1>4, <1>5, <1>6, <1>7

LEMMA StoreTyped ==
  ASSUME IInv, NEW v \in Word, StoreArg(v)
  PROVE  registers' \in [Regs -> Word] /\ dynMem' \in [MemCells -> Word]
BY DEF IInv, MachineTyped, StoreArg

LEMMA ErrorTyped ==
  ASSUME IInv, GetArg
  PROVE  cpuError' \in {"CPU_NO_ERROR", "CPU_NO_NUMBER_REGISTER", "CPU_NO_NUMBER_DYN_MEM"}
BY DEF IInv, MachineTyped, GetArg, ArgError

LEMMA StoppedInv ==
  ASSUME IInv, result = "running", UNCHANGED stack, NEW r \in Results, Stop(r),
         UNCHANGED image
  PROVE  StackInv' /\ pc' \in Int /\ result' \in Results
BY DEF IInv, MachineTyped, StackInv, Stop

LEMMA JumpInv ==
  ASSUME IInv, NEW op \in Ops, Fetched(op), UNCHANGED stack, UNCHANGED result, pc' \in Int
  PROVE  StackInv' /\ pc' \in Int /\ result' \in Results
BY UsableStack DEF IInv, MachineTyped, StackInv, Usable

-----------------------------------------------------------------------------
(***************************************************************************)
(* Every command keeps the stack and what the machine holds in order.      *)
(***************************************************************************)
Fine == MachineTyped /\ StackInv

LEMMA CrtFine == IInv /\ Crt => Fine'
<1>. SUFFICES ASSUME IInv, Crt PROVE Fine'
  OBVIOUS
<1>1. result = "running" /\ NextPc \in Int /\ pc \in Int /\ Usable(stack)
  BY FetchedInstr, UsableStack, Commands DEF Crt, IInv, CallsInv, CallsTyped
<1>2. PICK ok \in BOOLEAN : Settle(StackCtor(stack, Capacity, ok), NextPc)
  BY AllocAssumption DEF Crt
<1>3. StackInv' /\ pc' \in Int /\ result' \in Results
  BY <1>1, <1>2, CtorLeaves, SettleInv
<1>. QED
  BY <1>3 DEF Crt, Fine, IInv, MachineTyped, machine, locals

LEMMA InFine == IInv /\ In => Fine'
<1>. SUFFICES ASSUME IInv, In PROVE Fine'
  OBVIOUS
<1>1. result = "running" /\ NextPc \in Int /\ pc \in Int /\ Usable(stack)
  BY FetchedInstr, UsableStack, Commands DEF In, IInv, CallsInv, CallsTyped
<1>2. elem1' \in Word
  BY InputsAssumption DEF In, IInv, MachineTyped
<1>3. PICK ok \in BOOLEAN : Settle(StackPush(stack, elem1', ok), NextPc)
  BY AllocAssumption DEF In
<1>4. StackInv' /\ pc' \in Int /\ result' \in Results
  BY <1>1, <1>2, <1>3, PushLeaves, SettleInv
<1>. QED
  BY <1>2, <1>4 DEF In, Fine, IInv, MachineTyped, machine

LEMMA PushFine == IInv /\ Push => Fine'
<1>. SUFFICES ASSUME IInv, Push PROVE Fine'
  OBVIOUS
<1>1. result = "running" /\ NextPc \in Int /\ pc \in Int /\ Usable(stack) /\ UNCHANGED image
  BY FetchedInstr, UsableStack, Commands DEF Push, IInv, CallsInv, CallsTyped
<1>2. StackInv' /\ pc' \in Int /\ result' \in Results
  <2>1. CASE Readable
    <3>1. ArgValue \in Word
      BY <2>1, ArgIsWord DEF Push, ArgOps
    <3>2. PICK ok \in BOOLEAN : Settle(StackPush(stack, ArgValue, ok), NextPc)
      BY <2>1, AllocAssumption DEF Push
    <3>. QED
      BY <1>1, <3>1, <3>2, PushLeaves, SettleInv
  <2>2. CASE ~Readable
    BY <1>1, <2>2, StoppedInv DEF Push, Results
  <2>. QED
    BY <2>1, <2>2
<1>. QED
  BY <1>2, ErrorTyped DEF Push, Fine, IInv, MachineTyped, machine

LEMMA PopFine == IInv /\ Pop => Fine'
<1>. SUFFICES ASSUME IInv, Pop PROVE Fine'
  OBVIOUS
<1>1. result = "running" /\ NextPc \in Int /\ pc \in Int /\ Usable(stack) /\ UNCHANGED image
  BY FetchedInstr, UsableStack, Commands DEF Pop, IInv, CallsInv, CallsTyped
<1>2. PICK ok \in BOOLEAN :
        LET r == StackPop(stack, ok)
        IN  CASE r.top = Garbage -> Settle(r, NextPc) /\ UNCHANGED <<registers, dynMem>>
              [] r.top # Garbage /\ Writable -> Settle(r, NextPc) /\ StoreArg(r.top)
              [] r.top # Garbage /\ ~Writable ->
                   Stop("undefined") /\ UNCHANGED <<stack, registers, dynMem>>
  BY AllocAssumption DEF Pop
<1>. DEFINE r == StackPop(stack, ok)
<1>3. Leaves(r) /\ (r.top # Garbage => r.top \in Word)
  BY <1>1, PopLeaves
<1>4. \/ Settle(r, NextPc) /\ UNCHANGED <<registers, dynMem>>
      \/ r.top # Garbage /\ Settle(r, NextPc) /\ StoreArg(r.top)
      \/ Stop("undefined") /\ UNCHANGED <<stack, registers, dynMem>>
  BY <1>2
<1>. HIDE DEF r
<1>5. StackInv' /\ pc' \in Int /\ result' \in Results
  BY <1>1, <1>3, <1>4, SettleInv, StoppedInv DEF Results
<1>6. registers' \in [Regs -> Word] /\ dynMem' \in [MemCells -> Word]
  BY <1>3, <1>4, StoreTyped DEF IInv, MachineTyped
<1>. QED
  BY <1>5, <1>6, ErrorTyped DEF Pop, Fine, IInv, MachineTyped

LEMMA OperateFine ==
  ASSUME IInv, NEW op \in Operators, Operate(op)
  PROVE  Fine'
<1>1. /\ result = "running" /\ NextPc \in Int /\ pc \in Int /\ Usable(stack)
      /\ op \in Ops /\ UNCHANGED image
  BY FetchedInstr, UsableStack, Commands DEF Operate, IInv, CallsInv, CallsTyped
<1>2. PICK ok1 \in BOOLEAN, ok2 \in BOOLEAN, ok3 \in BOOLEAN :
        LET popped == PopTwo(stack, ok1, ok2)
            x      == Peek(1)
            y      == Peek(0)
        IN  IF popped.err = Ok
            THEN /\ elem1' = y
                 /\ IF Traps(op, x, y)
                    THEN Stop("undefined") /\ stack' = popped.stack
                    ELSE Settle(ThenPush(popped, Compute(op, x, y), ok3), NextPc)
            ELSE Settle(popped, NextPc) /\ UNCHANGED elem1
  BY AllocAssumption DEF Operate
<1>. DEFINE r == PopTwo(stack, ok1, ok2)
            x == Peek(1)
            y == Peek(0)
            v == Compute(op, x, y)
            q == ThenPush(r, v, ok3)
<1>3. Leaves(r) /\ (r.err = Ok => Fit(Word, stack) /\ Len(ContentsOf(stack)) >= 2)
  BY <1>1, PopTwoLeaves
<1>4. \/ r.err # Ok /\ Settle(r, NextPc) /\ UNCHANGED elem1
      \/ r.err = Ok /\ elem1' = y /\ Traps(op, x, y) /\ Stop("undefined") /\ stack' = r.stack
      \/ r.err = Ok /\ elem1' = y /\ ~Traps(op, x, y) /\ Settle(q, NextPc)
  BY <1>2
<1>5. r.err = Ok => x \in Word /\ y \in Word /\ Fit(Word, r.stack)
  BY <1>3, PeekContents DEF Leaves, Ok
<1>6. r.err = Ok /\ ~Traps(op, x, y) => Leaves(q)
  <2>. SUFFICES ASSUME r.err = Ok, ~Traps(op, x, y) PROVE Leaves(q)
    OBVIOUS
  <2>1. v \in Word
    BY <1>5, ComputeWord
  <2>2. q = StackPush(r.stack, v, ok3)
    BY DEF ThenPush
  <2>. HIDE DEF v, r, q
  <2>. QED
    BY <1>5, <2>1, <2>2, PushLeaves DEF Usable
<1>. HIDE DEF r, q, x, y
<1>7. elem1' \in Word
  BY <1>4, <1>5 DEF IInv, MachineTyped
<1>8. StackInv' /\ pc' \in Int /\ result' \in Results
  <2>1. CASE r.err # Ok /\ Settle(r, NextPc)
    BY <1>1, <1>3, <2>1, SettleInv
  <2>2. CASE r.err = Ok /\ Stop("undefined") /\ stack' = r.stack
    BY <1>1, <1>5, <2>2 DEF Stop, StackInv, Results
  <2>3. CASE r.err = Ok /\ ~Traps(op, x, y) /\ Settle(q, NextPc)
    BY <1>1, <1>6, <2>3, SettleInv
  <2>. QED
    BY <1>4, <2>1, <2>2, <2>3
<1>. QED
  BY <1>7, <1>8 DEF Operate, Fine, IInv, MachineTyped, machine

LEMMA CondJmpFine ==
  ASSUME IInv, NEW op \in ConditionalJumps, CondJmp(op)
  PROVE  Fine'
<1>1. /\ result = "running" /\ NextPc \in Int /\ pc \in Int /\ Usable(stack)
      /\ op \in Ops /\ UNCHANGED image /\ Instr.arg \in Int
  BY FetchedInstr, UsableStack, Commands DEF CondJmp, IInv, CallsInv, CallsTyped, Decodes
<1>2. PICK ok1 \in BOOLEAN, ok2 \in BOOLEAN :
        LET popped == PopTwo(stack, ok1, ok2)
        IN  IF popped.err = Ok
            THEN /\ elem1' = Peek(0)
                 /\ Settle(popped, IF Holds(op, Peek(1), Peek(0)) THEN Instr.arg
                                                                  ELSE NextPc)
            ELSE Settle(popped, NextPc) /\ UNCHANGED elem1
  BY AllocAssumption DEF CondJmp
<1>. DEFINE r == PopTwo(stack, ok1, ok2)
<1>3. Leaves(r) /\ (r.err = Ok => Fit(Word, stack) /\ Len(ContentsOf(stack)) >= 2)
  BY <1>1, PopTwoLeaves
<1>4. PICK next \in Int :
        /\ Settle(r, next)
        /\ elem1' = elem1 \/ (r.err = Ok /\ elem1' = Peek(0))
  BY <1>1, <1>2
<1>. HIDE DEF r
<1>5. elem1' \in Word
  BY <1>3, <1>4, PeekContents DEF IInv, MachineTyped
<1>6. StackInv' /\ pc' \in Int /\ result' \in Results
  BY <1>1, <1>3, <1>4, SettleInv
<1>. QED
  BY <1>5, <1>6 DEF CondJmp, Fine, IInv, MachineTyped, machine

LEMMA OutFine == IInv /\ Out => Fine'
<1>. SUFFICES ASSUME IInv, Out PROVE Fine'
  OBVIOUS
<1>1. result = "running" /\ NextPc \in Int /\ pc \in Int /\ Usable(stack)
  BY FetchedInstr, UsableStack, Commands DEF Out, IInv, CallsInv, CallsTyped
<1>2. PICK ok \in BOOLEAN :
        LET r == StackPop(stack, ok)
        IN  /\ Settle(r, NextPc)
            /\ elem1'  = IF r.top = Garbage THEN elem1 ELSE r.top
            /\ output' = IF r.err = Ok THEN Append(output, r.top) ELSE output
  BY AllocAssumption DEF Out
<1>. DEFINE r == StackPop(stack, ok)
<1>3. Leaves(r) /\ (r.top # Garbage => r.top \in Word) /\ (r.err = Ok => r.top \in Word)
  BY <1>1, PopLeaves
<1>4. /\ Settle(r, NextPc)
      /\ elem1'  = IF r.top = Garbage THEN elem1 ELSE r.top
      /\ output' = IF r.err = Ok THEN Append(output, r.top) ELSE output
  BY <1>2
<1>. HIDE DEF r
<1>5. StackInv' /\ pc' \in Int /\ result' \in Results
  BY <1>1, <1>3, <1>4, SettleInv
<1>6. elem1' \in Word
  BY <1>3, <1>4 DEF IInv, MachineTyped
<1>7. output' \in Seq(Item)
  <2>1. output \in Seq(Item) /\ (r.err = Ok => r.top \in Item)
    BY <1>3, Commands DEF IInv, MachineTyped
  <2>. QED
    BY <1>4, <2>1
<1>. QED
  BY <1>5, <1>6, <1>7 DEF Out, Fine, IInv, MachineTyped, machine

LEMMA HltFine == IInv /\ Hlt => Fine'
<1>. SUFFICES ASSUME IInv, Hlt PROVE Fine'
  OBVIOUS
<1>1. result = "running" /\ image.size \in Nat /\ image' = image
  BY FetchedInstr, Commands DEF Hlt, IInv, CallsInv, CallsTyped
<1>2. StackDtor(stack) = Outcome(DestroyedStack, Ok, Garbage)
  BY DtorDestroys
<1>3. stack' = DestroyedStack /\ pc' = image.size /\ result' = result
  BY <1>2 DEF Hlt, Settle, Outcome
<1>. QED
  BY <1>1, <1>3 DEF Hlt, Fine, StackInv, IInv, MachineTyped, machine, locals

LEMMA SqrtFine == IInv /\ Sqrt => Fine'
<1>. SUFFICES ASSUME IInv, Sqrt PROVE Fine'
  OBVIOUS
<1>1. result = "running" /\ NextPc \in Int /\ UNCHANGED <<image, stack>> /\ Fetched("SQRT")
  BY FetchedInstr, Commands DEF Sqrt, IInv, CallsInv, CallsTyped
<1>2. CASE Writable
  <2>1. ArgValue \in Word
    BY <1>1, <1>2, ArgIsWord DEF Writable, ArgOps
  <2>2. SquareRoot(ArgValue) \in Word
    BY <2>1, RootWord
  <2>3. registers' \in [Regs -> Word] /\ dynMem' \in [MemCells -> Word]
    BY <1>2, <2>2, StoreTyped DEF Sqrt
  <2>4. StackInv' /\ pc' \in Int /\ result' \in Results
    BY <1>1, <1>2, JumpInv, Commands DEF Sqrt
  <2>. QED
    BY <2>3, <2>4, ErrorTyped DEF Sqrt, Fine, IInv, MachineTyped
<1>3. CASE ~Writable
  <2>1. StackInv' /\ pc' \in Int /\ result' \in Results
    BY <1>1, <1>3, StoppedInv DEF Sqrt, Results
  <2>. QED
    BY <1>3, <2>1, ErrorTyped DEF Sqrt, Fine, IInv, MachineTyped
<1>. QED
  BY <1>2, <1>3

(* A picture has one character for every cell before the first -1.         *)
LEMMA PictureIsItem == Picture \in Seq({"*", " "})
<1>. DEFINE ends == {a \in 0 .. SizeMem-1 : dynMem[a] = -1}
            last == IF ends = {} THEN SizeMem
                    ELSE CHOOSE a \in ends : \A b \in ends : a <= b
<1>1. last \in Nat
  <2>1. CASE ends = {}
    BY <2>1, SizesAssumption
  <2>2. CASE ends # {}
    <3>1. ends \in SUBSET Nat
      BY SizesAssumption
    <3>. HIDE DEF ends
    <3>2. \E a \in ends : \A b \in ends : a <= b
      BY <2>2, <3>1, First
    <3>. QED
      BY <2>2, <3>1, <3>2
  <2>. QED
    BY <2>1, <2>2
<1>2. Picture = [i \in 1 .. last |-> IF dynMem[i-1] = 1 THEN "*" ELSE " "]
  BY DEF Picture
<1>. HIDE DEF last
<1>3. Picture \in [1 .. last -> {"*", " "}]
  BY <1>2
<1>. QED
  BY <1>1, <1>3, SeqDef

LEMMA DrawFine == IInv /\ Draw => Fine'
<1>. SUFFICES ASSUME IInv, Draw PROVE Fine'
  OBVIOUS
<1>1. NextPc \in Int
  BY FetchedInstr, Commands DEF Draw, IInv, CallsInv, CallsTyped
<1>2. StackInv' /\ pc' \in Int /\ result' \in Results
  BY <1>1, JumpInv, Commands DEF Draw
<1>3. output' \in Seq(Item)
  <2>1. Picture \in Item
    BY PictureIsItem DEF Item
  <2>2. output \in Seq(Item)
    BY DEF IInv, MachineTyped
  <2>. QED
    BY <2>1, <2>2 DEF Draw
<1>. QED
  BY <1>2, <1>3 DEF Draw, Fine, IInv, MachineTyped, machine, locals

LEMMA MoveFine == IInv /\ Move => Fine'
<1>. SUFFICES ASSUME IInv, Move PROVE Fine'
  OBVIOUS
<1>1. result = "running" /\ NextPc \in Int /\ pc \in Int /\ Usable(stack)
  BY FetchedInstr, UsableStack, Commands DEF Move, IInv, CallsInv, CallsTyped
<1>2. PICK step \in Moves, ok \in BOOLEAN : Settle(StackPush(stack, step, ok), NextPc)
  BY AllocAssumption DEF Move
<1>3. step \in Word
  BY FieldAssumption, WordAssumption, WordIsInt DEF Moves, Word, MinInt
<1>4. StackInv' /\ pc' \in Int /\ result' \in Results
  BY <1>1, <1>2, <1>3, PushLeaves, SettleInv
<1>. QED
  BY <1>4 DEF Move, Fine, IInv, MachineTyped, machine, locals

LEMMA PrintCharFine ==
  ASSUME IInv, NEW op \in Printers, PrintChar(op)
  PROVE  Fine'
<1>1. NextPc \in Int /\ op \in Ops
  BY FetchedInstr, Commands DEF PrintChar, IInv, CallsInv, CallsTyped
<1>2. StackInv' /\ pc' \in Int /\ result' \in Results
  BY <1>1, JumpInv DEF PrintChar
<1>3. output' \in Seq(Item)
  <2>1. op \in Item /\ output \in Seq(Item)
    BY Commands DEF IInv, MachineTyped
  <2>. QED
    BY <2>1 DEF PrintChar
<1>. QED
  BY <1>2, <1>3 DEF PrintChar, Fine, IInv, MachineTyped, machine, locals

(* JMP, CALL and RET go where they are told, which is a number.            *)
LEMMA GotoFine == IInv /\ (Jmp \/ Call \/ Ret) => Fine'
<1>. SUFFICES ASSUME IInv, Jmp \/ Call \/ Ret PROVE Fine'
  OBVIOUS
<1>1. CASE Jmp
  <2>1. Instr.arg \in Int
    BY <1>1, FetchedInstr, Commands DEF Jmp, IInv, CallsInv, CallsTyped, Decodes
  <2>2. StackInv' /\ pc' \in Int /\ result' \in Results
    BY <1>1, <2>1, JumpInv, Commands DEF Jmp
  <2>. QED
    BY <1>1, <2>2 DEF Jmp, Fine, IInv, MachineTyped, machine, locals
<1>2. CASE Call
  <2>1. Instr.arg \in Int /\ result = "running"
    BY <1>2, FetchedInstr, Commands DEF Call, IInv, CallsInv, CallsTyped, Decodes
  <2>2. StackInv' /\ pc' \in Int /\ result' \in Results
    BY <1>2, <2>1, JumpInv, StoppedInv, Commands DEF Call, Results
  <2>. QED
    BY <1>2, <2>2 DEF Call, Fine, IInv, MachineTyped, locals
<1>3. CASE Ret
  <2>1. result = "running"
    BY <1>3 DEF Ret, Fetched
  <2>2. cntNumAddress > 0 => callArray[cntNumAddress - 1] \in Int
    BY DepthAssumption DEF IInv, CallsInv, CallsTyped, Entries
  <2>3. StackInv' /\ pc' \in Int /\ result' \in Results
    BY <1>3, <2>1, <2>2, JumpInv, StoppedInv, Commands DEF Ret, Results
  <2>. QED
    BY <1>3, <2>3 DEF Ret, Fine, IInv, MachineTyped, locals
<1>. QED
  BY <1>1, <1>2, <1>3

LEMMA EndFine == IInv /\ (BadFetch \/ Finish) => Fine'
<1>. SUFFICES ASSUME IInv, BadFetch \/ Finish PROVE Fine'
  OBVIOUS
<1>1. StackInv' /\ pc' \in Int /\ result' \in Results
  BY StoppedInv DEF BadFetch, Finish, Results
<1>. QED
  BY <1>1 DEF BadFetch, Finish, Fine, IInv, MachineTyped, machine, locals

-----------------------------------------------------------------------------
LEMMA InitFine == Init => Fine
<1>. SUFFICES ASSUME Init PROVE Fine
  OBVIOUS
<1>1. 0 \in Word
  BY WordIsInt
<1>2. MachineTyped
  BY <1>1 DEF Init, Idle, MachineTyped, Results
<1>3. StackInv
  BY DEF Init, Idle, StackInv
<1>. QED
  BY <1>2, <1>3 DEF Fine

LEMMA NextFine == IInv /\ [Next]_vars => Fine'
<1>. SUFFICES ASSUME IInv, [Next]_vars PROVE Fine'
  OBVIOUS
<1>1. CASE UNCHANGED vars
  BY <1>1 DEF vars, machine, locals, Fine, IInv, MachineTyped, StackInv
<1>2. CASE Crt \/ In \/ Push \/ Pop \/ Out \/ Hlt
  BY <1>2, CrtFine, InFine, PushFine, PopFine, OutFine, HltFine
<1>3. CASE Jmp \/ Call \/ Ret \/ Sqrt \/ Draw \/ Move \/ BadFetch \/ Finish
  BY <1>3, GotoFine, SqrtFine, DrawFine, MoveFine, EndFine
<1>4. CASE \E op \in Operators : Operate(op)
  BY <1>4, OperateFine
<1>5. CASE \E op \in ConditionalJumps : CondJmp(op)
  BY <1>5, CondJmpFine
<1>6. CASE \E op \in Printers : PrintChar(op)
  BY <1>6, PrintCharFine
<1>. QED
  BY <1>1, <1>2, <1>3, <1>4, <1>5, <1>6 DEF Next

(***************************************************************************)
(* For every program, whatever it jumps to, however deep it calls and      *)
(* whenever the allocator fails: the registers, the memory and the live    *)
(* elements of the stack are ints, the stack is untouched, fit for use,    *)
(* lost and the machine stopped, or destroyed and the program at its end,  *)
(* and the entries of callArray in use are addresses behind CALLs.         *)
(***************************************************************************)
THEOREM MachineInvariant == Spec => []IInv
<1>1. Init => IInv
  BY InitCalls, InitFine DEF IInv, Fine
<1>2. IInv /\ [Next]_vars => IInv'
  BY CallsNext, NextFine DEF IInv, Fine
<1>. QED
  BY <1>1, <1>2, PTL DEF Spec

(***************************************************************************)
(* Type correctness of the machine.                                        *)
(***************************************************************************)
THEOREM MachineTypeCorrect == Spec => []TypeOK
<1>1. IInv => TypeOK
  <2>. SUFFICES ASSUME IInv PROVE TypeOK
    OBVIOUS
  <2>1. stack.status \in Status /\ stack.data \in Data
    BY DEF IInv, StackInv, UnconstructedStack, Fit, Lost, StackT, Status, Data,
           DestroyedStack, StackDtor, Outcome
  <2>. QED
    BY <2>1 DEF IInv, CallsInv, CallsTyped, MachineTyped, TypeOK, Entries
<1>. QED
  BY <1>1, MachineInvariant, PTL

(***************************************************************************)
(* callArray holds no address but those of instructions behind CALLs, for  *)
(* every size of it: the conjunct of the invariant that the runs check.    *)
(***************************************************************************)
THEOREM ReturnsAreFromCalls == Spec => []ReturnsFollowCalls
<1>1. IInv => ReturnsFollowCalls
  BY DEF IInv, CallsInv
<1>. QED
  BY <1>1, MachineInvariant, PTL

(***************************************************************************)
(* Between two instructions the block of the operand stack is sound, and   *)
(* once a realloc has taken it away the machine has stopped: no command    *)
(* of Commands.h runs on a freed block, whatever program it belongs to.    *)
(***************************************************************************)
THEOREM NothingRunsOnALostBlock == Spec => []SoundOrStopped
<1>1. IInv => SoundOrStopped
  <2>. SUFFICES ASSUME IInv PROVE SoundOrStopped
    OBVIOUS
  <2>1. CASE stack = UnconstructedStack \/ stack = DestroyedStack
    BY <2>1 DEF SoundOrStopped, UnconstructedStack, DestroyedStack, StackDtor, Outcome
  <2>2. CASE Fit(Word, stack)
    BY <2>2 DEF SoundOrStopped, Fit, SoundBlock, StackT, GetStackError
  <2>3. CASE Lost(Word, stack) /\ result = "CPU_STACK_ERROR"
    BY <2>3 DEF SoundOrStopped, Lost
  <2>. QED
    BY <2>1, <2>2, <2>3 DEF IInv, StackInv
<1>. QED
  BY <1>1, MachineInvariant, PTL


-----------------------------------------------------------------------------
(***************************************************************************)
(* The machine implements AbstractMachine: every command is one of the     *)
(* machine with a sequence of operands and a sequence of calls.            *)
(*                                                                         *)
(* The abstract machine has the same commands.                             *)
(***************************************************************************)
LEMMA SameSets ==
  /\ Abstract!Word = Word
  /\ Abstract!Operators = Operators /\ Abstract!ConditionalJumps = ConditionalJumps
  /\ Abstract!Printers = Printers /\ Abstract!ArgOps = ArgOps
BY DEF Abstract!Word, Abstract!MinInt, Word, MinInt, Abstract!Operators, Operators,
       Abstract!ConditionalJumps, ConditionalJumps, Abstract!Printers, Printers,
       Abstract!ArgOps, ArgOps

LEMMA SameSize ==
  ASSUME NEW i
  PROVE  Abstract!InstrSize(i) = InstrSize(i)
BY DEF Abstract!InstrSize, InstrSize, Abstract!NoArgOps, NoArgOps, Abstract!Operators,
       Operators, Abstract!Printers, Printers, Abstract!Jumps, Jumps,
       Abstract!ConditionalJumps, ConditionalJumps, Abstract!ArgOps, ArgOps,
       Abstract!CodeBytes, CodeBytes, Abstract!IntBytes, IntBytes,
       Abstract!RegBytes, RegBytes

LEMMA SameArithmetic ==
  ASSUME NEW op, NEW x, NEW y
  PROVE  /\ Abstract!Compute(op, x, y) = Compute(op, x, y)
         /\ Abstract!Traps(op, x, y) <=> Traps(op, x, y)
         /\ Abstract!Holds(op, x, y) <=> Holds(op, x, y)
         /\ Abstract!SquareRoot(x) = SquareRoot(x)
<1>1. Abstract!MinInt = MinInt
  BY DEF Abstract!MinInt, MinInt
<1>2. \A z : Abstract!Wrap(z) = Wrap(z)
  BY <1>1 DEF Abstract!Wrap, Wrap
<1>3. Abstract!Quotient(x, y) = Quotient(x, y)
  BY DEF Abstract!Quotient, Quotient, Abstract!Magnitude, Magnitude
<1>4. Abstract!Compute(op, x, y) = Compute(op, x, y)
  BY <1>2, <1>3 DEF Abstract!Compute, Compute
<1>5. Abstract!Traps(op, x, y) <=> Traps(op, x, y)
  BY <1>1 DEF Abstract!Traps, Traps
<1>6. Abstract!Holds(op, x, y) <=> Holds(op, x, y)
  BY DEF Abstract!Holds, Holds
<1>7. Abstract!SquareRoot(x) = SquareRoot(x)
  BY <1>1 DEF Abstract!SquareRoot, SquareRoot
<1>. QED
  BY <1>4, <1>5, <1>6, <1>7

LEMMA SameFetch ==
  ASSUME NEW op
  PROVE  /\ Abstract!Fetched(op) <=> Fetched(op)
         /\ Abstract!NextPc = NextPc
         /\ Abstract!Instr = Instr
BY SameSize DEF Abstract!Fetched, Abstract!Running, Fetched, Abstract!NextPc, NextPc,
                Abstract!Instr, Instr


(***************************************************************************)
(* What a step of the machine does to the operands is an abstract success  *)
(* or failure.                                                             *)
(***************************************************************************)
LEMMA SuccessRefines ==
  ASSUME NEW r, NEW next, Settle(r, next), r.err = Ok,
         Fit(Word, stack), Fit(Word, r.stack), NEW n, NEW pushed,
         Len(ContentsOf(stack)) >= n,
         ContentsOf(r.stack) = SubSeq(ContentsOf(stack), 1, Len(ContentsOf(stack)) - n) \o pushed
  PROVE  Abstract!Succeeds(n, pushed) /\ pc' = next /\ PhaseOf(stack') = PhaseOf(stack)
<1>1. stack' = r.stack /\ pc' = next /\ result' = result
  BY DEF Settle
<1>2. PhaseOf(stack) = "open" /\ PhaseOf(stack') = "open"
  BY <1>1, ContentsOfFit
<1>. QED
  BY <1>1, <1>2 DEF Abstract!Succeeds

(* The block is lost, operands are missing, or there is no stack.          *)
Fault(r, n, pushed) ==
  \/ /\ Fit(Word, stack) /\ Lost(Word, r.stack) /\ FALSE \in AllocOutcomes
     /\ r.err = "STACK_DATA_REALLOC_ERROR"
  \/ /\ Len(ContentsOf(stack)) < n /\ ContentsOf(r.stack) = <<>>
     /\ PhaseOf(r.stack) = PhaseOf(stack)
     /\ r.err = "STACK_POP_FROM_EMPTY"
  \/ /\ stack = UnconstructedStack /\ r.stack = stack /\ pushed # <<>>
     /\ r.err = "abort"

LEMMA FailureRefines ==
  ASSUME NEW r, NEW next, Settle(r, next), NEW n, NEW pushed, Fault(r, n, pushed)
  PROVE  Abstract!Fails(n, pushed)
<1>1. stack' = r.stack /\ pc' = pc /\ result' = Failure(r.err)
  BY DEF Settle, Stop, Ok, Fault
<1>2. CASE /\ Fit(Word, stack) /\ Lost(Word, r.stack) /\ FALSE \in AllocOutcomes
           /\ r.err = "STACK_DATA_REALLOC_ERROR"
  <2>1. PhaseOf(stack') = PhaseOf(stack) /\ ContentsOf(stack') = <<>>
    BY <1>1, <1>2, ContentsOfFit, ContentsOfOthers
  <2>. QED
    BY <1>1, <1>2, <2>1 DEF Abstract!Fails, Failure
<1>3. CASE /\ Len(ContentsOf(stack)) < n /\ ContentsOf(r.stack) = <<>>
           /\ PhaseOf(r.stack) = PhaseOf(stack) /\ r.err = "STACK_POP_FROM_EMPTY"
  BY <1>1, <1>3 DEF Abstract!Fails, Failure
<1>4. CASE stack = UnconstructedStack /\ r.stack = stack /\ pushed # <<>> /\ r.err = "abort"
  <2>1. PhaseOf(stack) = "new"
    BY <1>4, ContentsOfOthers
  <2>. QED
    BY <1>1, <1>4, <2>1 DEF Abstract!Fails, Failure
<1>. QED
  BY <1>2, <1>3, <1>4 DEF Fault

LEMMA OneMore ==
  ASSUME NEW c \in Seq(Word), NEW v \in Word
  PROVE  SubSeq(c, 1, Len(c) - 0) \o <<v>> = Append(c, v)
<1>1. SubSeq(c, 1, Len(c) - 0) = c
  BY SubSeqFull
<1>. QED
  BY <1>1, AppendIsConcat

LEMMA NoneMore ==
  ASSUME NEW c \in Seq(Word), NEW n \in 0 .. Len(c)
  PROVE  SubSeq(c, 1, Len(c) - n) \o <<>> = SubSeq(c, 1, Len(c) - n)
<1>1. Len(c) - n \in 0 .. Len(c)
  OBVIOUS
<1>2. SubSeq(c, 1, Len(c) - n) \in Seq(Word)
  BY <1>1, Front
<1>. QED
  BY <1>2

LEMMA PushRefines ==
  ASSUME Usable(stack), NEW v \in Word, NEW ok \in AllocOutcomes,
         Settle(StackPush(stack, v, ok), NextPc)
  PROVE  \/ Abstract!Succeeds(0, <<v>>) /\ pc' = NextPc /\ PhaseOf(stack') = PhaseOf(stack)
         \/ Abstract!Fails(0, <<v>>)
<1>. DEFINE r == StackPush(stack, v, ok)
            c == ContentsOf(stack)
<1>1. ok \in BOOLEAN /\ (~ok => FALSE \in AllocOutcomes)
  BY AllocAssumption
<1>2. \/ /\ Fit(Word, stack) /\ Fit(Word, r.stack) /\ r.err = Ok
         /\ ContentsOf(r.stack) = Append(c, v)
      \/ /\ Fit(Word, stack) /\ ~ok /\ Lost(Word, r.stack)
         /\ r.err = "STACK_DATA_REALLOC_ERROR"
      \/ stack = UnconstructedStack /\ r.stack = stack /\ r.err = "abort"
  BY <1>1, PushContents DEF Usable
<1>3. Settle(r, NextPc)
  OBVIOUS
<1>. HIDE DEF r
<1>4. CASE /\ Fit(Word, stack) /\ Fit(Word, r.stack) /\ r.err = Ok
           /\ ContentsOf(r.stack) = Append(c, v)
  <2>1. c \in Seq(Word)
    BY <1>4, ContentsOfFit
  <2>2. ContentsOf(r.stack) = SubSeq(c, 1, Len(c) - 0) \o <<v>> /\ Len(c) >= 0
    BY <1>4, <2>1, OneMore
  <2>. QED
    BY <1>3, <1>4, <2>2, SuccessRefines
<1>5. CASE /\ Fit(Word, stack) /\ ~ok /\ Lost(Word, r.stack)
           /\ r.err = "STACK_DATA_REALLOC_ERROR"
  <2>1. Fault(r, 0, <<v>>)
    BY <1>1, <1>5 DEF Fault
  <2>. QED
    BY <1>3, <2>1, FailureRefines
<1>6. CASE stack = UnconstructedStack /\ r.stack = stack /\ r.err = "abort"
  <2>1. Fault(r, 0, <<v>>)
    BY <1>6 DEF Fault
  <2>. QED
    BY <1>3, <2>1, FailureRefines
<1>. QED
  BY <1>2, <1>4, <1>5, <1>6

(* One operand, for OUT and POP.                                           *)
LEMMA PopRefines ==
  ASSUME Usable(stack), NEW ok \in AllocOutcomes, NEW r, r = StackPop(stack, ok),
         Settle(r, NextPc)
  PROVE  LET c == ContentsOf(stack)
         IN  \/ /\ Abstract!Succeeds(1, <<>>) /\ pc' = NextPc
                /\ PhaseOf(stack') = PhaseOf(stack)
                /\ r.err = Ok /\ r.top # Garbage /\ r.top = Abstract!Operand(0)
             \/ /\ Abstract!Fails(1, <<>>) /\ r.err # Ok
                /\ r.top # Garbage => c # <<>> /\ r.top = Abstract!Operand(0)
<1>. DEFINE c == ContentsOf(stack)
<1>1. ok \in BOOLEAN /\ (~ok => FALSE \in AllocOutcomes)
  BY AllocAssumption
<1>2. \/ /\ Fit(Word, stack) /\ c \in Seq(Word) /\ Len(c) > 0
         /\ r.top = c[Len(c)] /\ r.top \in Word
         /\ \/ /\ Fit(Word, r.stack) /\ r.err = Ok
               /\ ContentsOf(r.stack) = SubSeq(c, 1, Len(c) - 1)
            \/ ~ok /\ Lost(Word, r.stack) /\ r.err = "STACK_DATA_REALLOC_ERROR"
      \/ /\ c = <<>> /\ r.stack = stack
         /\ r.err = "STACK_POP_FROM_EMPTY" /\ r.top = Garbage
  BY <1>1, PopWord
<1>3. CASE /\ Fit(Word, stack) /\ c \in Seq(Word) /\ Len(c) > 0
           /\ r.top = c[Len(c)] /\ r.top \in Word
  <2>1. c # <<>> /\ r.top # Garbage /\ r.top = Abstract!Operand(0)
    <3>1. c # <<>> /\ Len(c) - 0 = Len(c)
      BY <1>3
    <3>. QED
      BY <1>3, <3>1, GarbageAssumption DEF Abstract!Operand
  <2>2. CASE /\ Fit(Word, r.stack) /\ r.err = Ok
             /\ ContentsOf(r.stack) = SubSeq(c, 1, Len(c) - 1)
    <3>. HIDE DEF c
    <3>1. Len(c) >= 1 /\ 1 \in 0 .. Len(c)
      BY <1>3
    <3>2. SubSeq(c, 1, Len(c) - 1) = SubSeq(c, 1, Len(c) - 1) \o <<>>
      BY <1>3, <3>1, NoneMore
    <3>3. ContentsOf(r.stack) = SubSeq(c, 1, Len(c) - 1) \o <<>>
      BY <2>2, <3>2
    <3>. QED
      BY <1>3, <2>1, <2>2, <3>1, <3>3, SuccessRefines DEF c
  <2>3. CASE ~ok /\ Lost(Word, r.stack) /\ r.err = "STACK_DATA_REALLOC_ERROR"
    <3>1. Fault(r, 1, <<>>)
      BY <1>1, <1>3, <2>3 DEF Fault
    <3>2. Abstract!Fails(1, <<>>)
      BY <3>1, FailureRefines
    <3>. QED
      BY <2>1, <2>3, <3>2 DEF Ok
  <2>. QED
    BY <1>2, <1>3, <2>1, <2>2, <2>3, GarbageAssumption
<1>4. CASE /\ c = <<>> /\ r.stack = stack
           /\ r.err = "STACK_POP_FROM_EMPTY" /\ r.top = Garbage
  <2>1. Len(c) < 1
    BY <1>4
  <2>2. Fault(r, 1, <<>>)
    BY <1>4, <2>1 DEF Fault
  <2>3. Abstract!Fails(1, <<>>)
    BY <2>2, FailureRefines
  <2>. QED
    BY <1>4, <2>3 DEF Ok
<1>. QED
  BY <1>2, <1>3, <1>4


(* Two operands, for the arithmetic commands and the conditional jumps.    *)
LEMMA PopTwoRefines ==
  ASSUME Usable(stack), NEW ok1 \in AllocOutcomes, NEW ok2 \in AllocOutcomes
  PROVE  LET r == PopTwo(stack, ok1, ok2)
             c == ContentsOf(stack)
         IN  \/ /\ r.err = Ok /\ Fit(Word, stack) /\ Fit(Word, r.stack)
                /\ c \in Seq(Word) /\ Len(c) >= 2
                /\ ContentsOf(r.stack) = SubSeq(c, 1, Len(c) - 2)
                /\ Peek(0) = Abstract!Operand(0) /\ Peek(1) = Abstract!Operand(1)
                /\ Peek(0) \in Word /\ Peek(1) \in Word
             \/ r.err # Ok /\ Fault(r, 2, <<>>)
<1>. DEFINE r == PopTwo(stack, ok1, ok2)
            c == ContentsOf(stack)
<1>1. /\ ok1 \in BOOLEAN /\ ok2 \in BOOLEAN
      /\ ~ok1 \/ ~ok2 => FALSE \in AllocOutcomes
  BY AllocAssumption
<1>2. \/ /\ Fit(Word, stack) /\ c \in Seq(Word) /\ Len(c) >= 2
         /\ Fit(Word, r.stack) /\ r.err = Ok
         /\ ContentsOf(r.stack) = SubSeq(c, 1, Len(c) - 2)
      \/ /\ Fit(Word, stack) /\ Lost(Word, r.stack)
         /\ ~ok1 \/ ~ok2
         /\ r.err = "STACK_DATA_REALLOC_ERROR"
      \/ /\ c = <<>> \/ (c \in Seq(Word) /\ Len(c) = 1)
         /\ ContentsOf(r.stack) = <<>> /\ PhaseOf(r.stack) = PhaseOf(stack)
         /\ r.err = "STACK_POP_FROM_EMPTY"
  BY <1>1, PopTwoContents
<1>. HIDE DEF r
<1>3. CASE /\ Fit(Word, stack) /\ c \in Seq(Word) /\ Len(c) >= 2
           /\ Fit(Word, r.stack) /\ r.err = Ok
           /\ ContentsOf(r.stack) = SubSeq(c, 1, Len(c) - 2)
  <2>1. /\ Peek(0) = c[Len(c)] /\ Peek(1) = c[Len(c) - 1]
        /\ Peek(0) \in Word /\ Peek(1) \in Word
    BY <1>3, PeekContents
  <2>2. Len(c) - 0 = Len(c)
    BY <1>3
  <2>. QED
    BY <1>3, <2>1, <2>2 DEF Abstract!Operand, r
<1>4. CASE /\ Fit(Word, stack) /\ Lost(Word, r.stack) /\ (~ok1 \/ ~ok2)
           /\ r.err = "STACK_DATA_REALLOC_ERROR"
  BY <1>1, <1>4 DEF Fault, Ok, r
<1>5. CASE /\ c = <<>> \/ (c \in Seq(Word) /\ Len(c) = 1)
           /\ ContentsOf(r.stack) = <<>> /\ PhaseOf(r.stack) = PhaseOf(stack)
           /\ r.err = "STACK_POP_FROM_EMPTY"
  <2>1. Len(c) < 2
    BY <1>5
  <2>. QED
    BY <1>5, <2>1 DEF Fault, Ok, r
<1>. QED
  BY <1>2, <1>3, <1>4, <1>5

-----------------------------------------------------------------------------
(***************************************************************************)
(* Every command is a step of the abstract machine.                        *)
(***************************************************************************)
CallSeq == [i \in 1 .. cntNumAddress |-> callArray[i-1]]

LEMMA CrtRefines == IInv /\ Crt => Abstract!Create
<1>. SUFFICES ASSUME IInv, Crt PROVE Abstract!Create
  OBVIOUS
<1>1. Usable(stack) /\ Abstract!Fetched("CRT") /\ Abstract!NextPc = NextPc
  BY UsableStack, Commands, SameFetch DEF Crt
<1>2. UNCHANGED <<image, registers, dynMem, callArray, cntNumAddress, output>>
  BY DEF Crt, machine
<1>3. PICK ok \in AllocOutcomes : Settle(StackCtor(stack, Capacity, ok), NextPc)
  BY DEF Crt
<1>4. ok \in BOOLEAN /\ (~ok => FALSE \in AllocOutcomes)
  BY AllocAssumption
<1>. DEFINE r == StackCtor(stack, Capacity, ok)
<1>5. \/ /\ PhaseOf(stack) = "new" /\ PhaseOf(stack') = "open" /\ pc' = NextPc
         /\ ContentsOf(stack') = ContentsOf(stack) /\ result' = result
      \/ PhaseOf(stack) = "new" /\ Abstract!Fails(0, <<>>)
      \/ /\ PhaseOf(stack) = "open" /\ result' = "CPU_STACK_ERROR"
         /\ pc' = pc /\ stack' = stack
  <2>1. CASE stack = UnconstructedStack
    <3>1. \/ ok /\ Fit(Word, r.stack) /\ r.stack.size = 0 /\ r.err = Ok
          \/ ~ok /\ r.stack = stack /\ r.err = "STACK_DATA_CALLOC_ERROR"
      BY <1>4, <2>1, CtorWord
    <3>. HIDE DEF r
    <3>2. PhaseOf(stack) = "new" /\ ContentsOf(stack) = <<>>
      BY <2>1, ContentsOfOthers
    <3>3. CASE Fit(Word, r.stack) /\ r.stack.size = 0 /\ r.err = Ok
      <4>1. stack' = r.stack /\ pc' = NextPc /\ result' = result
        BY <1>3, <3>3 DEF Settle, r
      <4>2. PhaseOf(stack') = "open" /\ ContentsOf(stack') = <<>>
        BY <3>3, <4>1, ContentsOfFit
      <4>. QED
        BY <3>2, <4>1, <4>2
    <3>4. CASE ~ok /\ r.stack = stack /\ r.err = "STACK_DATA_CALLOC_ERROR"
      <4>1. stack' = stack /\ pc' = pc /\ result' = "CPU_STACK_ERROR"
        BY <1>3, <3>4 DEF Settle, Stop, Failure, Ok, r
      <4>2. Abstract!Fails(0, <<>>)
        BY <1>4, <3>2, <3>4, <4>1 DEF Abstract!Fails
      <4>. QED
        BY <3>2, <4>2
    <3>. QED
      BY <3>1, <3>3, <3>4
  <2>2. CASE Fit(Word, stack)
    <3>1. r = Outcome(stack, "STACK_ALREADY_CONSTRUCTED", Garbage)
      BY <2>2 DEF Fit, StackCtor
    <3>. HIDE DEF r
    <3>2. r.stack = stack /\ r.err = "STACK_ALREADY_CONSTRUCTED"
      BY <3>1 DEF Outcome
    <3>3. stack' = stack /\ pc' = pc /\ result' = "CPU_STACK_ERROR"
      BY <1>3, <3>2 DEF Settle, Stop, Failure, Ok, r
    <3>. QED
      BY <2>2, <3>3, ContentsOfFit
  <2>. QED
    BY <1>1, <2>1, <2>2 DEF Usable
<1>. QED
  BY <1>1, <1>2, <1>5 DEF Abstract!Create, Abstract!memory

(* IN, PUSH and MOVE.                                                      *)
LEMMA SupplyRefines ==
  ASSUME NEW op, Abstract!Fetched(op), NEW v \in Abstract!Values(op),
         UNCHANGED <<image, registers, dynMem, callArray, cntNumAddress, output>>,
         \/ Abstract!Succeeds(0, <<v>>) /\ pc' = NextPc /\ PhaseOf(stack') = PhaseOf(stack)
         \/ Abstract!Fails(0, <<v>>)
  PROVE  Abstract!Supply(op)
BY SameFetch DEF Abstract!Supply, Abstract!memory

LEMMA InRefines == IInv /\ In => Abstract!Supply("IN")
<1>. SUFFICES ASSUME IInv, In PROVE Abstract!Supply("IN")
  OBVIOUS
<1>1. Usable(stack) /\ Abstract!Fetched("IN")
  BY UsableStack, Commands, SameFetch DEF In
<1>2. elem1' \in Word
  BY InputsAssumption DEF In, IInv, MachineTyped
<1>3. PICK ok \in AllocOutcomes : Settle(StackPush(stack, elem1', ok), NextPc)
  BY DEF In
<1>4. elem1' \in Abstract!Values("IN")
  BY <1>2, SameSets DEF Abstract!Values
<1>5. \/ Abstract!Succeeds(0, <<elem1'>>) /\ pc' = NextPc /\ PhaseOf(stack') = PhaseOf(stack)
      \/ Abstract!Fails(0, <<elem1'>>)
  BY <1>1, <1>2, <1>3, PushRefines
<1>. QED
  BY <1>1, <1>4, <1>5, SupplyRefines DEF In, machine

LEMMA MoveRefines == IInv /\ Move => Abstract!Supply("MOVE")
<1>. SUFFICES ASSUME IInv, Move PROVE Abstract!Supply("MOVE")
  OBVIOUS
<1>1. Usable(stack) /\ Abstract!Fetched("MOVE")
  BY UsableStack, Commands, SameFetch DEF Move
<1>2. PICK step \in Moves, ok \in AllocOutcomes : Settle(StackPush(stack, step, ok), NextPc)
  BY DEF Move
<1>3. step \in Word
  BY FieldAssumption, WordAssumption, WordIsInt DEF Moves, Word, MinInt
<1>4. step \in Abstract!Values("MOVE")
  BY DEF Abstract!Values
<1>5. \/ Abstract!Succeeds(0, <<step>>) /\ pc' = NextPc /\ PhaseOf(stack') = PhaseOf(stack)
      \/ Abstract!Fails(0, <<step>>)
  BY <1>1, <1>2, <1>3, PushRefines
<1>. QED
  BY <1>1, <1>4, <1>5, SupplyRefines DEF Move, machine


(***************************************************************************)
(* Where nothing is promised the abstract machine may stop as well.        *)
(***************************************************************************)
LEMMA UsableContents ==
  ASSUME NEW s, Usable(s)
  PROVE  LET c == ContentsOf(s)
         IN  c \in Seq(Word) /\ Len(c) \in 0 .. Len(c) /\ c = SubSeq(c, 1, Len(c))
<1>. DEFINE c == ContentsOf(s)
<1>1. c \in Seq(Word)
  <2>1. CASE s = UnconstructedStack
    <3>1. c = <<>>
      BY <2>1, ContentsOfOthers
    <3>. QED
      BY <3>1
  <2>2. CASE Fit(Word, s)
    BY <2>2, ContentsOfFit
  <2>. QED
    BY <2>1, <2>2 DEF Usable
<1>. HIDE DEF c
<1>2. c = SubSeq(c, 1, Len(c))
  BY <1>1, SubSeqFull
<1>3. Len(c) \in 0 .. Len(c)
  BY <1>1
<1>. QED
  BY <1>1, <1>2, <1>3 DEF c

LEMMA LoseRefines ==
  ASSUME result = "running", pc < image.size, Abstract!Unpromised,
         NEW r \in {"undefined", "CPU_NO_COMMAND"}, Stop(r),
         UNCHANGED <<image, registers, dynMem, callArray, cntNumAddress, output>>,
         PhaseOf(stack') = PhaseOf(stack),
         NEW n \in 0 .. Len(ContentsOf(stack)),
         ContentsOf(stack') = SubSeq(ContentsOf(stack), 1, n)
  PROVE  Abstract!Lose
BY DEF Abstract!Lose, Abstract!Running, Abstract!memory, Stop

LEMMA StopRefines ==
  ASSUME Usable(stack), result = "running", pc < image.size, Abstract!Unpromised,
         NEW r \in {"undefined", "CPU_NO_COMMAND"}, Stop(r),
         UNCHANGED <<image, registers, dynMem, callArray, cntNumAddress, output, stack>>
  PROVE  Abstract!Lose
<1>1. LET c == ContentsOf(stack)
      IN  Len(c) \in 0 .. Len(c) /\ c = SubSeq(c, 1, Len(c))
  BY UsableContents
<1>2. ContentsOf(stack') = ContentsOf(stack) /\ PhaseOf(stack') = PhaseOf(stack)
  OBVIOUS
<1>. QED
  BY <1>1, <1>2, LoseRefines

(***************************************************************************)
(* The argument of PUSH, POP and SQRT is where the abstract machine has    *)
(* it, and it is missing there when it is missing here.                    *)
(***************************************************************************)
LEMMA SamePlace ==
  ASSUME IInv, NEW op \in ArgOps, Fetched(op)
  PROVE  \/ /\ Instr.mode = "imm" /\ Readable /\ ~Writable /\ ArgValue = Instr.arg
         \/ /\ Instr.mode = "reg" /\ (Readable <=> Writable)
            /\ Writable <=> Instr.arg - 1 \in DOMAIN registers
            /\ Writable => Place.in = "registers" /\ Place.at = Instr.arg - 1
            /\ Writable => ArgValue = registers[Instr.arg - 1]
         \/ /\ Instr.mode \in {"memimm", "memreg"} /\ (Readable <=> Writable)
            /\ Writable <=> Abstract!Address \in DOMAIN dynMem
            /\ Writable => Place.in = "dynMem" /\ Place.at = Abstract!Address
            /\ Writable => ArgValue = dynMem[Abstract!Address]
<1>1. Instr.mode \in {"imm", "reg", "memimm", "memreg"}
  BY FetchedInstr DEF IInv, CallsInv, CallsTyped, Ops, Decodes
<1>2. DOMAIN registers = Regs /\ DOMAIN dynMem = MemCells /\ Abstract!Instr = Instr
  BY SameFetch DEF IInv, MachineTyped
<1>3. CASE Instr.mode = "imm"
  BY <1>3 DEF Place, Readable, Writable, ArgValue
<1>4. CASE Instr.mode = "reg"
  <2>1. Place = [in |-> "registers", at |-> Instr.arg - 1]
    BY <1>4 DEF Place
  <2>. QED
    BY <1>2, <1>4, <2>1 DEF Readable, Writable, ArgValue
<1>5. CASE Instr.mode \in {"memimm", "memreg"}
  <2>1. Place.in = "dynMem" /\ Place.at = Abstract!Address
    <3>1. CASE Instr.mode = "memimm"
      BY <1>2, <3>1 DEF Place, Abstract!Address
    <3>2. CASE Instr.mode = "memreg"
      BY <1>2, <3>2 DEF Place, Abstract!Address, BadReg
    <3>. QED
      BY <1>5, <3>1, <3>2
  <2>. QED
    BY <1>2, <1>5, <2>1 DEF Readable, Writable, ArgValue
<1>. QED
  BY <1>1, <1>3, <1>4, <1>5

LEMMA NoPlaceRefines ==
  ASSUME IInv, NEW op \in ArgOps, Fetched(op),
         IF op = "PUSH" THEN ~Readable ELSE ~Writable
  PROVE  Abstract!Unpromised
<1>1. Abstract!Instr = Instr /\ Instr.op = op /\ op \in Abstract!ArgOps
  BY SameFetch, SameSets DEF Fetched
<1>2. Abstract!NoPlace
  <2>1. CASE Instr.mode = "imm"
    BY <1>1, <2>1, SamePlace DEF Abstract!NoPlace
  <2>2. CASE Instr.mode = "reg"
    BY <1>1, <2>2, SamePlace DEF Abstract!NoPlace
  <2>3. CASE Instr.mode \in {"memimm", "memreg"}
    BY <1>1, <2>3, SamePlace DEF Abstract!NoPlace
  <2>. QED
    BY <2>1, <2>2, <2>3, SamePlace
<1>. QED
  BY <1>2 DEF Abstract!Unpromised

LEMMA StoreRefines ==
  ASSUME IInv, NEW op \in ArgOps, Fetched(op), Writable, NEW v, StoreArg(v)
  PROVE  Abstract!StoreArg(v)
<1>1. Abstract!Instr = Instr
  BY SameFetch
<1>. QED
  BY <1>1, SamePlace DEF StoreArg, Abstract!StoreArg

-----------------------------------------------------------------------------
LEMMA PushCommandRefines ==
  IInv /\ Push => Abstract!Supply("PUSH") \/ Abstract!Lose
<1>. SUFFICES ASSUME IInv, Push PROVE Abstract!Supply("PUSH") \/ Abstract!Lose
  OBVIOUS
<1>1. /\ Usable(stack) /\ Abstract!Fetched("PUSH") /\ Fetched("PUSH")
      /\ "PUSH" \in ArgOps
  BY UsableStack, Commands, SameFetch DEF Push, ArgOps
<1>2. UNCHANGED <<image, registers, dynMem, callArray, cntNumAddress, output>>
  BY DEF Push, machine
<1>3. CASE Readable
  <2>1. ArgValue \in Word
    BY <1>1, <1>3, ArgIsWord
  <2>2. PICK ok \in AllocOutcomes : Settle(StackPush(stack, ArgValue, ok), NextPc)
    BY <1>3 DEF Push
  <2>3. ArgValue \in Abstract!Values("PUSH")
    <3>1. Abstract!Instr = Instr
      BY SameFetch
    <3>2. CASE Instr.mode = "imm"
      BY <1>1, <1>3, <3>1, <3>2, SamePlace DEF Abstract!Values
    <3>3. CASE Instr.mode = "reg"
      BY <1>1, <1>3, <3>1, <3>3, SamePlace DEF Abstract!Values
    <3>4. CASE Instr.mode \in {"memimm", "memreg"}
      BY <1>1, <1>3, <3>1, <3>4, SamePlace DEF Abstract!Values
    <3>. QED
      BY <1>1, <3>2, <3>3, <3>4, SamePlace
  <2>4. \/ Abstract!Succeeds(0, <<ArgValue>>) /\ pc' = NextPc /\ PhaseOf(stack') = PhaseOf(stack)
        \/ Abstract!Fails(0, <<ArgValue>>)
    BY <1>1, <2>1, <2>2, PushRefines
  <2>. QED
    BY <1>1, <1>2, <2>3, <2>4, SupplyRefines
<1>4. CASE ~Readable
  <2>1. Abstract!Unpromised
    BY <1>1, <1>4, NoPlaceRefines
  <2>2. result = "running" /\ pc < image.size /\ Stop("undefined") /\ UNCHANGED stack
    BY <1>1, <1>4 DEF Push, Fetched
  <2>. QED
    BY <1>1, <1>2, <2>1, <2>2, StopRefines
<1>. QED
  BY <1>3, <1>4

LEMMA PopCommandRefines ==
  IInv /\ Pop => Abstract!Pop \/ Abstract!Lose
<1>. SUFFICES ASSUME IInv, Pop PROVE Abstract!Pop \/ Abstract!Lose
  OBVIOUS
<1>1. /\ Usable(stack) /\ Abstract!Fetched("POP") /\ Fetched("POP")
      /\ "POP" \in ArgOps /\ Abstract!NextPc = NextPc
  BY UsableStack, Commands, SameFetch DEF Pop, ArgOps
<1>2. UNCHANGED <<image, callArray, cntNumAddress, output>>
  BY DEF Pop
<1>3. PICK ok \in AllocOutcomes :
        LET r == StackPop(stack, ok)
        IN  CASE r.top = Garbage -> Settle(r, NextPc) /\ UNCHANGED <<registers, dynMem>>
              [] r.top # Garbage /\ Writable -> Settle(r, NextPc) /\ StoreArg(r.top)
              [] r.top # Garbage /\ ~Writable ->
                   Stop("undefined") /\ UNCHANGED <<stack, registers, dynMem>>
  BY DEF Pop
<1>. DEFINE r == StackPop(stack, ok)
            c == ContentsOf(stack)
<1>4. \/ r.top = Garbage /\ Settle(r, NextPc) /\ UNCHANGED <<registers, dynMem>>
      \/ r.top # Garbage /\ Writable /\ Settle(r, NextPc) /\ StoreArg(r.top)
      \/ ~Writable /\ Stop("undefined") /\ UNCHANGED <<stack, registers, dynMem>>
  BY <1>3
<1>5. Settle(r, NextPc) =>
        \/ /\ Abstract!Succeeds(1, <<>>) /\ pc' = NextPc
           /\ PhaseOf(stack') = PhaseOf(stack)
           /\ r.err = Ok /\ r.top # Garbage /\ r.top = Abstract!Operand(0)
        \/ /\ Abstract!Fails(1, <<>>) /\ r.err # Ok
           /\ r.top # Garbage => c # <<>> /\ r.top = Abstract!Operand(0)
  BY <1>1, PopRefines
<1>. HIDE DEF r, c
<1>6. CASE ~Writable /\ Stop("undefined") /\ UNCHANGED <<stack, registers, dynMem>>
  <2>1. Abstract!Unpromised
    BY <1>1, <1>6, NoPlaceRefines
  <2>2. result = "running" /\ pc < image.size
    BY <1>1 DEF Fetched
  <2>. QED
    BY <1>1, <1>2, <1>6, <2>1, <2>2, StopRefines
<1>7. CASE r.top = Garbage /\ Settle(r, NextPc) /\ UNCHANGED <<registers, dynMem>>
  BY <1>1, <1>2, <1>5, <1>7 DEF Abstract!Pop, Abstract!memory
<1>8. CASE r.top # Garbage /\ Writable /\ Settle(r, NextPc) /\ StoreArg(r.top)
  <2>1. Abstract!StoreArg(r.top)
    BY <1>1, <1>8, StoreRefines
  <2>. QED
    BY <1>1, <1>2, <1>5, <1>8, <2>1 DEF Abstract!Pop, c
<1>. QED
  BY <1>4, <1>6, <1>7, <1>8

LEMMA OutRefines == IInv /\ Out => Abstract!Out
<1>. SUFFICES ASSUME IInv, Out PROVE Abstract!Out
  OBVIOUS
<1>1. Usable(stack) /\ Abstract!Fetched("OUT") /\ Abstract!NextPc = NextPc
  BY UsableStack, Commands, SameFetch DEF Out
<1>2. UNCHANGED <<image, registers, dynMem, callArray, cntNumAddress>>
  BY DEF Out, machine
<1>3. PICK ok \in AllocOutcomes :
        LET r == StackPop(stack, ok)
        IN  /\ Settle(r, NextPc)
            /\ output' = IF r.err = Ok THEN Append(output, r.top) ELSE output
  BY DEF Out
<1>. DEFINE r == StackPop(stack, ok)
<1>4. Settle(r, NextPc) /\ output' = IF r.err = Ok THEN Append(output, r.top) ELSE output
  BY <1>3
<1>5. \/ /\ Abstract!Succeeds(1, <<>>) /\ pc' = NextPc
         /\ PhaseOf(stack') = PhaseOf(stack)
         /\ r.err = Ok /\ r.top = Abstract!Operand(0)
      \/ Abstract!Fails(1, <<>>) /\ r.err # Ok
  BY <1>1, <1>4, PopRefines
<1>. HIDE DEF r
<1>. QED
  BY <1>1, <1>2, <1>4, <1>5 DEF Abstract!Out, Abstract!memory

(* A command that puts a value where two were.                             *)
LEMMA PushedContents ==
  ASSUME NEW s, Fit(Word, s), NEW v \in Word, NEW ok \in BOOLEAN,
         NEW q, q = StackPush(s, v, ok)
  PROVE  \/ Fit(Word, q.stack) /\ q.err = Ok /\ ContentsOf(q.stack) = ContentsOf(s) \o <<v>>
         \/ ~ok /\ Lost(Word, q.stack) /\ q.err = "STACK_DATA_REALLOC_ERROR"
<1>1. \/ /\ Fit(Word, q.stack) /\ q.err = Ok
         /\ ContentsOf(q.stack) = Append(ContentsOf(s), v)
      \/ ~ok /\ Lost(Word, q.stack) /\ q.err = "STACK_DATA_REALLOC_ERROR"
      \/ s = UnconstructedStack
  BY PushContents
<1>2. s # UnconstructedStack
  BY DEF UnconstructedStack, Fit
<1>3. ContentsOf(s) \in Seq(Word)
  BY ContentsOfFit
<1>4. Append(ContentsOf(s), v) = ContentsOf(s) \o <<v>>
  BY <1>3, AppendIsConcat
<1>. QED
  BY <1>1, <1>2, <1>4

LEMMA OperateRefines ==
  ASSUME IInv, NEW op \in Operators, Operate(op)
  PROVE  Abstract!Operate(op) \/ Abstract!Lose
<1>1. /\ Usable(stack) /\ Abstract!Fetched(op) /\ Fetched(op)
      /\ Abstract!NextPc = NextPc
  BY UsableStack, Commands, SameFetch DEF Operate
<1>2. UNCHANGED <<image, registers, dynMem, callArray, cntNumAddress, output>>
  BY DEF Operate, machine
<1>3. PICK ok1 \in AllocOutcomes, ok2 \in AllocOutcomes, ok3 \in AllocOutcomes :
        LET popped == PopTwo(stack, ok1, ok2)
            x      == Peek(1)
            y      == Peek(0)
        IN  IF popped.err = Ok
            THEN /\ elem1' = y
                 /\ IF Traps(op, x, y)
                    THEN Stop("undefined") /\ stack' = popped.stack
                    ELSE Settle(ThenPush(popped, Compute(op, x, y), ok3), NextPc)
            ELSE Settle(popped, NextPc) /\ UNCHANGED elem1
  BY DEF Operate
<1>. DEFINE r == PopTwo(stack, ok1, ok2)
            c == ContentsOf(stack)
            x == Peek(1)
            y == Peek(0)
            v == Compute(op, x, y)
            q == ThenPush(r, v, ok3)
<1>4. \/ r.err # Ok /\ Settle(r, NextPc)
      \/ r.err = Ok /\ Traps(op, x, y) /\ Stop("undefined") /\ stack' = r.stack
      \/ r.err = Ok /\ ~Traps(op, x, y) /\ Settle(q, NextPc)
  BY <1>3
<1>5. \/ /\ r.err = Ok /\ Fit(Word, stack) /\ Fit(Word, r.stack)
         /\ c \in Seq(Word) /\ Len(c) >= 2
         /\ ContentsOf(r.stack) = SubSeq(c, 1, Len(c) - 2)
         /\ y = Abstract!Operand(0) /\ x = Abstract!Operand(1)
         /\ y \in Word /\ x \in Word
      \/ r.err # Ok /\ Fault(r, 2, <<>>)
  BY <1>1, PopTwoRefines
<1>6. r.err = Ok => q = StackPush(r.stack, v, ok3)
  BY DEF ThenPush
<1>7. ok3 \in BOOLEAN /\ (~ok3 => FALSE \in AllocOutcomes)
  BY AllocAssumption
<1>. HIDE DEF r, x, y, q
<1>8. CASE r.err # Ok /\ Settle(r, NextPc)
  <2>1. Abstract!Fails(2, <<>>)
    BY <1>5, <1>8, FailureRefines
  <2>. QED
    BY <1>1, <1>2, <2>1 DEF Abstract!Operate, Abstract!memory
<1>9. CASE r.err = Ok /\ Traps(op, x, y) /\ Stop("undefined") /\ stack' = r.stack
  <2>1. Abstract!Unpromised
    <3>1. op = "DIV" /\ Abstract!Traps("DIV", Abstract!Operand(1), Abstract!Operand(0))
      BY <1>5, <1>9, SameArithmetic DEF Traps
    <3>2. Abstract!Instr.op = op
      BY <1>1 DEF Abstract!Fetched
    <3>. QED
      BY <1>5, <1>9, <3>1, <3>2 DEF Abstract!Unpromised
  <2>2. PhaseOf(stack') = PhaseOf(stack)
    BY <1>5, <1>9, ContentsOfFit
  <2>3. Len(c) - 2 \in 0 .. Len(c) /\ ContentsOf(stack') = SubSeq(c, 1, Len(c) - 2)
    BY <1>5, <1>9
  <2>4. result = "running" /\ pc < image.size
    BY <1>1 DEF Fetched
  <2>. QED
    BY <1>2, <1>9, <2>1, <2>2, <2>3, <2>4, LoseRefines
<1>10. CASE r.err = Ok /\ ~Traps(op, x, y) /\ Settle(q, NextPc)
  <2>1. v \in Word /\ v = Abstract!Compute(op, Abstract!Operand(1), Abstract!Operand(0))
    BY <1>5, <1>10, ComputeWord, SameArithmetic
  <2>. HIDE DEF v
  <2>2. \/ /\ Fit(Word, q.stack) /\ q.err = Ok
           /\ ContentsOf(q.stack) = ContentsOf(r.stack) \o <<v>>
        \/ ~ok3 /\ Lost(Word, q.stack) /\ q.err = "STACK_DATA_REALLOC_ERROR"
    BY <1>5, <1>6, <1>7, <1>10, <2>1, PushedContents
  <2>3. CASE /\ Fit(Word, q.stack) /\ q.err = Ok
             /\ ContentsOf(q.stack) = ContentsOf(r.stack) \o <<v>>
    <3>1. Abstract!Succeeds(2, <<v>>) /\ pc' = NextPc /\ PhaseOf(stack') = PhaseOf(stack)
      BY <1>5, <1>10, <2>3, SuccessRefines
    <3>2. ~Abstract!Traps(op, Abstract!Operand(1), Abstract!Operand(0))
      BY <1>5, <1>10, SameArithmetic
    <3>. QED
      BY <1>1, <1>2, <1>5, <1>10, <2>1, <3>1, <3>2 DEF Abstract!Operate, Abstract!memory
  <2>4. CASE ~ok3 /\ Lost(Word, q.stack) /\ q.err = "STACK_DATA_REALLOC_ERROR"
    <3>1. Fault(q, 2, <<>>)
      BY <1>5, <1>7, <1>10, <2>4 DEF Fault
    <3>2. Abstract!Fails(2, <<>>)
      BY <1>10, <3>1, FailureRefines
    <3>. QED
      BY <1>1, <1>2, <3>2 DEF Abstract!Operate, Abstract!memory
  <2>. QED
    BY <2>2, <2>3, <2>4
<1>. QED
  BY <1>4, <1>8, <1>9, <1>10

LEMMA CondJmpRefines ==
  ASSUME IInv, NEW op \in ConditionalJumps, CondJmp(op)
  PROVE  Abstract!CondJmp(op)
<1>1. /\ Usable(stack) /\ Abstract!Fetched(op) /\ Abstract!Instr = Instr
      /\ Abstract!NextPc = NextPc
  BY UsableStack, Commands, SameFetch DEF CondJmp
<1>2. UNCHANGED <<image, registers, dynMem, callArray, cntNumAddress, output>>
  BY DEF CondJmp, machine
<1>3. PICK ok1 \in AllocOutcomes, ok2 \in AllocOutcomes :
        LET popped == PopTwo(stack, ok1, ok2)
        IN  IF popped.err = Ok
            THEN Settle(popped, IF Holds(op, Peek(1), Peek(0)) THEN Instr.arg ELSE NextPc)
            ELSE Settle(popped, NextPc)
  BY DEF CondJmp
<1>. DEFINE r == PopTwo(stack, ok1, ok2)
            c == ContentsOf(stack)
            next == IF Holds(op, Peek(1), Peek(0)) THEN Instr.arg ELSE NextPc
<1>4. \/ r.err = Ok /\ Settle(r, next)
      \/ r.err # Ok /\ Settle(r, NextPc)
  BY <1>3
<1>5. \/ /\ r.err = Ok /\ Fit(Word, stack) /\ Fit(Word, r.stack)
         /\ c \in Seq(Word) /\ Len(c) >= 2
         /\ ContentsOf(r.stack) = SubSeq(c, 1, Len(c) - 2)
         /\ Peek(0) = Abstract!Operand(0) /\ Peek(1) = Abstract!Operand(1)
      \/ r.err # Ok /\ Fault(r, 2, <<>>)
  BY <1>1, PopTwoRefines
<1>6. r.err = Ok => next = IF Abstract!Holds(op, Abstract!Operand(1), Abstract!Operand(0))
                           THEN Instr.arg ELSE NextPc
  BY <1>5, SameArithmetic
<1>. HIDE DEF r, next
<1>7. CASE r.err = Ok /\ Settle(r, next)
  <2>. HIDE DEF c
  <2>1. 2 \in 0 .. Len(c) /\ SubSeq(c, 1, Len(c) - 2) = SubSeq(c, 1, Len(c) - 2) \o <<>>
    BY <1>5, <1>7, NoneMore
  <2>2. ContentsOf(r.stack) = SubSeq(c, 1, Len(c) - 2) \o <<>>
    BY <1>5, <1>7, <2>1
  <2>3. Abstract!Succeeds(2, <<>>) /\ pc' = next /\ PhaseOf(stack') = PhaseOf(stack)
    BY <1>5, <1>7, <2>2, SuccessRefines DEF c
  <2>. QED
    BY <1>1, <1>2, <1>6, <1>7, <2>3 DEF Abstract!CondJmp, Abstract!memory
<1>8. CASE r.err # Ok /\ Settle(r, NextPc)
  <2>1. Abstract!Fails(2, <<>>)
    BY <1>5, <1>8, FailureRefines
  <2>. QED
    BY <1>1, <1>2, <2>1 DEF Abstract!CondJmp, Abstract!memory
<1>. QED
  BY <1>4, <1>7, <1>8

LEMMA SqrtRefines == IInv /\ Sqrt => Abstract!Sqrt \/ Abstract!Lose
<1>. SUFFICES ASSUME IInv, Sqrt PROVE Abstract!Sqrt \/ Abstract!Lose
  OBVIOUS
<1>1. /\ Usable(stack) /\ Abstract!Fetched("SQRT") /\ Fetched("SQRT")
      /\ "SQRT" \in ArgOps /\ Abstract!NextPc = NextPc /\ Abstract!Instr = Instr
  BY UsableStack, Commands, SameFetch DEF Sqrt, ArgOps
<1>2. UNCHANGED <<image, stack, output, callArray, cntNumAddress>>
  BY DEF Sqrt
<1>3. CASE Writable
  <2>1. StoreArg(SquareRoot(ArgValue)) /\ pc' = NextPc /\ UNCHANGED result
    BY <1>3 DEF Sqrt
  <2>2. Abstract!StoreArg(Abstract!SquareRoot(ArgValue))
    BY <1>1, <1>3, <2>1, StoreRefines, SameArithmetic
  <2>3. \/ Instr.mode = "reg" /\ ArgValue = registers[Instr.arg - 1]
        \/ Instr.mode # "reg" /\ ArgValue = dynMem[Abstract!Address]
    BY <1>1, <1>3, SamePlace
  <2>. QED
    BY <1>1, <1>2, <2>1, <2>2, <2>3 DEF Abstract!Sqrt
<1>4. CASE ~Writable
  <2>1. Abstract!Unpromised
    BY <1>1, <1>4, NoPlaceRefines
  <2>2. /\ result = "running" /\ pc < image.size /\ Stop("undefined")
        /\ UNCHANGED <<registers, dynMem>>
    BY <1>1, <1>4 DEF Sqrt, Fetched
  <2>. QED
    BY <1>1, <1>2, <2>1, <2>2, StopRefines
<1>. QED
  BY <1>3, <1>4

(* JMP, CALL and RET.                                                      *)
LEMMA JmpRefines == IInv /\ Jmp => Abstract!Goto
BY SameFetch DEF Jmp, machine, Abstract!Goto, Abstract!memory

LEMMA OneCallMore ==
  ASSUME NEW n \in Nat, NEW f, NEW g, NEW a \in Nat, g[n] = a,
         \A i \in 0 .. n-1 : f[i] \in Nat /\ g[i] = f[i]
  PROVE  [i \in 1 .. n+1 |-> g[i-1]] = Append([i \in 1 .. n |-> f[i-1]], a)
<1>. DEFINE c == [i \in 1 .. n |-> f[i-1]]
            d == [i \in 1 .. n+1 |-> g[i-1]]
            e == Append(c, a)
<1>1. \A i \in 1 .. n : i-1 \in 0 .. n-1
  OBVIOUS
<1>2. c \in Seq(Nat) /\ Len(c) = n
  BY <1>1
<1>3. \A i \in 1 .. n : d[i] = c[i]
  BY <1>1
<1>4. d[n+1] = a
  OBVIOUS
<1>5. d \in Seq(Nat) /\ Len(d) = n + 1
  BY <1>1
<1>. HIDE DEF c, d
<1>6. /\ e \in Seq(Nat) /\ Len(e) = n + 1 /\ e[n+1] = a
      /\ \A i \in 1 .. n : e[i] = c[i]
  BY <1>2, AppendProperties
<1>. HIDE DEF e
<1>7. \A i \in 1 .. n+1 : d[i] = e[i]
  BY <1>3, <1>4, <1>6
<1>8. d = e
  BY <1>5, <1>6, <1>7
<1>. QED
  BY <1>8 DEF c, d, e

LEMMA CallRefines == IInv /\ Call => Abstract!Goto \/ Abstract!Lose
<1>. SUFFICES ASSUME IInv, Call PROVE Abstract!Goto \/ Abstract!Lose
  OBVIOUS
<1>1. /\ Usable(stack) /\ Abstract!Fetched("CALL") /\ Fetched("CALL")
      /\ Abstract!NextPc = NextPc /\ Abstract!Instr = Instr /\ NextPc \in Nat
  BY UsableStack, FetchedInstr, Commands, SameFetch DEF Call, IInv, CallsInv, CallsTyped
<1>2. UNCHANGED <<image, registers, dynMem, stack, output>>
  BY DEF Call
<1>3. cntNumAddress \in 0 .. DepthRecursion /\ callArray \in [Entries -> Nat]
  BY DEF IInv, CallsInv, CallsTyped
<1>4. Len(CallSeq) = cntNumAddress
  BY <1>3, DepthAssumption DEF CallSeq
<1>5. CASE cntNumAddress < DepthRecursion
  <2>1. /\ callArray' = [callArray EXCEPT ![cntNumAddress] = NextPc]
        /\ cntNumAddress' = cntNumAddress + 1 /\ pc' = Instr.arg /\ UNCHANGED result
    BY <1>5 DEF Call
  <2>2. CallSeq' = Append(CallSeq, NextPc)
    <3>1. cntNumAddress \in Entries /\ cntNumAddress \in Nat
      BY <1>3, <1>5, DepthAssumption DEF Entries
    <3>2. \A i \in 0 .. cntNumAddress - 1 : i \in Entries
      BY <1>3, <3>1, DepthAssumption DEF Entries
    <3>3. /\ callArray'[cntNumAddress] = NextPc
          /\ \A i \in 0 .. cntNumAddress - 1 :
                callArray[i] \in Nat /\ callArray'[i] = callArray[i]
      BY <1>3, <2>1, <3>1, <3>2
    <3>4. [i \in 1 .. cntNumAddress + 1 |-> callArray'[i-1]]
            = Append([i \in 1 .. cntNumAddress |-> callArray[i-1]], NextPc)
      BY <1>1, <3>1, <3>3, OneCallMore
    <3>. QED
      BY <2>1, <3>4 DEF CallSeq
  <2>. QED
    BY <1>1, <1>2, <1>4, <1>5, <2>1, <2>2 DEF Abstract!Goto, Abstract!memory, CallSeq
<1>6. CASE ~(cntNumAddress < DepthRecursion)
  <2>1. Stop("undefined") /\ UNCHANGED <<callArray, cntNumAddress>>
    BY <1>6 DEF Call
  <2>2. Abstract!Unpromised
    BY <1>1, <1>3, <1>4, <1>6, DepthAssumption
    DEF Abstract!Unpromised, Abstract!Fetched, CallSeq
  <2>3. result = "running" /\ pc < image.size
    BY <1>1 DEF Fetched
  <2>. QED
    BY <1>1, <1>2, <2>1, <2>2, <2>3, StopRefines
<1>. QED
  BY <1>5, <1>6

LEMMA RetRefines == IInv /\ Ret => Abstract!Ret \/ Abstract!Lose
<1>. SUFFICES ASSUME IInv, Ret PROVE Abstract!Ret \/ Abstract!Lose
  OBVIOUS
<1>1. Usable(stack) /\ Abstract!Fetched("RET") /\ Fetched("RET")
  BY UsableStack, Commands, SameFetch DEF Ret
<1>2. UNCHANGED <<image, registers, dynMem, stack, output, callArray>>
  BY DEF Ret
<1>3. cntNumAddress \in Nat /\ cntNumAddress <= DepthRecursion /\ callArray \in [Entries -> Nat]
  BY DepthAssumption DEF IInv, CallsInv, CallsTyped
<1>4. CallSeq \in Seq(Nat) /\ Len(CallSeq) = cntNumAddress
  <2>1. \A i \in 1 .. cntNumAddress : callArray[i-1] \in Nat
    BY <1>3, DepthAssumption DEF Entries
  <2>. QED
    BY <1>3, <2>1 DEF CallSeq
<1>5. CASE cntNumAddress > 0
  <2>1. /\ cntNumAddress' = cntNumAddress - 1
        /\ pc' = callArray[cntNumAddress - 1] /\ UNCHANGED result
    BY <1>5 DEF Ret
  <2>2. CallSeq # <<>> /\ pc' = CallSeq[Len(CallSeq)]
    BY <1>3, <1>4, <1>5, <2>1 DEF CallSeq
  <2>3. CallSeq' = SubSeq(CallSeq, 1, Len(CallSeq) - 1)
    <3>. DEFINE n == cntNumAddress
    <3>1. CallSeq' = [i \in 1 .. n - 1 |-> callArray[i-1]]
      BY <1>2, <2>1 DEF CallSeq
    <3>2. SubSeq(CallSeq, 1, n - 1) = [i \in 1 .. n - 1 |-> CallSeq[i]]
      BY <1>3, <1>4, <1>5
    <3>3. \A i \in 1 .. n - 1 : CallSeq[i] = callArray[i-1]
      BY <1>3, <1>5 DEF CallSeq
    <3>. QED
      BY <1>4, <3>1, <3>2, <3>3
  <2>. QED
    BY <1>1, <1>2, <2>1, <2>2, <2>3 DEF Abstract!Ret, Abstract!memory, CallSeq
<1>6. CASE ~(cntNumAddress > 0)
  <2>1. Stop("undefined") /\ UNCHANGED cntNumAddress
    BY <1>6 DEF Ret
  <2>2. CallSeq = <<>>
    BY <1>3, <1>4, <1>6
  <2>3. Abstract!Unpromised
    BY <1>1, <2>2 DEF Abstract!Unpromised, Abstract!Fetched, CallSeq
  <2>4. result = "running" /\ pc < image.size
    BY <1>1 DEF Fetched
  <2>. QED
    BY <1>1, <1>2, <2>1, <2>3, <2>4, StopRefines
<1>. QED
  BY <1>5, <1>6

(* DRAW and the commands that print a character.                           *)
LEMMA ShowRefines ==
  ASSUME IInv, NEW op, Fetched(op), NEW item, output' = Append(output, item), pc' = NextPc,
         UNCHANGED <<image, registers, dynMem, stack, callArray, cntNumAddress, result>>
  PROVE  Abstract!Show(op)
<1>1. Abstract!Fetched(op) /\ Abstract!NextPc = NextPc
  BY SameFetch
<1>2. Len(output') = Len(output) + 1 /\ SubSeq(output', 1, Len(output)) = output
  <2>1. output \in Seq(Item)
    BY DEF IInv, MachineTyped
  <2>2. output \in Seq(Item \cup {item}) /\ output' \in Seq(Item \cup {item})
    BY <2>1
  <2>3. /\ Len(output') = Len(output) + 1 /\ Len(output) \in Nat
        /\ \A i \in 1 .. Len(output) : output'[i] = output[i]
    BY <2>2, AppendProperties
  <2>4. SubSeq(output', 1, Len(output)) = output
    BY <2>2, <2>3, Front
  <2>. QED
    BY <2>3, <2>4
<1>. QED
  BY <1>1, <1>2 DEF Abstract!Show, Abstract!memory

LEMMA HltRefines == IInv /\ Hlt => Abstract!Halt
<1>. SUFFICES ASSUME IInv, Hlt PROVE Abstract!Halt
  OBVIOUS
<1>1. StackDtor(stack) = Outcome(DestroyedStack, Ok, Garbage)
  BY DtorDestroys
<1>2. stack' = DestroyedStack /\ pc' = image.size /\ result' = result
  BY <1>1 DEF Hlt, Settle, Outcome
<1>3. PhaseOf(stack') = "closed" /\ ContentsOf(stack') = <<>>
  BY <1>2, ContentsOfOthers
<1>. QED
  BY <1>2, <1>3, SameFetch DEF Hlt, machine, Abstract!Halt, Abstract!memory

LEMMA EndRefines == IInv /\ (BadFetch \/ Finish) => Abstract!Finish \/ Abstract!Lose
<1>1. Finish => Abstract!Finish
  BY DEF Finish, Stop, machine, Abstract!Finish, Abstract!memory
<1>2. IInv /\ BadFetch => Abstract!Lose
  <2>. SUFFICES ASSUME IInv, BadFetch PROVE Abstract!Lose
    OBVIOUS
  <2>1. Usable(stack)
    BY ImagesAssumption DEF IInv, CallsInv, CallsTyped, MachineTyped, StackInv, BadFetch, Usable
  <2>2. Abstract!Unpromised
    BY DEF BadFetch, Abstract!Unpromised
  <2>3. PICK r \in {"undefined", "CPU_NO_COMMAND"} : Stop(r)
    BY DEF BadFetch
  <2>. QED
    BY <2>1, <2>2, <2>3, StopRefines DEF BadFetch, machine
<1>. QED
  BY <1>1, <1>2

LEMMA InitRefines == Init => Abstract!Init
<1>. SUFFICES ASSUME Init PROVE Abstract!Init
  OBVIOUS
<1>1. PhaseOf(stack) = "new" /\ ContentsOf(stack) = <<>>
  BY ContentsOfOthers DEF Init, Idle
<1>2. CallSeq = <<>>
  BY DEF Init, Idle, CallSeq
<1>. QED
  BY <1>1, <1>2 DEF Init, Idle, Abstract!Init, CallSeq, Regs, MemCells, IntsPerSizeT

LEMMA NextRefines == IInv /\ [Next]_vars => [Abstract!Next]_(Abstract!vars)
<1>. SUFFICES ASSUME IInv, [Next]_vars PROVE [Abstract!Next]_(Abstract!vars)
  OBVIOUS
<1>1. CASE UNCHANGED vars
  BY <1>1 DEF vars, machine, locals, Abstract!vars, Abstract!memory
<1>2. CASE Crt \/ In \/ Push \/ Pop \/ Out \/ Hlt
  BY <1>2, CrtRefines, InRefines, PushCommandRefines, PopCommandRefines, OutRefines,
     HltRefines DEF Abstract!Next
<1>3. CASE Jmp \/ Call \/ Ret \/ Sqrt \/ Move \/ BadFetch \/ Finish
  BY <1>3, JmpRefines, CallRefines, RetRefines, SqrtRefines, MoveRefines, EndRefines
  DEF Abstract!Next
<1>4. CASE Draw
  <2>1. Abstract!Show("DRAW")
    BY <1>4, ShowRefines DEF Draw, machine
  <2>. QED
    BY <2>1 DEF Abstract!Next
<1>5. ASSUME NEW op \in Operators, Operate(op)
      PROVE  Abstract!Next
  BY <1>5, OperateRefines, SameSets DEF Abstract!Next
<1>6. ASSUME NEW op \in ConditionalJumps, CondJmp(op)
      PROVE  Abstract!Next
  BY <1>6, CondJmpRefines, SameSets DEF Abstract!Next
<1>7. ASSUME NEW op \in Printers, PrintChar(op)
      PROVE  Abstract!Next
  <2>1. Abstract!Show(op)
    BY <1>7, ShowRefines DEF PrintChar, machine
  <2>. QED
    BY <2>1, SameSets DEF Abstract!Next
<1>. QED
  BY <1>1, <1>2, <1>3, <1>4, <1>5, <1>6, <1>7 DEF Next

(***************************************************************************)
(* The machine of Commands.h, with its blocks, its reallocs and its array  *)
(* of return addresses, does nothing a machine with a sequence of operands *)
(* and a sequence of calls could not do: whatever program it runs, of      *)
(* whatever sizes its memory is, wherever the allocator fails.             *)
(***************************************************************************)
THEOREM MachineRefines == Spec => ImplementsAbstractMachine
<1>1. Init => Abstract!Init
  BY InitRefines
<1>2. IInv /\ [Next]_vars => [Abstract!Next]_(Abstract!vars)
  BY NextRefines
<1>. QED
  BY <1>1, <1>2, MachineInvariant, PTL DEF Spec, ImplementsAbstractMachine, Abstract!Spec

=============================================================================
