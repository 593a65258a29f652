--------------------------- MODULE StackOpsProofs ---------------------------
(***************************************************************************)
(* What one call of Stack.cpp does to a stack that is fit for use, for     *)
(* every set E of elements and every behaviour of the allocator.           *)
(***************************************************************************)
EXTENDS StackOps, SequenceTheorems, TLAPS

(* The records a stack_t is. *)
Block(E) == {NoBlock} \cup UNION {[-1 .. c -> Cell(E)] : c \in Nat}

StackT(E) == [status : Status, data : Data, capacity : Nat, size : Nat, block : Block(E)]

(* The block of s is sound: canaries at its ends, elements below the top. *)
SoundBlock(E, s) ==
  /\ s.block \in [-1 .. s.capacity -> Cell(E)]
  /\ s.block[-1] = LeftCanary
  /\ s.block[s.capacity] = RightCanary
  /\ \A i \in 0 .. s.size - 1 : s.block[i] \in E

(* s is a constructed stack every call of which may be made. *)
Fit(E, s) ==
  /\ s \in StackT(E)
  /\ s.status = "STACK_CONSTRUCTED"
  /\ s.data = "live"
  /\ s.capacity > 0
  /\ s.size <= s.capacity
  /\ SoundBlock(E, s)

(* s is a constructed stack whose block a failed realloc took away. *)
Lost(E, s) ==
  /\ s \in StackT(E)
  /\ s.status = "STACK_CONSTRUCTED"
  /\ s.data \in {"dangling", "corrupted"}

(* What StackDtor leaves behind. *)
DestroyedStack == StackDtor(UnconstructedStack).stack

-----------------------------------------------------------------------------
(* Writing the canaries of a block leaves the slots between them alone. *)
LEMMA WithCanariesSound ==
  ASSUME NEW E, NEW capacity \in Nat, NEW b, \A i \in 0 .. capacity-1 : b[i] \in Cell(E)
  PROVE  /\ WithCanaries(b, capacity) \in [-1 .. capacity -> Cell(E)]
         /\ WithCanaries(b, capacity)[-1] = LeftCanary
         /\ WithCanaries(b, capacity)[capacity] = RightCanary
         /\ \A i \in 0 .. capacity-1 : WithCanaries(b, capacity)[i] = b[i]
  <1> DEFINE w == WithCanaries(b, capacity)
  <1>1. \A i \in -1 .. capacity :
           w[i] = (CASE i = -1 -> LeftCanary [] i = capacity -> RightCanary
                     [] OTHER -> b[i])
    BY DEF WithCanaries
  <1>2. -1 \in -1 .. capacity /\ capacity \in -1 .. capacity /\ capacity # -1
    OBVIOUS
  <1>3. w[-1] = LeftCanary
    BY <1>1, <1>2
  <1>4. w[capacity] = RightCanary
    BY <1>1, <1>2
  <1>5. \A i \in 0 .. capacity-1 : w[i] = b[i]
    BY <1>1
  <1>6. \A i \in -1 .. capacity : w[i] \in Cell(E)
    <2> SUFFICES ASSUME NEW i \in -1 .. capacity PROVE w[i] \in Cell(E)
      OBVIOUS
    <2>1. CASE i = -1
      BY <2>1, <1>3 DEF Cell
    <2>2. CASE i = capacity
      BY <2>2, <1>4 DEF Cell
    <2>3. CASE i \in 0 .. capacity-1
      BY <2>3, <1>5
    <2> QED BY <2>1, <2>2, <2>3
  <1>7. w \in [-1 .. capacity -> Cell(E)]
    BY <1>6 DEF WithCanaries
  <1> QED BY <1>3, <1>4, <1>5, <1>7

(* StackCtor makes a stack fit for use. *)
LEMMA CtorFit ==
  ASSUME NEW E, NEW capacity \in Nat \ {0}, NEW ok \in BOOLEAN
  PROVE  LET s == UnconstructedStack
             r == StackCtor(s, capacity, ok)
         IN  \/ ok /\ Fit(E, r.stack) /\ r.stack.size = 0 /\ r.err = Ok
             \/ ~ok /\ r.stack = s /\ r.err = "STACK_DATA_CALLOC_ERROR"
  <1> DEFINE s == UnconstructedStack
             r == StackCtor(s, capacity, ok)
             b == [i \in 0 .. capacity-1 |-> 0]
             w == WithCanaries(b, capacity)
             t == [status |-> "STACK_CONSTRUCTED", data |-> "live",
                   capacity |-> capacity, size |-> 0, block |-> w]
  <1>1. s.status = "STACK_NOT_CONSTRUCTED"
    BY DEF UnconstructedStack
  <1>2. CASE ~ok
    BY <1>1, <1>2 DEF StackCtor, Outcome
  <1>3. CASE ok
    <2>1. r = Outcome(t, Ok, Garbage)
      BY <1>1, <1>3 DEF StackCtor
    <2>2. \A i \in 0 .. capacity-1 : b[i] \in Cell(E)
      BY DEF Cell
    <2>3. /\ w \in [-1 .. capacity -> Cell(E)]
          /\ w[-1] = LeftCanary /\ w[capacity] = RightCanary
      <3> HIDE DEF b
      <3> QED BY <2>2, WithCanariesSound
    <2>4. w \in Block(E)
      BY <2>3 DEF Block
    <2> HIDE DEF w
    <2>5. Fit(E, t) /\ t.size = 0
      BY <2>3, <2>4
      DEF Fit, StackT, SoundBlock, Status, Data
    <2> HIDE DEF t
    <2>6. r.stack = t /\ r.err = Ok
      BY <2>1 DEF Outcome
    <2> QED BY <1>3, <2>5, <2>6
  <1> QED BY <1>2, <1>3

-----------------------------------------------------------------------------
(***************************************************************************)
(* RecallocStack on a fit stack: either the block is lost, or the stack is *)
(* fit again with the new capacity and the same elements.  The new         *)
(* capacity is never below the size.                                       *)
(***************************************************************************)
LEMMA RecallocFit ==
  ASSUME NEW E, NEW s, Fit(E, s), NEW n \in Nat \ {0}, s.size <= n,
         NEW ok \in BOOLEAN, NEW r, r = RecallocStack(s, n, ok)
  PROVE  /\ r.top = Garbage
         /\ r.stack.size = s.size
         /\ \/ /\ ok /\ Fit(E, r.stack) /\ r.err = Ok
               /\ r.stack.capacity = n
               /\ \A i \in 0 .. s.size-1 : r.stack.block[i] = s.block[i]
            \/ ~ok /\ Lost(E, r.stack) /\ r.err = "STACK_DATA_REALLOC_ERROR"
  <1> DEFINE q == ReallocStack(s, n, ok)
  <1>1. CASE ~ok
    <2> DEFINE t == [s EXCEPT !.data = "dangling", !.block = NoBlock]
    <2>1. q = Outcome(t, "STACK_DATA_REALLOC_ERROR", Garbage)
      BY <1>1 DEF ReallocStack
    <2>2. Lost(E, t) /\ t.size = s.size
      BY DEF Fit, Lost, StackT, Data, Block
    <2> HIDE DEF t
    <2>3. r = q \/ r = [q EXCEPT !.stack.data = "corrupted"]
      BY <2>1 DEF RecallocStack, Ok, Outcome
    <2>4. /\ r.err = "STACK_DATA_REALLOC_ERROR" /\ r.top = Garbage
          /\ r.stack = t \/ r.stack = [t EXCEPT !.data = "corrupted"]
      BY <2>1, <2>3 DEF Outcome
    <2>5. Lost(E, [t EXCEPT !.data = "corrupted"])
          /\ [t EXCEPT !.data = "corrupted"].size = s.size
      BY <2>2 DEF Lost, StackT, Data
    <2> QED BY <1>1, <2>2, <2>4, <2>5
  <1>2. CASE ok
    <2> DEFINE kept == [i \in 0 .. n-1 |->
                          IF i <= s.capacity THEN s.block[i] ELSE Garbage]
               w == WithCanaries(kept, n)
               t == [s EXCEPT !.capacity = n, !.block = w]
               f == [i \in DOMAIN w |-> IF i \in s.size .. n-1
                                        THEN RecallocValue ELSE w[i]]
               u == [t EXCEPT !.block = f]
    <2>1. \A i \in 0 .. n-1 : kept[i] \in Cell(E)
      BY DEF Cell, Fit, StackT, SoundBlock
    <2>2. /\ w \in [-1 .. n -> Cell(E)]
          /\ w[-1] = LeftCanary /\ w[n] = RightCanary
          /\ \A i \in 0 .. n-1 : w[i] = kept[i]
      <3> HIDE DEF kept
      <3> QED BY <2>1, WithCanariesSound
    <2>3. \A i \in 0 .. s.size-1 : w[i] = s.block[i]
      BY <2>2 DEF Fit, StackT
    <2>4. w \in Block(E)
      BY <2>2 DEF Block
    <2> HIDE DEF w
    <2>5. /\ t \in StackT(E) /\ t.size = s.size /\ t.block = w
          /\ t.capacity = n /\ t.status = s.status /\ t.data = s.data
      BY <2>4 DEF Fit, StackT
    <2>6. /\ f \in [-1 .. n -> Cell(E)]
          /\ f[-1] = LeftCanary /\ f[n] = RightCanary
          /\ \A i \in 0 .. s.size-1 : f[i] = s.block[i]
      BY <2>2, <2>3 DEF Fit, StackT, Cell
    <2>7. f \in Block(E)
      BY <2>6 DEF Block
    <2>8. q = Outcome(t, Ok, Garbage)
      BY <1>2 DEF ReallocStack, w
    <2> HIDE DEF t
    <2>9. r = [q EXCEPT !.stack.block =
                [i \in DOMAIN @ |-> IF i \in q.stack.size .. n-1
                                    THEN RecallocValue ELSE @[i]]]
      BY <2>8 DEF RecallocStack, Outcome, Ok
    <2>10. q.stack = t /\ q.err = Ok /\ q.top = Garbage
      BY <2>8 DEF Outcome
    <2>11. r = [q EXCEPT !.stack.block = f]
      BY <2>9, <2>10, <2>5
    <2> HIDE DEF f
    <2>12. r.stack = u /\ r.err = Ok /\ r.top = Garbage
      BY <2>8, <2>11 DEF Outcome
    <2>13. Fit(E, u) /\ u.size = s.size /\ u.capacity = n /\ u.block = f
      BY <2>5, <2>6, <2>7 DEF Fit, StackT, SoundBlock
    <2> HIDE DEF u
    <2> QED BY <1>2, <2>6, <2>12, <2>13
  <1> QED BY <1>1, <1>2

(***************************************************************************)
(* StackPush on a fit stack: the element goes on top and the others stay,  *)
(* or the block is lost.  The block grows only when it is full.            *)
(***************************************************************************)
LEMMA PushFit ==
  ASSUME NEW E, NEW s, Fit(E, s), NEW e \in E,
         NEW ok \in BOOLEAN, NEW r, r = StackPush(s, e, ok)
  PROVE  /\ r.top = Garbage
         /\ \/ /\ Fit(E, r.stack) /\ r.err = Ok
               /\ r.stack.size = s.size + 1
               /\ \A i \in 0 .. s.size-1 : r.stack.block[i] = s.block[i]
               /\ r.stack.block[s.size] = e
               /\ \/ r.stack.capacity = s.capacity
                  \/ s.size = s.capacity /\ r.stack.capacity = 2 * s.capacity
            \/ ~ok /\ Lost(E, r.stack) /\ r.err = "STACK_DATA_REALLOC_ERROR"
  <1>1. ASSUME NEW t, Fit(E, t), t.size < t.capacity
        PROVE  LET u == Store(t, e)
               IN  /\ Fit(E, u) /\ u.size = t.size + 1 /\ u.capacity = t.capacity
                   /\ \A i \in 0 .. t.size-1 : u.block[i] = t.block[i]
                   /\ u.block[t.size] = e
    <2> DEFINE b == [t.block EXCEPT ![t.size] = e]
               u == [t EXCEPT !.block = b, !.size = @ + 1]
    <2>1. Store(t, e) = u
      BY DEF Store
    <2>2. /\ b \in [-1 .. t.capacity -> Cell(E)]
          /\ b[-1] = LeftCanary /\ b[t.capacity] = RightCanary
          /\ b[t.size] = e
          /\ \A i \in 0 .. t.size-1 : b[i] = t.block[i]
      <3>1. /\ t.size \in 0 .. t.capacity-1 /\ e \in Cell(E)
            /\ t.block \in [-1 .. t.capacity -> Cell(E)]
            /\ t.block[-1] = LeftCanary /\ t.block[t.capacity] = RightCanary
            /\ t.capacity \in Nat
        BY <1>1 DEF Fit, SoundBlock, StackT, Cell
      <3> QED BY <3>1
    <2>3. b \in Block(E)
      BY <1>1, <2>2 DEF Block, Fit, StackT
    <2> HIDE DEF b
    <2>4. /\ u \in StackT(E) /\ u.size = t.size + 1 /\ u.capacity = t.capacity
          /\ u.block = b /\ u.status = t.status /\ u.data = t.data
      <3>1. t \in StackT(E) /\ t.size \in Nat /\ t.size + 1 \in Nat
        BY <1>1 DEF Fit, StackT
      <3> QED BY <2>3, <3>1 DEF StackT
    <2> HIDE DEF u
    <2>5. Fit(E, u)
      <3>1. \A i \in 0 .. u.size-1 : i = t.size \/ i \in 0 .. t.size-1
        BY <1>1, <2>4 DEF Fit, StackT
      <3>2. SoundBlock(E, u)
        BY <1>1, <2>2, <2>4, <3>1 DEF Fit, SoundBlock
      <3> QED BY <1>1, <2>4, <3>2 DEF Fit, StackT
    <2> QED BY <2>1, <2>2, <2>4, <2>5
  <1>2. CASE s.size < s.capacity
    <2> DEFINE u == Store(s, e)
    <2>1. r = Outcome(u, Ok, Garbage)
      BY <1>2 DEF StackPush, Fit, StackT, Outcome, Ok
    <2>2. /\ Fit(E, u) /\ u.size = s.size + 1 /\ u.capacity = s.capacity
          /\ \A i \in 0 .. s.size-1 : u.block[i] = s.block[i]
          /\ u.block[s.size] = e
      BY <1>1, <1>2
    <2> HIDE DEF u
    <2>3. r.stack = u /\ r.err = Ok /\ r.top = Garbage
      BY <2>1 DEF Outcome
    <2> QED BY <2>2, <2>3
  <1>3. CASE s.size = s.capacity
    <2> DEFINE n == s.capacity * Expand
               q == RecallocStack(s, n, ok)
               u == Store(q.stack, e)
    <2>1. n \in Nat \ {0} /\ s.size < n /\ n = 2 * s.capacity
      BY <1>3 DEF Fit, StackT, Expand
    <2>2. r = IF q.err = Ok THEN Outcome(u, Ok, Garbage) ELSE q
      BY <1>3 DEF StackPush, Fit, StackT
    <2> HIDE DEF n
    <2>3. /\ q.top = Garbage
          /\ q.stack.size = s.size
          /\ \/ /\ ok /\ Fit(E, q.stack) /\ q.err = Ok
                /\ q.stack.capacity = n
                /\ \A i \in 0 .. s.size-1 : q.stack.block[i] = s.block[i]
             \/ ~ok /\ Lost(E, q.stack) /\ q.err = "STACK_DATA_REALLOC_ERROR"
      <3>1. q = RecallocStack(s, n, ok)
        OBVIOUS
      <3>2. s.size <= n
        BY <2>1 DEF Fit, StackT
      <3> HIDE DEF q
      <3> QED BY <2>1, <3>1, <3>2, RecallocFit
    <2> HIDE DEF q
    <2>4. CASE ok
      <3>1. /\ Fit(E, u) /\ u.size = s.size + 1 /\ u.capacity = n
            /\ \A i \in 0 .. s.size-1 : u.block[i] = s.block[i]
            /\ u.block[s.size] = e
        BY <1>1, <2>1, <2>3, <2>4
      <3> HIDE DEF u
      <3>2. r.stack = u /\ r.err = Ok /\ r.top = Garbage
        BY <2>2, <2>3, <2>4 DEF Outcome
      <3> QED BY <1>3, <2>1, <3>1, <3>2
    <2>5. CASE ~ok
      BY <2>2, <2>3, <2>5 DEF Ok
    <2> QED BY <2>4, <2>5
  <1> QED BY <1>2, <1>3 DEF Fit, StackT

(***************************************************************************)
(* StackPop on a fit stack that is not empty delivers the top element; the *)
(* others stay, or the block is lost while it shrinks.                     *)
(***************************************************************************)
LEMMA PopFit ==
  ASSUME NEW E, NEW s, Fit(E, s), s.size > 0,
         NEW ok \in BOOLEAN, NEW r, r = StackPop(s, ok)
  PROVE  /\ r.top = s.block[s.size - 1]
         /\ \/ /\ Fit(E, r.stack) /\ r.err = Ok
               /\ r.stack.size = s.size - 1
               /\ \A i \in 0 .. s.size-2 : r.stack.block[i] = s.block[i]
               /\ r.stack.capacity <= s.capacity
            \/ ~ok /\ Lost(E, r.stack) /\ r.err = "STACK_DATA_REALLOC_ERROR"
  <1> DEFINE t == [s EXCEPT !.size = @ - 1]
             q == IF MustShrink(t)
                  THEN RecallocStack(t, s.capacity \div Shrink, ok)
                  ELSE Outcome(t, Ok, Garbage)
  <1>1. r = Outcome(q.stack, q.err, s.block[s.size - 1])
    BY DEF StackPop
  <1>2. /\ t \in StackT(E) /\ t.size = s.size - 1 /\ t.capacity = s.capacity
        /\ t.block = s.block /\ t.status = s.status /\ t.data = s.data
    BY DEF Fit, StackT
  <1> HIDE DEF t
  <1>3. Fit(E, t)
    BY <1>2 DEF Fit, SoundBlock, StackT
  <1>4. /\ q.stack.size = t.size
        /\ \/ /\ Fit(E, q.stack) /\ q.err = Ok /\ q.stack.capacity <= s.capacity
              /\ \A i \in 0 .. t.size-1 : q.stack.block[i] = t.block[i]
           \/ ~ok /\ Lost(E, q.stack) /\ q.err = "STACK_DATA_REALLOC_ERROR"
    <2>1. CASE MustShrink(t)
      <3> DEFINE n == s.capacity \div Shrink
      <3>1. /\ n \in Nat \ {0} /\ t.size <= n /\ n <= s.capacity
        BY <1>2, <2>1 DEF MustShrink, Shrink, Fit, StackT
      <3> HIDE DEF n
      <3>2. q = RecallocStack(t, n, ok)
        BY <2>1 DEF n
      <3> QED BY <1>3, <3>1, <3>2, RecallocFit
    <2>2. CASE ~MustShrink(t)
      <3>1. q.stack = t /\ q.err = Ok
        BY <2>2 DEF Outcome
      <3> QED BY <1>2, <1>3, <3>1 DEF StackT
    <2> QED BY <2>1, <2>2
  <1> HIDE DEF q
  <1>5. r.stack = q.stack /\ r.err = q.err /\ r.top = s.block[s.size - 1]
    BY <1>1 DEF Outcome
  <1> QED BY <1>2, <1>4, <1>5 DEF Fit, StackT

(* What the calls do to a stack that was never constructed. *)
LEMMA CallsOnUnconstructed ==
  ASSUME NEW s, s = UnconstructedStack, NEW e, NEW ok \in BOOLEAN
  PROVE  /\ StackPush(s, e, ok) = Outcome(s, "abort", Garbage)
         /\ StackPop(s, ok) = Outcome(s, "STACK_POP_FROM_EMPTY", Garbage)
  <1>1. s.size = 0 /\ s.capacity = 0
    BY DEF UnconstructedStack
  <1>2. RecallocStack(s, s.capacity * Expand, ok) = Outcome(s, "abort", Garbage)
    BY <1>1 DEF RecallocStack, ReallocStack, Expand, Outcome, Ok
  <1>3. StackPush(s, e, ok) = Outcome(s, "abort", Garbage)
    BY <1>1, <1>2 DEF StackPush, Outcome, Ok
  <1> QED BY <1>1, <1>3 DEF StackPop

LEMMA DtorDestroys ==
  ASSUME NEW s
  PROVE  StackDtor(s) = Outcome(DestroyedStack, Ok, Garbage)
  BY DEF StackDtor, DestroyedStack, Outcome

-----------------------------------------------------------------------------
(* The sequence a stack stands for.                                        *)
LEMMA ContentsOfFit ==
  ASSUME NEW E, NEW s, Fit(E, s)
  PROVE  /\ ContentsOf(s) \in Seq(E)
         /\ Len(ContentsOf(s)) = s.size
         /\ \A i \in 1 .. s.size : ContentsOf(s)[i] = s.block[i-1]
         /\ PhaseOf(s) = "open"
         /\ s.size \in Nat
  <1>1. ContentsOf(s) = [i \in 1 .. s.size |-> s.block[i-1]]
    BY DEF ContentsOf, Fit
  <1>2. \A i \in 1 .. s.size : s.block[i-1] \in E
    BY DEF Fit, SoundBlock, StackT
  <1>3. s.size \in Nat
    BY DEF Fit, StackT
  <1> QED BY <1>1, <1>2, <1>3 DEF PhaseOf, Fit

LEMMA ContentsOfOthers ==
  ASSUME NEW E, NEW s
  PROVE  /\ s = UnconstructedStack => ContentsOf(s) = <<>> /\ PhaseOf(s) = "new"
         /\ Lost(E, s) => ContentsOf(s) = <<>> /\ PhaseOf(s) = "open"
         /\ s = DestroyedStack => ContentsOf(s) = <<>> /\ PhaseOf(s) = "closed"
  <1>1. s = UnconstructedStack => ContentsOf(s) = <<>> /\ PhaseOf(s) = "new"
    BY DEF UnconstructedStack, ContentsOf, PhaseOf
  <1>2. Lost(E, s) => ContentsOf(s) = <<>> /\ PhaseOf(s) = "open"
    BY DEF Lost, ContentsOf, PhaseOf
  <1>3. s = DestroyedStack => ContentsOf(s) = <<>> /\ PhaseOf(s) = "closed"
    BY DEF DestroyedStack, StackDtor, Outcome, ContentsOf, PhaseOf
  <1> QED BY <1>1, <1>2, <1>3

LEMMA Front ==
  ASSUME NEW S, NEW c \in Seq(S), NEW n \in 0 .. Len(c)
  PROVE  /\ SubSeq(c, 1, n) \in Seq(S)
         /\ Len(SubSeq(c, 1, n)) = n
         /\ \A i \in 1 .. n : SubSeq(c, 1, n)[i] = c[i]
  <1>1. n \in Nat /\ n <= Len(c) /\ \A i \in 1 .. n : c[i] \in S
    OBVIOUS
  <1> QED BY <1>1, SubSeqProperties

(* A stack with one more element on top stands for one more element.       *)
LEMMA ContentsGrow ==
  ASSUME NEW E, NEW s, Fit(E, s), NEW t, Fit(E, t), NEW e,
         t.size = s.size + 1,
         \A i \in 0 .. s.size-1 : t.block[i] = s.block[i],
         t.block[s.size] = e
  PROVE  ContentsOf(t) = Append(ContentsOf(s), e)
  <1> DEFINE c == ContentsOf(s)
             d == ContentsOf(t)
  <1>1. /\ c \in Seq(E) /\ d \in Seq(E) /\ Len(c) \in Nat
        /\ Len(c) = s.size /\ Len(d) = Len(c) + 1
    BY ContentsOfFit
  <1>2. ASSUME NEW i \in 1 .. Len(c) PROVE d[i] = c[i]
    <2>1. i-1 \in 0 .. s.size-1 /\ i \in 1 .. t.size
      BY <1>1
    <2>2. c[i] = s.block[i-1] /\ d[i] = t.block[i-1]
      BY <1>1, <2>1, ContentsOfFit
    <2> QED BY <2>1, <2>2
  <1>3. d[Len(c) + 1] = e
    BY <1>1, ContentsOfFit
  <1> HIDE DEF c, d
  <1>4. d = Append(c, e)
    BY <1>1, <1>2, <1>3
  <1> QED BY <1>4 DEF c, d

LEMMA ContentsShrink ==
  ASSUME NEW E, NEW s, Fit(E, s), NEW t, Fit(E, t), s.size > 0,
         t.size = s.size - 1,
         \A i \in 0 .. s.size-2 : t.block[i] = s.block[i]
  PROVE  /\ Len(ContentsOf(s)) = s.size
         /\ ContentsOf(s)[s.size] = s.block[s.size - 1]
         /\ ContentsOf(t) = SubSeq(ContentsOf(s), 1, Len(ContentsOf(s)) - 1)
  <1> DEFINE c == ContentsOf(s)
             d == ContentsOf(t)
  <1>1. /\ c \in Seq(E) /\ d \in Seq(E) /\ Len(c) \in Nat \ {0}
        /\ Len(c) = s.size /\ Len(d) = Len(c) - 1
        /\ c[s.size] = s.block[s.size - 1]
    BY ContentsOfFit
  <1>2. \A i \in 1 .. Len(c) - 1 : d[i] = c[i]
    BY <1>1, ContentsOfFit
  <1> HIDE DEF c, d
  <1>3. d = SubSeq(c, 1, Len(c) - 1)
    BY <1>1, <1>2
  <1> QED BY <1>1, <1>3 DEF c, d

(* What the calls of the machine do to the sequence: either the stack is   *)
(* fit for use, or it was never constructed.                               *)
LEMMA PushContents ==
  ASSUME NEW E, NEW s, s = UnconstructedStack \/ Fit(E, s), NEW e \in E,
         NEW ok \in BOOLEAN, NEW r, r = StackPush(s, e, ok)
  PROVE  \/ /\ Fit(E, s) /\ Fit(E, r.stack) /\ r.err = Ok
            /\ ContentsOf(r.stack) = Append(ContentsOf(s), e)
         \/ /\ Fit(E, s) /\ ~ok /\ Lost(E, r.stack)
            /\ r.err = "STACK_DATA_REALLOC_ERROR"
         \/ s = UnconstructedStack /\ r.stack = s /\ r.err = "abort"
  <1>1. CASE s = UnconstructedStack
    BY <1>1, CallsOnUnconstructed DEF Outcome
  <1>2. CASE Fit(E, s)
    <2>1. \/ /\ Fit(E, r.stack) /\ r.err = Ok
             /\ r.stack.size = s.size + 1
             /\ \A i \in 0 .. s.size-1 : r.stack.block[i] = s.block[i]
             /\ r.stack.block[s.size] = e
          \/ ~ok /\ Lost(E, r.stack) /\ r.err = "STACK_DATA_REALLOC_ERROR"
      BY <1>2, PushFit
    <2>2. CASE ~ok /\ Lost(E, r.stack) /\ r.err = "STACK_DATA_REALLOC_ERROR"
      BY <1>2, <2>2
    <2>3. CASE /\ Fit(E, r.stack) /\ r.err = Ok
               /\ r.stack.size = s.size + 1
               /\ \A i \in 0 .. s.size-1 : r.stack.block[i] = s.block[i]
               /\ r.stack.block[s.size] = e
      BY <1>2, <2>3, ContentsGrow
    <2> QED BY <2>1, <2>2, <2>3
  <1> QED BY <1>1, <1>2

LEMMA PopContents ==
  ASSUME NEW E, NEW s, s = UnconstructedStack \/ Fit(E, s),
         NEW ok \in BOOLEAN, NEW r, r = StackPop(s, ok)
  PROVE  LET c == ContentsOf(s)
         IN  \/ /\ Fit(E, s) /\ c \in Seq(E) /\ Len(c) > 0
                /\ r.top = c[Len(c)] /\ r.top \in E
                /\ \/ /\ Fit(E, r.stack) /\ r.err = Ok
                      /\ ContentsOf(r.stack) = SubSeq(c, 1, Len(c) - 1)
                   \/ ~ok /\ Lost(E, r.stack) /\ r.err = "STACK_DATA_REALLOC_ERROR"
             \/ /\ c = <<>> /\ r.stack = s
                /\ r.err = "STACK_POP_FROM_EMPTY" /\ r.top = Garbage
  <1> DEFINE c == ContentsOf(s)
  <1>1. CASE s = UnconstructedStack
    <2>1. r = Outcome(s, "STACK_POP_FROM_EMPTY", Garbage)
      BY <1>1, CallsOnUnconstructed
    <2> QED BY <1>1, <2>1, ContentsOfOthers DEF Outcome
  <1>2. CASE Fit(E, s) /\ s.size = 0
    <2>1. r = Outcome(s, "STACK_POP_FROM_EMPTY", Garbage)
      BY <1>2 DEF StackPop
    <2>2. c \in Seq(E) /\ Len(c) = 0
      BY <1>2, ContentsOfFit
    <2> HIDE DEF c
    <2>3. c = <<>>
      BY <2>2
    <2> QED BY <2>1, <2>3 DEF Outcome, c
  <1>3. CASE Fit(E, s) /\ s.size > 0
    <2>1. /\ r.top = s.block[s.size - 1]
          /\ \/ /\ Fit(E, r.stack) /\ r.err = Ok
                /\ r.stack.size = s.size - 1
                /\ \A i \in 0 .. s.size-2 : r.stack.block[i] = s.block[i]
             \/ ~ok /\ Lost(E, r.stack) /\ r.err = "STACK_DATA_REALLOC_ERROR"
      BY <1>3, PopFit
    <2>2. /\ c \in Seq(E) /\ Len(c) = s.size /\ s.size \in Nat
          /\ c[s.size] = s.block[s.size - 1]
      BY <1>3, ContentsOfFit
    <2>3. c[s.size] \in E
      BY <1>3, <2>2 
    <2>4. /\ Fit(E, r.stack)
          /\ r.stack.size = s.size - 1
          /\ \A i \in 0 .. s.size-2 : r.stack.block[i] = s.block[i]
          => ContentsOf(r.stack) = SubSeq(c, 1, Len(c) - 1)
      BY <1>3, ContentsShrink
    <2> HIDE DEF c
    <2>5. /\ Len(c) > 0 /\ r.top = c[Len(c)] /\ r.top \in E
      BY <1>3, <2>1, <2>2, <2>3
    <2> QED BY <1>3, <2>1, <2>2, <2>4, <2>5 DEF c
  <1>4. Fit(E, s) => s.size = 0 \/ s.size > 0
    BY DEF Fit, StackT
  <1> QED BY <1>1, <1>2, <1>3, <1>4
=============================================================================
