---------------------------- MODULE StackProofs -----------------------------
(***************************************************************************)
(* Proofs about the operand stack, for every element set, every capacity   *)
(* CRT may ask for and every behaviour of the allocator.  The lemmas say   *)
(* what one call of Stack.cpp does to a stack that is fit for use; the     *)
(* invariant says that the stack of the machine is fit for use as long as  *)
(* no call has failed.                                                     *)
(***************************************************************************)
EXTENDS Stack, StackOpsProofs

-----------------------------------------------------------------------------
(***************************************************************************)
(* The inductive invariant: the stack of the machine is untouched, fit for *)
(* use, lost to a failed realloc that was reported, or destroyed.  The     *)
(* safety invariants follow from it, and none of them is inductive alone:  *)
(* that no store leaves the block, for one, needs the capacity to be       *)
(* positive and the status to say whether there is a block.                *)
(***************************************************************************)
StackInv ==
  /\ error \in ErrorCode
  /\ \/ stack = UnconstructedStack
     \/ Fit(Elem, stack) /\ error # "abort"
     \/ Lost(Elem, stack) /\ error = "STACK_DATA_REALLOC_ERROR"
     \/ stack = DestroyedStack /\ error # "abort"

(* A call made by the machine finds the stack untouched or fit. *)
LEMMA UsableStack ==
  ASSUME StackInv, Usable
  PROVE  error = Ok /\ (stack = UnconstructedStack \/ Fit(Elem, stack))
  BY DEF StackInv, Usable, Ok, StackDtor, Outcome, DestroyedStack

(***************************************************************************)
(* One operation of the machine, in the terms of the lemmas above: what    *)
(* each of the four calls does to a stack that satisfies the invariant.    *)
(***************************************************************************)
LEMMA CtorStep ==
  ASSUME StackInv, Ctor
  PROVE  /\ top' = <<>>
         /\ \/ /\ stack = UnconstructedStack
               /\ \/ Fit(Elem, stack') /\ stack'.size = 0 /\ error' = Ok
                  \/ /\ FALSE \in AllocOutcomes /\ stack' = stack
                     /\ error' = "STACK_DATA_CALLOC_ERROR"
            \/ /\ Fit(Elem, stack) /\ stack' = stack
               /\ error' = "STACK_ALREADY_CONSTRUCTED"
  <1>1. PICK ok \in AllocOutcomes : Return(StackCtor(stack, Capacity, ok))
    BY DEF Ctor
  <1>2. ok \in BOOLEAN
    BY AllocAssumption
  <1> DEFINE r == StackCtor(stack, Capacity, ok)
  <1>3. CASE stack = UnconstructedStack
    <2>1. /\ r.top = Garbage
          /\ \/ ok /\ Fit(Elem, r.stack) /\ r.stack.size = 0 /\ r.err = Ok
             \/ ~ok /\ r.stack = stack /\ r.err = "STACK_DATA_CALLOC_ERROR"
      <3>1. r.top = Garbage
        BY DEF StackCtor, Outcome
      <3> QED BY <1>2, <1>3, <3>1, CtorFit, CapacityAssumption
    <2> HIDE DEF r
    <2>2. /\ stack' = r.stack /\ error' = r.err /\ top' = <<>>
      BY <1>1, <2>1 DEF Return, r
    <2>3. ~ok => FALSE \in AllocOutcomes
      BY <1>2
    <2> QED BY <1>2, <1>3, <2>1, <2>2, <2>3
  <1>4. CASE Fit(Elem, stack)
    <2>1. r = Outcome(stack, "STACK_ALREADY_CONSTRUCTED", Garbage)
      BY <1>4 DEF Fit, StackCtor
    <2> HIDE DEF r
    <2>2. r.stack = stack /\ r.err = "STACK_ALREADY_CONSTRUCTED" /\ r.top = Garbage
      BY <2>1 DEF Outcome
    <2> QED BY <1>1, <1>4, <2>2 DEF Return, r
  <1> QED BY <1>3, <1>4, UsableStack DEF Ctor

LEMMA PushStep ==
  ASSUME StackInv, NEW e \in Elem, Push(e)
  PROVE  /\ top' = <<>>
         /\ \/ /\ Fit(Elem, stack)
               /\ \/ /\ Fit(Elem, stack') /\ error' = Ok
                     /\ stack'.size = stack.size + 1
                     /\ \A i \in 0 .. stack.size-1 :
                           stack'.block[i] = stack.block[i]
                     /\ stack'.block[stack.size] = e
                     /\ \/ stack'.capacity = stack.capacity
                        \/ /\ stack.size = stack.capacity
                           /\ stack'.capacity = 2 * stack.capacity
                  \/ /\ FALSE \in AllocOutcomes /\ Lost(Elem, stack')
                     /\ error' = "STACK_DATA_REALLOC_ERROR"
            \/ stack = UnconstructedStack /\ stack' = stack /\ error' = "abort"
  <1>1. PICK ok \in AllocOutcomes : Return(StackPush(stack, e, ok))
    BY DEF Push
  <1>2. ok \in BOOLEAN /\ (~ok => FALSE \in AllocOutcomes)
    BY AllocAssumption
  <1> DEFINE r == StackPush(stack, e, ok)
  <1>3. CASE stack = UnconstructedStack
    <2>1. r = Outcome(stack, "abort", Garbage)
      BY <1>2, <1>3, CallsOnUnconstructed
    <2> QED BY <1>1, <1>3, <2>1 DEF Return, Outcome
  <1>4. CASE Fit(Elem, stack)
    <2>1. /\ r.top = Garbage
          /\ \/ /\ Fit(Elem, r.stack) /\ r.err = Ok
                /\ r.stack.size = stack.size + 1
                /\ \A i \in 0 .. stack.size-1 :
                      r.stack.block[i] = stack.block[i]
                /\ r.stack.block[stack.size] = e
                /\ \/ r.stack.capacity = stack.capacity
                   \/ /\ stack.size = stack.capacity
                      /\ r.stack.capacity = 2 * stack.capacity
             \/ ~ok /\ Lost(Elem, r.stack) /\ r.err = "STACK_DATA_REALLOC_ERROR"
      BY <1>2, <1>4, PushFit
    <2>2. Return(r)
      BY <1>1
    <2> HIDE DEF r
    <2>3. stack' = r.stack /\ error' = r.err /\ top' = <<>>
      BY <2>1, <2>2 DEF Return
    <2> QED BY <1>2, <1>4, <2>1, <2>3
  <1> QED BY <1>3, <1>4, UsableStack DEF Push

LEMMA PopStep ==
  ASSUME StackInv, Pop
  PROVE  \/ /\ Fit(Elem, stack) /\ stack.size > 0
            /\ top' = <<stack.block[stack.size - 1]>>
            /\ \/ /\ Fit(Elem, stack') /\ error' = Ok
                  /\ stack'.size = stack.size - 1
                  /\ \A i \in 0 .. stack.size-2 :
                        stack'.block[i] = stack.block[i]
                  /\ stack'.capacity <= stack.capacity
               \/ /\ FALSE \in AllocOutcomes /\ Lost(Elem, stack')
                  /\ error' = "STACK_DATA_REALLOC_ERROR"
         \/ /\ stack = UnconstructedStack \/ (Fit(Elem, stack) /\ stack.size = 0)
            /\ stack' = stack /\ error' = "STACK_POP_FROM_EMPTY" /\ top' = <<>>
  <1>1. PICK ok \in AllocOutcomes : Return(StackPop(stack, ok))
    BY DEF Pop
  <1>2. ok \in BOOLEAN /\ (~ok => FALSE \in AllocOutcomes)
    BY AllocAssumption
  <1> DEFINE r == StackPop(stack, ok)
  <1>3. CASE stack = UnconstructedStack \/ (Fit(Elem, stack) /\ stack.size = 0)
    <2>1. r = Outcome(stack, "STACK_POP_FROM_EMPTY", Garbage)
      BY <1>2, <1>3, CallsOnUnconstructed DEF StackPop
    <2> QED BY <1>1, <1>3, <2>1 DEF Return, Outcome
  <1>4. CASE Fit(Elem, stack) /\ stack.size > 0
    <2>1. /\ r.top = stack.block[stack.size - 1]
          /\ \/ /\ Fit(Elem, r.stack) /\ r.err = Ok
                /\ r.stack.size = stack.size - 1
                /\ \A i \in 0 .. stack.size-2 :
                      r.stack.block[i] = stack.block[i]
                /\ r.stack.capacity <= stack.capacity
             \/ ~ok /\ Lost(Elem, r.stack) /\ r.err = "STACK_DATA_REALLOC_ERROR"
      BY <1>2, <1>4, PopFit
    <2>2. Return(r)
      BY <1>1
    <2> HIDE DEF r
    <2>3. r.top # Garbage
      <3>1. stack.size - 1 \in 0 .. stack.size - 1
        BY <1>4 DEF Fit, StackT
      <3> QED BY <1>4, <2>1, <3>1, GarbageAssumption DEF Fit, SoundBlock
    <2>4. stack' = r.stack /\ error' = r.err /\ top' = <<r.top>>
      BY <2>2, <2>3 DEF Return
    <2> QED BY <1>2, <1>4, <2>1, <2>4
  <1>5. Fit(Elem, stack) => stack.size = 0 \/ stack.size > 0
    BY DEF Fit, StackT
  <1>6. Usable
    BY DEF Pop
  <1>7. stack = UnconstructedStack \/ Fit(Elem, stack)
    BY <1>6, UsableStack
  <1> QED BY <1>3, <1>4, <1>5, <1>7

LEMMA DtorStep ==
  ASSUME Dtor
  PROVE  stack' = DestroyedStack /\ error' = Ok /\ top' = <<>>
  BY DEF Dtor, Return, StackDtor, Outcome, DestroyedStack

-----------------------------------------------------------------------------
(* The initial state, every call and a stutter satisfy the invariant. *)
LEMMA StackInvInit == Init => StackInv
  BY DEF Init, StackInv, ErrorCode, Ok

LEMMA StackInvNext == StackInv /\ [Next]_vars => StackInv'
  <1> SUFFICES ASSUME StackInv, [Next]_vars PROVE StackInv'
    OBVIOUS
  <1>1. CASE Ctor
    BY <1>1, CtorStep DEF StackInv, ErrorCode, Ok
  <1>2. ASSUME NEW e \in Elem, Push(e) PROVE StackInv'
    BY <1>2, PushStep DEF StackInv, ErrorCode, Ok
  <1>3. CASE Pop
    BY <1>3, PopStep DEF StackInv, ErrorCode, Ok
  <1>4. CASE Dtor
    <2>1. DestroyedStack' = DestroyedStack
      BY DEF DestroyedStack, StackDtor, Outcome
    <2> QED BY <1>4, <2>1, DtorStep DEF StackInv, ErrorCode, Ok
  <1>5. CASE UNCHANGED vars
    BY <1>5 DEF vars, StackInv, DestroyedStack, StackDtor, Outcome
  <1> QED BY <1>1, <1>2, <1>3, <1>4, <1>5 DEF Next

(* The stack of the machine satisfies the invariant in every state. *)
THEOREM StackInvariant == Spec => []StackInv
  BY StackInvInit, StackInvNext, PTL DEF Spec

(***************************************************************************)
(* Type correctness, for every capacity and every allocator.               *)
(***************************************************************************)
THEOREM TypeCorrect == Spec => []TypeOK
  <1>1. StackInv => TypeOK
    <2>1. ASSUME StackInv, stack = UnconstructedStack PROVE TypeOK
      BY <2>1 DEF StackInv, UnconstructedStack, TypeOK, Status, Data
    <2>2. ASSUME StackInv, Fit(Elem, stack) PROVE TypeOK
      BY <2>2 DEF StackInv, Fit, SoundBlock, StackT, TypeOK
    <2>3. ASSUME StackInv, Lost(Elem, stack) PROVE TypeOK
      BY <2>3 DEF StackInv, Lost, StackT, TypeOK
    <2>4. ASSUME StackInv, stack = DestroyedStack PROVE TypeOK
      BY <2>4 DEF StackInv, DestroyedStack, StackDtor, Outcome, TypeOK, Status, Data
    <2> QED BY <2>1, <2>2, <2>3, <2>4 DEF StackInv
  <1> QED BY <1>1, StackInvariant, PTL

(***************************************************************************)
(* No store of StackPush, ReallocStack or RecallocStack falls on a canary  *)
(* or on an element, whatever the program pushes and pops.                 *)
(***************************************************************************)
THEOREM BlockStaysIntact == Spec => []BlockIntact
  <1>1. StackInv => BlockIntact
    BY DEF StackInv, BlockIntact, Fit, SoundBlock, Lost, UnconstructedStack,
           DestroyedStack, StackDtor, Outcome
  <1> QED BY <1>1, StackInvariant, PTL

(***************************************************************************)
(* The assertion newCapacity > 0 of ReallocStack never fails on a stack    *)
(* that was constructed.                                                   *)
(***************************************************************************)
THEOREM AssertionHolds == Spec => []AbortOnlyUnconstructed
  <1>1. StackInv => AbortOnlyUnconstructed
    BY DEF StackInv, AbortOnlyUnconstructed, UnconstructedStack
  <1> QED BY <1>1, StackInvariant, PTL

(***************************************************************************)
(* The pop after an expansion does not shrink the block: the factors 2 and *)
(* 3 are far enough apart for every capacity.                              *)
(***************************************************************************)
THEOREM ExpansionIsKept == Spec => NoThrashing
  <1> DEFINE Kept == Grew => ~MustShrink([stack' EXCEPT !.size = @ - 1])
  <1>1. ASSUME StackInv, [Next]_vars PROVE [Kept]_vars
    <2>1. CASE Ctor
      <3>1. stack.data # "live" \/ (Fit(Elem, stack) /\ stack' = stack)
        <4>1. stack = UnconstructedStack => stack.data # "live"
          BY DEF UnconstructedStack
        <4> QED BY <1>1, <2>1, <4>1, CtorStep
      <3>2. ~Grew
        BY <3>1 DEF Grew, Fit, StackT
      <3> QED BY <3>2
    <2>2. ASSUME NEW e \in Elem, Push(e) PROVE Kept
      <3>1. SUFFICES ASSUME Grew
                     PROVE ~MustShrink([stack' EXCEPT !.size = @ - 1])
        OBVIOUS
      <3>2. /\ Fit(Elem, stack) /\ Fit(Elem, stack') /\ stack.size = stack.capacity
            /\ stack'.capacity = 2 * stack.capacity
            /\ stack'.size = stack.size + 1
        BY <1>1, <2>2, <3>1, PushStep
        DEF Grew, Lost, UnconstructedStack, Fit, StackT
      <3> DEFINE t == [stack' EXCEPT !.size = @ - 1]
      <3>3. /\ stack.capacity \in Nat \ {0}
            /\ t.size = stack.capacity /\ t.capacity = 2 * stack.capacity
        BY <3>2 DEF Fit, StackT
      <3> HIDE DEF t
      <3>4. ~MustShrink(t)
        BY <3>3 DEF MustShrink, Shrink
      <3> QED BY <3>4 DEF t
    <2>3. CASE Pop
      <3>1. \/ Fit(Elem, stack) /\ Fit(Elem, stack') /\ stack'.capacity <= stack.capacity
            \/ Lost(Elem, stack')
            \/ stack' = stack
        BY <1>1, <2>3, PopStep
      <3>2. Lost(Elem, stack') => stack'.data # "live"
        BY DEF Lost
      <3>3. /\ Fit(Elem, stack) => stack.capacity \in Nat
            /\ Fit(Elem, stack') => stack'.capacity \in Nat
        BY DEF Fit, StackT
      <3>4. stack' = stack => ~(stack'.capacity > stack.capacity)
        <4>1. stack = UnconstructedStack \/ Fit(Elem, stack)
          BY <1>1, <2>3, UsableStack DEF Pop
        <4> QED BY <3>3, <4>1 DEF UnconstructedStack
      <3>5. ~Grew
        BY <3>1, <3>2, <3>3, <3>4 DEF Grew
      <3> QED BY <3>5
    <2>4. CASE Dtor
      BY <2>4, DtorStep DEF Grew, DestroyedStack, StackDtor, Outcome
    <2>5. CASE Next
      BY <2>1, <2>2, <2>3, <2>4, <2>5 DEF Next
    <2> QED BY <1>1, <2>5
  <1> QED BY <1>1, StackInvariant, PTL DEF Spec, NoThrashing

-----------------------------------------------------------------------------
(***************************************************************************)
(* Stack implements AbstractStack: under Phase and Contents every call is  *)
(* a call of the last-in-first-out sequence.                               *)
(***************************************************************************)
LEMMA InitRefines == Init => Abstract!Init
  BY ContentsOfOthers DEF Init, Abstract!Init, Ok, Abstract!Ok

LEMMA CtorRefines ==
  ASSUME StackInv, Ctor
  PROVE  Abstract!Create
  <1>1. Abstract!Usable /\ top' = <<>>
    BY CtorStep, UsableStack, ContentsOfOthers, ContentsOfFit
    DEF Ctor, Abstract!Usable, Abstract!Ok, Ok
  <1>2. CASE stack = UnconstructedStack /\ Fit(Elem, stack') /\ stack'.size = 0 /\ error' = Ok
    <2>1. ContentsOf(stack') = <<>>
      BY <1>2, ContentsOfFit
    <2>2. PhaseOf(stack) = "new" /\ ContentsOf(stack) = <<>> /\ error = Ok
      BY <1>2, ContentsOfOthers, UsableStack DEF Ctor
    <2>3. PhaseOf(stack') = "open"
      BY <1>2, ContentsOfFit
    <2> QED BY <1>1, <1>2, <2>1, <2>2, <2>3 DEF Abstract!Create
  <1>3. CASE /\ stack = UnconstructedStack /\ stack' = stack
             /\ FALSE \in AllocOutcomes /\ error' = "STACK_DATA_CALLOC_ERROR"
    BY <1>1, <1>3, ContentsOfOthers DEF Abstract!Create
  <1>4. CASE Fit(Elem, stack) /\ stack' = stack /\ error' = "STACK_ALREADY_CONSTRUCTED"
    BY <1>1, <1>4, ContentsOfFit DEF Abstract!Create
  <1> QED BY <1>2, <1>3, <1>4, CtorStep

LEMMA PushRefines ==
  ASSUME StackInv, NEW e \in Elem, Push(e)
  PROVE  Abstract!Push(e)
  <1>1. Usable /\ stack.size < MaxSize
    BY DEF Push
  <1>2. error = Ok /\ (stack = UnconstructedStack \/ Fit(Elem, stack))
    BY <1>1, UsableStack
  <1>3. Abstract!Usable /\ top' = <<>>
    BY <1>2, PushStep, ContentsOfOthers, ContentsOfFit
    DEF Abstract!Usable, Abstract!Ok, Ok
  <1>4. CASE stack = UnconstructedStack /\ stack' = stack /\ error' = "abort"
    BY <1>3, <1>4, ContentsOfOthers DEF Abstract!Push
  <1>5. CASE /\ Fit(Elem, stack) /\ Fit(Elem, stack') /\ error' = Ok
             /\ stack'.size = stack.size + 1
             /\ \A i \in 0 .. stack.size-1 : stack'.block[i] = stack.block[i]
             /\ stack'.block[stack.size] = e
    <2>1. ContentsOf(stack') = Append(ContentsOf(stack), e)
      BY <1>5, ContentsGrow
    <2>2. /\ PhaseOf(stack) = "open" /\ PhaseOf(stack') = "open"
          /\ Len(ContentsOf(stack)) = stack.size
      BY <1>5, ContentsOfFit
    <2> QED BY <1>1, <1>2, <1>3, <1>5, <2>1, <2>2 DEF Abstract!Push
  <1>6. CASE /\ Fit(Elem, stack) /\ Lost(Elem, stack') /\ FALSE \in AllocOutcomes
             /\ error' = "STACK_DATA_REALLOC_ERROR"
    BY <1>1, <1>3, <1>6, ContentsOfFit, ContentsOfOthers DEF Abstract!Push
  <1> QED BY <1>4, <1>5, <1>6, PushStep

LEMMA PopRefines ==
  ASSUME StackInv, Pop
  PROVE  Abstract!Pop
  <1>1. Usable
    BY DEF Pop
  <1>2. error = Ok /\ (stack = UnconstructedStack \/ Fit(Elem, stack))
    BY <1>1, UsableStack
  <1>3. Abstract!Usable
    BY <1>2, ContentsOfOthers, ContentsOfFit DEF Abstract!Usable, Abstract!Ok, Ok
  <1>4. CASE /\ stack = UnconstructedStack \/ (Fit(Elem, stack) /\ stack.size = 0)
             /\ stack' = stack /\ error' = "STACK_POP_FROM_EMPTY" /\ top' = <<>>
    <2>1. ContentsOf(stack) = <<>>
      BY <1>4, ContentsOfOthers, ContentsOfFit
    <2> QED BY <1>3, <1>4, <2>1 DEF Abstract!Pop
  <1>5. CASE Fit(Elem, stack) /\ stack.size > 0
    <2> DEFINE c == ContentsOf(stack)
               d == ContentsOf(stack')
    <2>1. /\ c \in Seq(Elem) /\ Len(c) \in Nat \ {0} /\ Len(c) = stack.size
          /\ c[Len(c)] = stack.block[stack.size - 1]
          /\ PhaseOf(stack) = "open"
      BY <1>5, ContentsOfFit
    <2>2. c # <<>>
      BY <2>1
    <2>3. /\ top' = <<stack.block[stack.size - 1]>>
          /\ \/ /\ Fit(Elem, stack') /\ error' = Ok /\ stack'.size = stack.size - 1
                /\ \A i \in 0 .. stack.size-2 : stack'.block[i] = stack.block[i]
             \/ /\ FALSE \in AllocOutcomes /\ Lost(Elem, stack')
                /\ error' = "STACK_DATA_REALLOC_ERROR"
      <3>1. stack # UnconstructedStack /\ stack.size # 0
        BY <1>5 DEF Fit, StackT, UnconstructedStack
      <3> QED BY <1>1, <3>1, PopStep
    <2>4. CASE /\ Fit(Elem, stack') /\ error' = Ok /\ stack'.size = stack.size - 1
               /\ \A i \in 0 .. stack.size-2 : stack'.block[i] = stack.block[i]
      <3>1. PhaseOf(stack') = "open"
        BY <2>4, ContentsOfFit
      <3>2. d = SubSeq(c, 1, Len(c) - 1)
        BY <1>5, <2>4, ContentsShrink
      <3>3. top' = <<c[Len(c)]>> /\ error' = error
        BY <1>2, <2>1, <2>3, <2>4
      <3> QED BY <1>3, <2>1, <2>2, <3>1, <3>2, <3>3 DEF Abstract!Pop
    <2>5. CASE /\ FALSE \in AllocOutcomes /\ Lost(Elem, stack')
               /\ error' = "STACK_DATA_REALLOC_ERROR"
      BY <1>3, <2>1, <2>2, <2>3, <2>5, ContentsOfOthers DEF Abstract!Pop
    <2> QED BY <2>3, <2>4, <2>5
  <1> QED BY <1>4, <1>5, PopStep

LEMMA DtorRefines ==
  ASSUME StackInv, Dtor
  PROVE  Abstract!Close
  <1>1. error = Ok /\ (stack = UnconstructedStack \/ Fit(Elem, stack))
    BY UsableStack DEF Dtor
  <1>2. Abstract!Usable
    BY <1>1, ContentsOfOthers, ContentsOfFit DEF Abstract!Usable, Abstract!Ok, Ok
  <1>3. stack' = DestroyedStack /\ error' = error /\ top' = <<>>
    BY <1>1, DtorStep
  <1> QED BY <1>2, <1>3, ContentsOfOthers DEF Abstract!Close

(***************************************************************************)
(* The refinement: the stack of Stack.cpp is a last-in-first-out sequence, *)
(* and only a failed reallocation loses its elements.                      *)
(***************************************************************************)
THEOREM StackRefinement == Spec => ImplementsAbstractStack
  <1>1. ASSUME StackInv, [Next]_vars PROVE [Abstract!Next]_(Abstract!vars)
    <2>1. CASE Ctor
      BY <1>1, <2>1, CtorRefines DEF Abstract!Next
    <2>2. ASSUME NEW e \in Elem, Push(e) PROVE Abstract!Next
      BY <1>1, <2>2, PushRefines DEF Abstract!Next
    <2>3. CASE Pop
      BY <1>1, <2>3, PopRefines DEF Abstract!Next
    <2>4. CASE Dtor
      BY <1>1, <2>4, DtorRefines DEF Abstract!Next
    <2>5. CASE UNCHANGED vars
      BY <2>5 DEF vars, Abstract!vars
    <2> QED BY <1>1, <2>1, <2>2, <2>3, <2>4, <2>5 DEF Next
  <1> QED BY <1>1, InitRefines, StackInvariant, PTL
      DEF Spec, ImplementsAbstractStack, Abstract!Spec
=============================================================================
