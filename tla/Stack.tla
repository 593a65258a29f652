------------------------------- MODULE Stack --------------------------------
(***************************************************************************)
(* The operand stack as the machine uses it: executeCode constructs it     *)
(* with CRT, pushes and pops, and destroys it with HLT, in any order a     *)
(* program likes; the first call that returns an error is the last one     *)
(* (IS_CPU_ERROR_ returns from executeCode), and so is StackDtor, after    *)
(* which HLT ends the loop.                                                *)
(***************************************************************************)
EXTENDS StackOps, Sequences

CONSTANTS
  Elem,       (* the values of stackData_t that are pushed                  *)
  Capacity,   (* the capacity CRT asks for, 10 in Commands.h                *)
  MaxSize     (* bound: no push on a stack of this many elements            *)

ASSUME CapacityAssumption == Capacity \in Nat \ {0}
ASSUME MaxSizeAssumption == MaxSize \in Nat
ASSUME GarbageAssumption == Garbage \notin Elem

VARIABLES stack,   (* the stack_t                                            *)
          error,   (* the code the last call returned                        *)
          top      (* what the last call stored through `top', if anything   *)

vars == <<stack, error, top>>

Init ==
  /\ stack = UnconstructedStack
  /\ error = Ok
  /\ top = <<>>

Usable == error = Ok /\ stack.status # "STACK_DESTROYED"

(* A call is over: the stack, the error and the stored value are those of r. *)
Return(r) ==
  /\ stack' = r.stack
  /\ error' = r.err
  /\ top' = IF r.top = Garbage THEN <<>> ELSE <<r.top>>

Ctor ==
  /\ Usable
  /\ \E ok \in AllocOutcomes : Return(StackCtor(stack, Capacity, ok))

Push(e) ==
  /\ Usable
  /\ stack.size < MaxSize
  /\ \E ok \in AllocOutcomes : Return(StackPush(stack, e, ok))

Pop ==
  /\ Usable
  /\ \E ok \in AllocOutcomes : Return(StackPop(stack, ok))

Dtor ==
  /\ Usable
  /\ Return(StackDtor(stack))

Next == Ctor \/ (\E e \in Elem : Push(e)) \/ Pop \/ Dtor

Spec == Init /\ [][Next]_vars

-----------------------------------------------------------------------------
(***************************************************************************)
(* Type invariant: the record always has the shape of a stack_t whose data *)
(* is one of the pointers the code can leave there.                        *)
(***************************************************************************)
TypeOK ==
  /\ stack.status \in Status
  /\ stack.data \in Data
  /\ stack.capacity \in Nat
  /\ stack.size \in Nat
  /\ error \in ErrorCode
  /\ stack.data = "live" => stack.block \in [-1 .. stack.capacity -> Cell(Elem)]

(***************************************************************************)
(* Through every sequence of expansions and shrinks the elements stay      *)
(* inside the block, no store reaches a canary, and no slot below the top  *)
(* holds a canary, the filler or an indeterminate value (the shrink of     *)
(* StackPop must never be one element too deep).                           *)
(***************************************************************************)
BlockIntact ==
  stack.data = "live" =>
    /\ stack.size <= stack.capacity
    /\ stack.block[-1] = LeftCanary
    /\ stack.block[stack.capacity] = RightCanary
    /\ \A i \in 0 .. stack.size - 1 : stack.block[i] \in Elem

(***************************************************************************)
(* The assertion newCapacity > 0 of ReallocStack can fail only on a stack  *)
(* that was never constructed: repeated shrinking of a constructed one     *)
(* never brings its capacity to 0, from which 0 * Expand could not grow.   *)
(***************************************************************************)
AbortOnlyUnconstructed ==
  error = "abort" => stack.status = "STACK_NOT_CONSTRUCTED"

(***************************************************************************)
(* A stack that has just been expanded is not shrunk by the pop that       *)
(* follows: a program that pushes and pops around the limit does not       *)
(* reallocate the block at every step.                                     *)
(***************************************************************************)
Grew == stack.data = "live" /\ stack'.data = "live"
        /\ stack'.capacity > stack.capacity

NoThrashing ==
  [][Grew => ~MustShrink([stack' EXCEPT !.size = @ - 1])]_vars

(***************************************************************************)
(* The stack is a last-in-first-out sequence: its live elements are the    *)
(* abstract contents, and a failed reallocation is all that loses them.    *)
(***************************************************************************)
Abstract == INSTANCE AbstractStack
              WITH phase <- PhaseOf(stack), contents <- ContentsOf(stack),
                   MayFail <- (FALSE \in AllocOutcomes)

ImplementsAbstractStack == Abstract!Spec
=============================================================================
