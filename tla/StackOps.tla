------------------------------ MODULE StackOps ------------------------------
(***************************************************************************)
(* The operand stack of the virtual machine, CPU/CPU/Stack.cpp, as         *)
(* operators on one record.  Every operator is a whole function of the     *)
(* source: it returns the stack it leaves behind, the StackErrorCode it    *)
(* returns and the value it stores through its `top' parameter.            *)
(*                                                                         *)
(* stack_t.data points to a block laid out as                              *)
(*        left canary | capacity elements | right canary                   *)
(* which is the function `block' on -1 .. capacity: element i is cell i,   *)
(* the left canary is cell -1 and the right canary is cell `capacity'      *)
(* (each canary is eight bytes wide; one cell stands for it).              *)
(***************************************************************************)
EXTENDS Integers

CONSTANTS
  LeftCanary,      (* DATA_LEFT_CANARY                                      *)
  RightCanary,     (* DATA_RIGHT_CANARY                                     *)
  RecallocValue,   (* RECALLOC_VALUE, written to the unused slots           *)
  Garbage,         (* an indeterminate cell, or a `top' never stored        *)
  AllocOutcomes    (* what calloc and realloc may do: TRUE is success       *)

ASSUME AllocAssumption == AllocOutcomes \in SUBSET BOOLEAN

(* Variant: an expansion by more than the shrink takes back.               *)
ExpandMore == 4

(* STACK_MEMORY_EXPAND and STACK_MEMORY_SHRINK. *)
Expand == 2
Shrink == 3

(* What a cell of the block may hold when the elements pushed are those of *)
(* E: calloc leaves the slots 0.                                           *)
Cell(E) == E \cup {0, LeftCanary, RightCanary, RecallocValue, Garbage}

Status == {"STACK_NOT_CONSTRUCTED", "STACK_CONSTRUCTED", "STACK_DESTROYED"}

(***************************************************************************)
(* What stack->data is: nullptr, a live block, a pointer to a block that   *)
(* was freed, such a pointer after a store through it (the heap is then    *)
(* corrupted), or ERR_PTR.                                                 *)
(***************************************************************************)
Data == {"null", "live", "dangling", "corrupted", "ERR_PTR"}

(* "abort" is the failed assertion of ReallocStack, which ends the process. *)
ErrorCode ==
  {"STACK_NO_ERROR", "STACK_ALREADY_CONSTRUCTED", "STACK_POP_FROM_EMPTY",
   "STACK_DATA_CALLOC_ERROR", "STACK_DATA_REALLOC_ERROR", "abort"}

Ok == "STACK_NO_ERROR"

NoBlock == [i \in {} |-> Garbage]

(* A zero-initialised stack_t, as it stands in CPU_t. *)
UnconstructedStack ==
  [status |-> "STACK_NOT_CONSTRUCTED", data |-> "null",
   capacity |-> 0, size |-> 0, block |-> NoBlock]

Outcome(s, e, t) == [stack |-> s, err |-> e, top |-> t]

(* The canaries stand at both ends of a block of the given capacity. *)
WithCanaries(b, capacity) ==
  [i \in -1 .. capacity |-> CASE i = -1       -> LeftCanary
                              [] i = capacity -> RightCanary
                              [] OTHER        -> b[i]]

(***************************************************************************)
(* The allocating functions.  `ok' says whether the allocator gives the    *)
(* block asked for.                                                        *)
(***************************************************************************)
StackCtor(s, capacity, ok) ==
  IF s.status # "STACK_NOT_CONSTRUCTED"
  THEN Outcome(s, "STACK_ALREADY_CONSTRUCTED", Garbage)
  ELSE IF ~ok
  THEN Outcome(s, "STACK_DATA_CALLOC_ERROR", Garbage)
  ELSE Outcome([status   |-> "STACK_CONSTRUCTED", data |-> "live",
                capacity |-> capacity, size |-> 0,
                block    |-> WithCanaries([i \in 0 .. capacity-1 |-> 0], capacity)],
               Ok, Garbage)

(* Variant: the new capacity is not recorded.                              *)
ReallocKeepsCapacity(s, newCapacity, ok) ==
  IF newCapacity <= 0
  THEN Outcome(s, "abort", Garbage)
  ELSE IF ~ok
  THEN Outcome([s EXCEPT !.data = "dangling", !.block = NoBlock],
               "STACK_DATA_REALLOC_ERROR", Garbage)
  ELSE LET kept == [i \in 0 .. newCapacity-1 |->
                      IF i <= s.capacity THEN s.block[i] ELSE Garbage]
       IN  Outcome([s EXCEPT !.block = WithCanaries(kept, newCapacity)], Ok, Garbage)

(* realloc keeps the cells both blocks have, the old right canary included. *)
ReallocStack(s, newCapacity, ok) ==
  IF newCapacity <= 0
  THEN Outcome(s, "abort", Garbage)
  ELSE IF ~ok
  THEN Outcome([s EXCEPT !.data = "dangling", !.block = NoBlock],
               "STACK_DATA_REALLOC_ERROR", Garbage)
  ELSE LET kept == [i \in 0 .. newCapacity-1 |->
                      IF i <= s.capacity THEN s.block[i] ELSE Garbage]
       IN  Outcome([s EXCEPT !.capacity = newCapacity,
                             !.block    = WithCanaries(kept, newCapacity)],
                   Ok, Garbage)

(***************************************************************************)
(* The unused slots are filled whether or not ReallocStack succeeded: when *)
(* it failed they lie in a block that is already freed.                    *)
(***************************************************************************)
RecallocStack(s, newCapacity, ok) ==
  LET r == ReallocStack(s, newCapacity, ok)
  IN  CASE r.err = Ok ->
             [r EXCEPT !.stack.block =
                [i \in DOMAIN @ |-> IF i \in r.stack.size .. newCapacity-1
                                    THEN RecallocValue ELSE @[i]]]
        [] r.err = "STACK_DATA_REALLOC_ERROR" /\ s.size < s.capacity ->
             [r EXCEPT !.stack.data = "corrupted"]
        [] OTHER -> r

(***************************************************************************)
(* The operations of the machine.                                          *)
(***************************************************************************)
Store(s, e) == [s EXCEPT !.block = [@ EXCEPT ![s.size] = e], !.size = @ + 1]

StackPush(s, e, ok) ==
  LET r == IF s.size >= s.capacity
           THEN RecallocStack(s, s.capacity * Expand, ok)
           ELSE Outcome(s, Ok, Garbage)
  IN  IF r.err = Ok THEN Outcome(Store(r.stack, e), Ok, Garbage) ELSE r

(* Variants: shrinking one element too early, and shrinking to nothing.    *)
MustShrinkEarly(s) == s.size # 0 /\ s.capacity \div Shrink + 1 >= s.size
MustShrinkEmpty(s) == s.capacity \div Shrink >= s.size

(* The capacity must never reach 0: it could not be expanded again. *)
MustShrink(s) == s.size # 0 /\ s.capacity \div Shrink >= s.size

(* Variant: the slot above the top is read.                                *)
StackPopAbove(s, ok) ==
  IF s.size > 0
  THEN LET popped == [s EXCEPT !.size = @ - 1]
           r      == IF MustShrink(popped)
                     THEN RecallocStack(popped, s.capacity \div Shrink, ok)
                     ELSE Outcome(popped, Ok, Garbage)
       IN  Outcome(r.stack, r.err, s.block[s.size])
  ELSE Outcome(s, "STACK_POP_FROM_EMPTY", Garbage)

StackPop(s, ok) ==
  IF s.size > 0
  THEN LET popped == [s EXCEPT !.size = @ - 1]
           r      == IF MustShrink(popped)
                     THEN RecallocStack(popped, s.capacity \div Shrink, ok)
                     ELSE Outcome(popped, Ok, Garbage)
       IN  Outcome(r.stack, r.err, s.block[s.size - 1])
  ELSE Outcome(s, "STACK_POP_FROM_EMPTY", Garbage)

StackDtor(s) ==
  Outcome([status |-> "STACK_DESTROYED", data |-> "ERR_PTR",
           capacity |-> 0, size |-> 0, block |-> NoBlock], Ok, Garbage)

(***************************************************************************)
(* GetStackError: the check that every ASSERT_OK stands for.  StackCtor    *)
(* fills neither the canaries of the struct nor its name and hashes (only  *)
(* StackCtorForDebug does, which nothing calls), so for a live block the   *)
(* first of those tests already fails.                                     *)
(***************************************************************************)
GetStackError(s) ==
  CASE s.data = "null"         -> "STACK_DATA_NO_CREATE"
    [] s.data = "ERR_PTR"      -> "STACK_DATA_DESTROY"
    [] s.data \notin {"null", "ERR_PTR"} /\ s.capacity < s.size
                               -> "STACK_CAPACITY_LESS_SIZE"
    [] OTHER                   -> "STACK_LEFT_CANARY_DIED"

-----------------------------------------------------------------------------
(* The sequence a stack stands for, the top element last, and how far its  *)
(* life has come.                                                          *)
ContentsOf(s) ==
  IF s.data = "live" THEN [i \in 1 .. s.size |-> s.block[i-1]] ELSE <<>>

PhaseOf(s) == CASE s.status = "STACK_NOT_CONSTRUCTED" -> "new"
                [] s.status = "STACK_CONSTRUCTED"     -> "open"
                [] s.status = "STACK_DESTROYED"       -> "closed"
=============================================================================
