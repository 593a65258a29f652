--------------------------- MODULE AbstractStack ----------------------------
(***************************************************************************)
(* What the operand stack promises to the machine: a last-in-first-out     *)
(* sequence.  A call either does its work or returns an error, and after   *)
(* an error the machine makes no further call (IS_CPU_ERROR_).  A call     *)
(* that fails for lack of memory may lose the contents, nothing else may.  *)
(***************************************************************************)
EXTENDS Integers, Sequences

CONSTANTS Elem, MayFail, MaxSize

VARIABLES phase,      (* "new", "open" or "closed"                           *)
          contents,   (* the elements, the top one last                      *)
          error,      (* the code the last call returned                     *)
          top         (* the value the last pop delivered                    *)

vars == <<phase, contents, error, top>>

Ok == "STACK_NO_ERROR"

Init ==
  /\ phase = "new"
  /\ contents = <<>>
  /\ error = Ok
  /\ top = <<>>

Usable == error = Ok /\ phase # "closed"

Create ==
  /\ Usable
  /\ top' = <<>>
  /\ \/ /\ phase = "new"
        /\ phase' = "open"
        /\ UNCHANGED <<contents, error>>
     \/ /\ phase = "new"
        /\ MayFail
        /\ error' = "STACK_DATA_CALLOC_ERROR"
        /\ UNCHANGED <<phase, contents>>
     \/ /\ phase = "open"
        /\ error' = "STACK_ALREADY_CONSTRUCTED"
        /\ UNCHANGED <<phase, contents>>

Push(e) ==
  /\ Usable
  /\ top' = <<>>
  /\ UNCHANGED phase
  /\ \/ /\ phase = "open"
        /\ Len(contents) < MaxSize
        /\ contents' = Append(contents, e)
        /\ UNCHANGED error
     \/ /\ phase = "open"
        /\ Len(contents) < MaxSize
        /\ MayFail
        /\ error' = "STACK_DATA_REALLOC_ERROR"
        /\ contents' = <<>>
     \/ /\ phase = "new"
        /\ error' = "abort"
        /\ UNCHANGED contents

Pop ==
  /\ Usable
  /\ UNCHANGED phase
  /\ IF contents = <<>>
     THEN /\ error' = "STACK_POP_FROM_EMPTY"
          /\ top' = <<>>
          /\ UNCHANGED contents
     ELSE /\ top' = <<contents[Len(contents)]>>
          /\ \/ /\ contents' = SubSeq(contents, 1, Len(contents) - 1)
                /\ UNCHANGED error
             \/ /\ MayFail
                /\ error' = "STACK_DATA_REALLOC_ERROR"
                /\ contents' = <<>>

Close ==
  /\ Usable
  /\ phase' = "closed"
  /\ contents' = <<>>
  /\ top' = <<>>
  /\ UNCHANGED error

Next == Create \/ (\E e \in Elem : Push(e)) \/ Pop \/ Close

Spec == Init /\ [][Next]_vars
=============================================================================
