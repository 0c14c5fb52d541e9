-------------------------- MODULE AtomicVariables --------------------------
(***************************************************************************)
(* What the EEPROM emulation promises to the code that stores data in it:  *)
(* a set of 16-bit variables, each named by a virtual address, of which    *)
(* one at a time is updated atomically.  A call may end without having     *)
(* stored anything (power loss, flash error), but no call ever leaves a    *)
(* third value, touches another variable or loses what was stored before.  *)
(*                                                                         *)
(* The promise has an end of life, `expired': once the flash behind the    *)
(* store is used up to a certain point nothing is promised any more.       *)
(***************************************************************************)
EXTENDS Naturals

CONSTANTS
  VirtAddr,   (* the virtual addresses                                     *)
  Data,       (* the values a caller may store                             *)
  Unwritten,  (* what a variable that was never stored reads as            *)
  NoRequest   (* no call is in progress                                    *)

VARIABLES
  store,      (* store[v]: what a read of v returns                        *)
  request,    (* the call in progress, [vaddr, data], or NoRequest         *)
  expired     (* TRUE once the end of life is reached                      *)

vars == <<store, request, expired>>

Requests == [vaddr : VirtAddr, data : Data]
Stores == [VirtAddr -> Data \cup {Unwritten}]

TypeOK ==
  /\ store \in Stores
  /\ request \in Requests \cup {NoRequest}
  /\ expired \in BOOLEAN

Init ==
  /\ store = [v \in VirtAddr |-> Unwritten]
  /\ request = NoRequest
  /\ expired = FALSE

\* A caller asks for one variable to be updated.
Begin ==
  /\ request = NoRequest
  /\ request' \in Requests
  /\ UNCHANGED store /\ expired' = expired

\* The one point at which the variable changes.
Commit ==
  /\ request # NoRequest
  /\ store' = [store EXCEPT ![request.vaddr] = request.data]
  /\ UNCHANGED request /\ expired' = expired

\* The call ends: it returned, or the power failed.
End ==
  /\ request # NoRequest
  /\ request' = NoRequest
  /\ UNCHANGED store /\ expired' = expired

\* The end of life: from here on the store may do anything.
Expire == expired' = TRUE

Next == Begin \/ Commit \/ End \/ Expire

Spec == Init /\ [][Next]_vars
============================================================================
