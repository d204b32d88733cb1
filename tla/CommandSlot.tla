----------------------------- MODULE CommandSlot -----------------------------
(***************************************************************************)
(* core::AtomicCommandSlot: one command at most goes from the UI task,     *)
(* which reserves the slot, to the job on the worker, which empties it.    *)
(* Every operation is one atomic access of the slot's value.               *)
(***************************************************************************)

NoCommand == "none"

\* try_reserve: a compare-and-exchange that expects the empty slot
MayReserve(slot, command) == command # NoCommand /\ slot = NoCommand

\* take, and reset
Emptied(slot) == NoCommand

=============================================================================
