----------------------------- MODULE JobExecutor -----------------------------
(***************************************************************************)
(* What IApplicationJobs and the executor's start and stop promise: jobs   *)
(* run one at a time, each exactly once, in the order of their acceptance, *)
(* and the executor goes down only when nothing it accepted is unfinished. *)
(***************************************************************************)
EXTENDS Naturals, Sequences

CONSTANTS Jobs,      \* the job objects applications own
          Capacity   \* how many accepted jobs may be unfinished

VARIABLES up,           \* do the executor's RTOS objects exist?
          outstanding   \* jobs accepted and not finished, oldest first

vars == <<up, outstanding>>

Init == up = FALSE /\ outstanding = <<>>

Open == /\ ~up
        /\ up' = TRUE
        /\ UNCHANGED outstanding

Accept(j) == /\ up
             /\ Len(outstanding) < Capacity
             /\ outstanding' = Append(outstanding, j)
             /\ up' = up

Finish == /\ up
          /\ outstanding # <<>>
          /\ outstanding' = Tail(outstanding)
          /\ up' = up

Close == /\ up
         /\ outstanding = <<>>
         /\ up' = FALSE
         /\ UNCHANGED outstanding

Next == Open \/ (\E j \in Jobs : Accept(j)) \/ Finish \/ Close

Spec == Init /\ [][Next]_vars
=============================================================================
