------------------------------ MODULE MCAppJobs ------------------------------
(***************************************************************************)
(* The instance of AppJobs for TLC: the executor as the firmware uses it,  *)
(* stopped and started again, joins that time out included, or with two    *)
(* more tasks that submit.                                                 *)
(***************************************************************************)
EXTENDS AppJobs

CONSTANTS j1, j2, s1, s2
MCJobs == {j1, j2}
MCEnvironments ==
  {[submitters |-> {}, starts |-> 2, timeout |-> TRUE],
   [submitters |-> {s1, s2}, starts |-> 1, timeout |-> FALSE]}
=============================================================================
