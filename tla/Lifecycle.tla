------------------------------ MODULE Lifecycle ------------------------------
(***************************************************************************)
(* The two lifecycle policies every component of the firmware is built     *)
(* from: ComponentLifecycle (one task) and AtomicComponentLifecycle (calls *)
(* from several tasks).  Both keep one of four states.  An operation is a  *)
(* function of the state it finds: it returns the state it leaves and what *)
(* the caller is told.                                                     *)
(***************************************************************************)

LifecycleState == {"stopped", "starting", "running", "stopping"}

(***************************************************************************)
(* begin_start, the same in both classes: acquire from stopped, succeed    *)
(* without acquiring when running, conflict in a transition.               *)
(***************************************************************************)
BeginStart(s) ==
  [state   |-> IF s = "stopped" THEN "starting" ELSE s,
   ok      |-> s \in {"stopped", "running"},
   acquire |-> s = "stopped"]

(***************************************************************************)
(* ComponentLifecycle::begin_stop: a stopped or stopping component is left *)
(* as it is.                                                               *)
(***************************************************************************)
BeginStop(s) ==
  IF s \in {"stopped", "stopping"}
  THEN [state |-> s, release |-> FALSE]
  ELSE [state |-> "stopping", release |-> TRUE]

(***************************************************************************)
(* AtomicComponentLifecycle::begin_stop: an exchange, so the state becomes *)
(* stopping whatever it was and only the answer depends on it.             *)
(***************************************************************************)
AtomicBeginStop(s) ==
  [state |-> "stopping", release |-> s \notin {"stopped", "stopping"}]

=============================================================================
