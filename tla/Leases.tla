------------------------------- MODULE Leases -------------------------------
(***************************************************************************)
(* What resource leasing promises (docs/architecture.md, "Resource         *)
(* ownership"): a lease is exclusive or shared, leases are reference-      *)
(* counted per owner, and nobody gives up another owner's reservation.     *)
(* Any request may be refused.                                             *)
(***************************************************************************)
EXTENDS Naturals

CONSTANTS Keys, Owners

VARIABLES
  refs,    \* references an owner holds on a resource
  mode     \* how a resource is leased while somebody holds it

vars == <<refs, mode>>

Modes == {"exclusive", "shared"}
Nothing == [o \in Owners |-> 0]

Init ==
  /\ refs = [k \in Keys |-> Nothing]
  /\ mode \in [Keys -> Modes]

Compatible(k, o, m) ==
  \/ refs[k] = Nothing
  \/ refs[k][o] > 0
  \/ mode[k] = "shared" /\ m = "shared"

\* The first owner decides the mode; it stays while anybody holds the lease.
Grant(k, o, m) ==
  /\ Compatible(k, o, m)
  /\ refs' = [refs EXCEPT ![k][o] = @ + 1]
  /\ mode' = [mode EXCEPT ![k] = IF refs[k] = Nothing THEN m ELSE @]

GiveBack(k, o) ==
  /\ refs[k][o] > 0
  /\ refs' = [refs EXCEPT ![k][o] = @ - 1]
  /\ \A l \in Keys \ {k} : mode'[l] = mode[l]
  /\ refs'[k] # Nothing => mode'[k] = mode[k]
  /\ mode' \in [Keys -> Modes]

Reset ==
  /\ refs' = [k \in Keys |-> Nothing]
  /\ mode' \in [Keys -> Modes]

Next ==
  \/ \E k \in Keys, o \in Owners : GiveBack(k, o) \/ \E m \in Modes : Grant(k, o, m)
  \/ Reset

Spec == Init /\ [][Next]_vars
=============================================================================
