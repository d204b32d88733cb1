--------------------------- MODULE ResourceBroker ---------------------------
(***************************************************************************)
(* resources::ResourceBroker: a table of slots, each a resource with its   *)
(* mode and the references of its owners.  A slot is found by its key and  *)
(* the first free one is taken.  The owner table of a slot is a function:  *)
(* it holds each owner once, and only how many they are matters.           *)
(***************************************************************************)
EXTENDS Naturals, FiniteSets

CONSTANTS
  Keys, Owners,     \* the valid ones: others are rejected without effect
  MaxResources,     \* kMaxResources
  MaxOwners,        \* kMaxOwnersPerResource
  MaxReferences     \* of the 16-bit count

ASSUME BrokerAssumption ==
  /\ MaxResources \in Nat \ {0} /\ MaxOwners \in Nat \ {0}
  /\ MaxReferences \in Nat \ {0}
  /\ IsFiniteSet(Owners)

VARIABLE slots

vars == <<slots>>

Modes == {"exclusive", "shared"}
Nothing == [o \in Owners |-> 0]
Slot == [key : Keys, mode : Modes, owners : [Owners -> 0..MaxReferences]]
Free == [active |-> FALSE]
Indices == 1..MaxResources

Init == slots = [i \in Indices |-> Free]

Matches(i, k) == slots[i].active /\ slots[i].slot.key = k
Held(k) == \E i \in Indices : Matches(i, k)
Find(k) == CHOOSE i \in Indices : Matches(i, k)

Unused(i) == ~slots[i].active /\ \A j \in Indices : j < i => slots[j].active

Holders(i) == {o \in Owners : slots[i].slot.owners[o] > 0}

Entry(k, m, refs) ==
  [active |-> TRUE, slot |-> [key |-> k, mode |-> m, owners |-> refs]]

\* reserve of a resource nobody holds
Acquire(k, o, m) ==
  /\ ~Held(k)
  /\ \E i \in Indices :
       /\ Unused(i)
       /\ slots' = [slots EXCEPT ![i] = Entry(k, m, [Nothing EXCEPT ![o] = 1])]

SetOwners(i, refs) ==
  slots' = [slots EXCEPT ![i] = Entry(slots[i].slot.key, slots[i].slot.mode, refs)]

AddReference(i, o) == SetOwners(i, [slots[i].slot.owners EXCEPT ![o] = @ + 1])

\* reserve by an owner that holds it: the mode asked for is not looked at
Reenter(k, o) ==
  /\ Held(k)
  /\ LET i == Find(k) IN
       /\ slots[i].slot.owners[o] \in 1..MaxReferences - 1
       /\ AddReference(i, o)

\* Mutant: the mode of the slot is not looked at.
JoinAnyMode(k, o, m) ==
  /\ Held(k)
  /\ LET i == Find(k) IN
       /\ slots[i].slot.owners[o] = 0
       /\ m = "shared"
       /\ Cardinality(Holders(i)) < MaxOwners
       /\ AddReference(i, o)

\* reserve by a further owner
Join(k, o, m) ==
  /\ Held(k)
  /\ LET i == Find(k) IN
       /\ slots[i].slot.owners[o] = 0
       /\ slots[i].slot.mode = "shared" /\ m = "shared"
       /\ Cardinality(Holders(i)) < MaxOwners
       /\ AddReference(i, o)

Reserve(k, o, m) == Acquire(k, o, m) \/ Reenter(k, o) \/ Join(k, o, m)

\* release: the last reference of the last owner frees the slot
Release(k, o) ==
  /\ Held(k)
  /\ LET i == Find(k) IN
       /\ slots[i].slot.owners[o] > 0
       /\ LET left == [slots[i].slot.owners EXCEPT ![o] = @ - 1]
          IN IF left = Nothing THEN slots' = [slots EXCEPT ![i] = Free]
                               ELSE SetOwners(i, left)

Reset == slots' = [i \in Indices |-> Free]

Next ==
  \/ \E k \in Keys, o \in Owners : Release(k, o) \/ \E m \in Modes : Reserve(k, o, m)
  \/ Reset

Spec == Init /\ [][Next]_vars

HeldBy(k, o) == Held(k) /\ slots[Find(k)].slot.owners[o] > 0

-----------------------------------------------------------------------------
(* Properties *)

\* A slot is free or a resource with its mode and reference counts.
TypeOK ==
  slots \in [Indices -> {Free} \cup [active : {TRUE}, slot : Slot]]

(***************************************************************************)
(* A resource has at most one slot, a used slot has an owner, and a lease  *)
(* held by several owners is shared.                                       *)
(***************************************************************************)
OneSlotPerResource ==
  /\ \A i, j \in Indices : slots[i].active /\ slots[j].active
       /\ slots[i].slot.key = slots[j].slot.key => i = j
  /\ \A i \in Indices : slots[i].active =>
       /\ slots[i].slot.owners # Nothing
       /\ slots[i].slot.mode = "exclusive" =>
            \A o, q \in Holders(i) : o = q

(***************************************************************************)
(* docs/architecture.md: "A lease is exclusive or shared.  Re-entrant      *)
(* leases are reference-counted per owner, so one shared owner cannot      *)
(* accidentally release another owner's reservation."  The slot table      *)
(* implements that promise.                                                *)
(***************************************************************************)
RefsOf(k) == IF Held(k) THEN slots[Find(k)].slot.owners ELSE Nothing
ModeOf(k) == IF Held(k) THEN slots[Find(k)].slot.mode ELSE "exclusive"

Lease == INSTANCE Leases WITH
  refs <- [k \in Keys |-> RefsOf(k)],
  mode <- [k \in Keys |-> ModeOf(k)]

ImplementsLeases == Lease!Spec

=============================================================================
