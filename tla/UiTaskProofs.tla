---------------------------- MODULE UiTaskProofs ----------------------------
(***************************************************************************)
(* Two clients of the UI task.  However many resources, owners, slots and  *)
(* references there are, the slot table of the broker implements the       *)
(* promise of leases, and on any board the GPIO toolbox holds the pins it  *)
(* lists, alone.  Whatever is touched, tapped, stored and restored, the    *)
(* shell shows what it knows and the screen follows the preferences.       *)
(* The two share the lemmas about folds.                                   *)
(***************************************************************************)
EXTENDS GpioToolbox, Shell, WellFoundedInduction, SequenceTheorems, TLAPS

\* A slot is found by its key because no two slots have the same.
IInv == TypeOK /\ OneSlotPerResource

LEMMA SlotShape ==
  ASSUME TypeOK, NEW i \in Indices
  PROVE  /\ slots[i].active \in BOOLEAN
         /\ ~slots[i].active => slots[i] = Free
         /\ slots[i].active =>
              /\ slots[i] = [active |-> TRUE, slot |-> slots[i].slot]
              /\ slots[i].slot \in Slot
              /\ slots[i].slot.key \in Keys /\ slots[i].slot.mode \in Modes
              /\ slots[i].slot.owners \in [Owners -> 0..MaxReferences]
<1>1. slots[i] \in {Free} \cup [active : {TRUE}, slot : Slot]
  BY DEF TypeOK
<1>2. CASE slots[i] = Free
  <2>1. slots[i].active = FALSE
    BY <1>2 DEF Free
  <2> QED
    BY <1>2, <2>1
<1>3. CASE slots[i] \in [active : {TRUE}, slot : Slot]
  <2>1. /\ slots[i].active = TRUE
        /\ slots[i] = [active |-> TRUE, slot |-> slots[i].slot]
        /\ slots[i].slot \in Slot
    BY <1>3
  <2>2. /\ slots[i].slot.key \in Keys /\ slots[i].slot.mode \in Modes
        /\ slots[i].slot.owners \in [Owners -> 0..MaxReferences]
    BY <2>1 DEF Slot
  <2> QED
    BY <2>1, <2>2
<1> QED
  BY <1>1, <1>2, <1>3

(* The slot of a resource is the only one that matches it.                  *)
LEMMA FoundSlot ==
  IInv => \A k \in Keys, i \in Indices :
    Matches(i, k) => /\ Held(k) /\ Find(k) = i
                     /\ RefsOf(k) = slots[i].slot.owners
                     /\ ModeOf(k) = slots[i].slot.mode
<1> SUFFICES ASSUME IInv, NEW k \in Keys, NEW i \in Indices, Matches(i, k)
             PROVE  /\ Held(k) /\ Find(k) = i
                    /\ RefsOf(k) = slots[i].slot.owners
                    /\ ModeOf(k) = slots[i].slot.mode
  OBVIOUS
<1>1. Held(k)
  BY DEF Held
<1>2. \A j \in Indices : Matches(j, k) => j = i
  BY DEF IInv, OneSlotPerResource, Matches
<1>3. Find(k) = i
  BY <1>2 DEF Find
<1> QED
  BY <1>1, <1>3 DEF RefsOf, ModeOf

LEMMA LeaseTypes ==
  IInv => \A k \in Keys : /\ RefsOf(k) \in [Owners -> Nat]
                          /\ ModeOf(k) \in Modes
<1> SUFFICES ASSUME IInv, NEW k \in Keys
             PROVE  RefsOf(k) \in [Owners -> Nat] /\ ModeOf(k) \in Modes
  OBVIOUS
<1>1. CASE ~Held(k)
  BY <1>1 DEF RefsOf, ModeOf, Nothing, Modes
<1>2. CASE Held(k)
  <2>1. PICK i \in Indices : Matches(i, k)
    BY <1>2 DEF Held
  <2>2. RefsOf(k) = slots[i].slot.owners /\ ModeOf(k) = slots[i].slot.mode
    BY <2>1, FoundSlot
  <2>3. slots[i].slot.owners \in [Owners -> 0..MaxReferences] /\ slots[i].slot.mode \in Modes
    BY <2>1, SlotShape DEF IInv, Matches
  <2> QED
    BY <2>2, <2>3, BrokerAssumption
<1> QED
  BY <1>1, <1>2

-----------------------------------------------------------------------------
(* The invariant *)

LEMMA InitInv == Init => IInv
<1> SUFFICES ASSUME Init PROVE IInv
  OBVIOUS
<1>1. \A i \in Indices : slots[i] = Free /\ slots[i].active = FALSE
  BY DEF Init, Free
<1> QED
  BY <1>1 DEF Init, IInv, TypeOK, OneSlotPerResource

\* What replacing one slot needs to keep the invariant.
Fits(i, s) ==
  /\ s \in Slot
  /\ \A j \in Indices \ {i} : slots[j].active => slots[j].slot.key # s.key
  /\ s.owners # Nothing
  /\ s.mode = "exclusive" => \A o, q \in Owners : s.owners[o] > 0 /\ s.owners[q] > 0 => o = q

LEMMA WriteInv ==
  ASSUME IInv, NEW i \in Indices, NEW s, Fits(i, s),
         slots' = [slots EXCEPT ![i] = [active |-> TRUE, slot |-> s]]
  PROVE  IInv'
<1> DEFINE r == [active |-> TRUE, slot |-> s]
<1>1. r \in [active : {TRUE}, slot : Slot] /\ r.active = TRUE /\ r.slot = s
  BY DEF Fits
<1>2. /\ DOMAIN slots = Indices /\ slots'[i] = r
      /\ \A j \in Indices \ {i} : slots'[j] = slots[j]
  BY DEF IInv, TypeOK
<1>3. TypeOK'
  BY <1>1 DEF IInv, TypeOK
<1> HIDE DEF r
<1>4. \A j \in Indices : slots'[j].active =>
        /\ slots'[j].slot.owners # Nothing
        /\ slots'[j].slot.mode = "exclusive" =>
             \A o, q \in Holders(j)' : o = q
  <2> SUFFICES ASSUME NEW j \in Indices, slots'[j].active
               PROVE  /\ slots'[j].slot.owners # Nothing
                      /\ slots'[j].slot.mode = "exclusive" =>
                           \A o, q \in Holders(j)' : o = q
    OBVIOUS
  <2>1. CASE j = i
    BY <2>1, <1>1, <1>2 DEF Fits, Holders
  <2>2. CASE j # i
    BY <2>2, <1>2 DEF IInv, OneSlotPerResource, Holders
  <2> QED
    BY <2>1, <2>2
<1>5. \A j, l \in Indices : slots'[j].active /\ slots'[l].active
        /\ slots'[j].slot.key = slots'[l].slot.key => j = l
  BY <1>1, <1>2 DEF IInv, OneSlotPerResource, Fits
<1> QED
  BY <1>3, <1>4, <1>5 DEF IInv, OneSlotPerResource

LEMMA FreeInv ==
  ASSUME IInv, NEW i \in Indices, slots' = [slots EXCEPT ![i] = Free]
  PROVE  IInv'
<1>1. /\ DOMAIN slots = Indices /\ slots'[i] = Free /\ slots'[i].active = FALSE
      /\ \A j \in Indices \ {i} : slots'[j] = slots[j]
  BY DEF IInv, TypeOK, Free
<1>2. TypeOK'
  BY DEF IInv, TypeOK
<1> QED
  BY <1>1, <1>2 DEF IInv, OneSlotPerResource, Holders

LEMMA SameSlots ==
  ASSUME IInv, slots' = slots
  PROVE  IInv'
<1>1. TypeOK'
  BY DEF IInv, TypeOK
<1>2. \A i \in Indices : Holders(i)' = Holders(i)
  BY DEF Holders
<1>3. OneSlotPerResource'
  BY <1>2 DEF IInv, OneSlotPerResource, Nothing
<1> QED
  BY <1>1, <1>3 DEF IInv

LEMMA ResetInv == Reset => IInv'
<1> SUFFICES ASSUME Reset PROVE IInv'
  OBVIOUS
<1>1. \A i \in Indices : slots'[i] = Free /\ slots'[i].active = FALSE
  BY DEF Reset, Free
<1> QED
  BY <1>1 DEF Reset, IInv, TypeOK, OneSlotPerResource

-----------------------------------------------------------------------------
(* What replacing or freeing a slot does to the leases *)

LEMMA FoundSlotNext ==
  IInv' => \A k \in Keys, i \in Indices :
    Matches(i, k)' => /\ Held(k)' /\ RefsOf(k)' = slots'[i].slot.owners
                      /\ ModeOf(k)' = slots'[i].slot.mode
<1>1. (IInv => \A k \in Keys, i \in Indices :
        Matches(i, k) => /\ Held(k) /\ Find(k) = i
                         /\ RefsOf(k) = slots[i].slot.owners
                         /\ ModeOf(k) = slots[i].slot.mode)'
  BY FoundSlot, PTL
<1> QED
  BY <1>1

(* The leases of a resource follow its slots alone.                         *)
LEMMA SameLease ==
  ASSUME IInv, IInv', NEW k \in Keys, NEW i \in Indices,
         \A j \in Indices \ {i} : slots'[j] = slots[j],
         ~Matches(i, k), ~Matches(i, k)'
  PROVE  RefsOf(k)' = RefsOf(k) /\ ModeOf(k)' = ModeOf(k)
<1>1. \A j \in Indices : Matches(j, k)' <=> Matches(j, k)
  BY DEF Matches
<1>2. CASE Held(k)
  <2>1. PICK j \in Indices : Matches(j, k)
    BY <1>2 DEF Held
  <2>2. Matches(j, k)' /\ slots'[j] = slots[j]
    BY <2>1, <1>1
  <2> QED
    BY <2>1, <2>2, FoundSlot, FoundSlotNext
<1>3. CASE ~Held(k)
  <2>1. ~Held(k)'
    BY <1>1, <1>3 DEF Held
  <2> QED
    BY <1>3, <2>1 DEF RefsOf, ModeOf, Nothing
<1> QED
  BY <1>2, <1>3

LEMMA WriteMap ==
  ASSUME IInv, NEW i \in Indices, NEW s, Fits(i, s),
         slots' = [slots EXCEPT ![i] = [active |-> TRUE, slot |-> s]],
         slots[i].active => slots[i].slot.key = s.key
  PROVE  /\ RefsOf(s.key)' = s.owners /\ ModeOf(s.key)' = s.mode
         /\ \A k \in Keys \ {s.key} :
              RefsOf(k)' = RefsOf(k) /\ ModeOf(k)' = ModeOf(k)
<1>1. IInv'
  BY WriteInv
<1>2. /\ DOMAIN slots = Indices
      /\ slots'[i].active = TRUE /\ slots'[i].slot = s
      /\ \A j \in Indices \ {i} : slots'[j] = slots[j]
  BY DEF IInv, TypeOK
<1>3. s.key \in Keys
  BY DEF Fits, Slot
<1>4. Matches(i, s.key)'
  BY <1>2 DEF Matches
<1>5. RefsOf(s.key)' = s.owners /\ ModeOf(s.key)' = s.mode
  BY <1>1, <1>2, <1>3, <1>4, FoundSlotNext
<1>6. ASSUME NEW k \in Keys \ {s.key}
      PROVE  RefsOf(k)' = RefsOf(k) /\ ModeOf(k)' = ModeOf(k)
  <2>1. ~Matches(i, k) /\ ~Matches(i, k)'
    BY <1>2 DEF Matches
  <2> QED
    BY <1>1, <1>2, <2>1, SameLease
<1> QED
  BY <1>5, <1>6

LEMMA FreeMap ==
  ASSUME IInv, NEW i \in Indices, NEW k \in Keys, Matches(i, k),
         slots' = [slots EXCEPT ![i] = Free]
  PROVE  /\ RefsOf(k)' = Nothing /\ ModeOf(k)' = "exclusive"
         /\ \A l \in Keys \ {k} :
              RefsOf(l)' = RefsOf(l) /\ ModeOf(l)' = ModeOf(l)
<1>1. IInv'
  BY FreeInv
<1>2. /\ DOMAIN slots = Indices /\ slots'[i].active = FALSE
      /\ \A j \in Indices \ {i} : slots'[j] = slots[j]
  BY DEF IInv, TypeOK, Free
<1>3. ~Held(k)'
  <2>1. \A j \in Indices \ {i} : ~Matches(j, k)
    BY DEF IInv, OneSlotPerResource, Matches
  <2> QED
    BY <1>2, <2>1 DEF Held, Matches
<1>4. ASSUME NEW l \in Keys \ {k}
      PROVE  RefsOf(l)' = RefsOf(l) /\ ModeOf(l)' = ModeOf(l)
  <2>1. ~Matches(i, l) /\ ~Matches(i, l)'
    BY <1>2 DEF Matches
  <2> QED
    BY <1>1, <1>2, <2>1, SameLease
<1> QED
  BY <1>3, <1>4 DEF RefsOf, ModeOf, Nothing

-----------------------------------------------------------------------------
(* Every operation keeps the invariant and is one step on the leases *)

\* The leases after one of them changed to the references r and the mode m.
Becomes(k, r, m) ==
  /\ RefsOf(k)' = r /\ ModeOf(k)' = m
  /\ \A l \in Keys \ {k} : RefsOf(l)' = RefsOf(l) /\ ModeOf(l)' = ModeOf(l)

LEMMA Granted ==
  ASSUME IInv, NEW k \in Keys, NEW o \in Owners, NEW m \in Modes,
         \/ RefsOf(k) = Nothing
         \/ RefsOf(k)[o] > 0
         \/ ModeOf(k) = "shared" /\ m = "shared",
         Becomes(k, [RefsOf(k) EXCEPT ![o] = @ + 1],
                 IF RefsOf(k) = Nothing THEN m ELSE ModeOf(k))
  PROVE  Lease!Grant(k, o, m)
<1>1. Lease!Compatible(k, o, m)
  BY DEF Lease!Compatible, Lease!Nothing, Nothing
<1>2. [l \in Keys |-> RefsOf(l)'] =
        [[l \in Keys |-> RefsOf(l)] EXCEPT ![k] = [RefsOf(k) EXCEPT ![o] = @ + 1]]
  BY DEF Becomes
<1>3. [l \in Keys |-> ModeOf(l)'] =
        [[l \in Keys |-> ModeOf(l)] EXCEPT ![k] = IF RefsOf(k) = Nothing THEN m ELSE ModeOf(k)]
  BY DEF Becomes
<1> QED
  BY <1>1, <1>2, <1>3 DEF Lease!Grant, Lease!Nothing, Nothing

LEMMA GivenBack ==
  ASSUME IInv, NEW k \in Keys, NEW o \in Owners, NEW m \in Modes,
         RefsOf(k)[o] > 0,
         Becomes(k, [RefsOf(k) EXCEPT ![o] = @ - 1], m),
         [RefsOf(k) EXCEPT ![o] = @ - 1] # Nothing => m = ModeOf(k)
  PROVE  Lease!GiveBack(k, o)
<1>1. [l \in Keys |-> RefsOf(l)'] =
        [[l \in Keys |-> RefsOf(l)] EXCEPT ![k] = [RefsOf(k) EXCEPT ![o] = @ - 1]]
  BY DEF Becomes
<1>2. [l \in Keys |-> ModeOf(l)'] \in [Keys -> Modes]
  BY LeaseTypes DEF Becomes
<1> QED
  BY <1>1, <1>2 DEF Becomes, Lease!GiveBack, Lease!Nothing, Nothing, Lease!Modes, Modes

LEMMA AcquireStep ==
  ASSUME IInv, NEW k \in Keys, NEW o \in Owners, NEW m \in Modes, Acquire(k, o, m)
  PROVE  IInv' /\ Lease!Grant(k, o, m)
<1> DEFINE s == [key |-> k, mode |-> m, owners |-> [Nothing EXCEPT ![o] = 1]]
<1>1. PICK i \in Indices :
        /\ Unused(i)
        /\ slots' = [slots EXCEPT ![i] = [active |-> TRUE, slot |-> s]]
  BY DEF Acquire, Entry
<1>2. ~Held(k) /\ RefsOf(k) = Nothing
  BY DEF Acquire, RefsOf
<1>3. Fits(i, s)
  <2>1. s \in Slot
    BY BrokerAssumption DEF Slot, Nothing
  <2>2. \A j \in Indices \ {i} : slots[j].active => slots[j].slot.key # s.key
    BY <1>2 DEF Held, Matches
  <2>3. s.owners[o] = 1 /\ \A q \in Owners : s.owners[q] > 0 => q = o
    BY DEF Nothing
  <2>4. s.owners # Nothing
    BY <2>3 DEF Nothing
  <2> QED
    BY <2>1, <2>2, <2>3, <2>4 DEF Fits
<1>4. ~slots[i].active
  BY <1>1 DEF Unused
<1>5. s.key = k /\ s.mode = m /\ s.owners = [RefsOf(k) EXCEPT ![o] = @ + 1]
  BY <1>2 DEF Nothing
<1>6. Becomes(k, [RefsOf(k) EXCEPT ![o] = @ + 1], IF RefsOf(k) = Nothing THEN m ELSE ModeOf(k))
  <2> HIDE DEF s
  <2> QED
    BY <1>1, <1>2, <1>3, <1>4, <1>5, WriteMap DEF Becomes
<1>7. Lease!Grant(k, o, m)
  BY <1>2, <1>6, Granted
<1>8. IInv'
  <2> HIDE DEF s
  <2> QED
    BY <1>1, <1>3, WriteInv
<1> QED
  BY <1>7, <1>8

\* reserve of a resource that is held: its slot gains a reference.
LEMMA AddReferenceStep ==
  ASSUME IInv, NEW k \in Keys, NEW o \in Owners, NEW m \in Modes,
         NEW i \in Indices, Matches(i, k), AddReference(i, o),
         slots[i].slot.owners[o] < MaxReferences,
         \/ slots[i].slot.owners[o] > 0
         \/ slots[i].slot.mode = "shared" /\ m = "shared"
  PROVE  IInv' /\ Lease!Grant(k, o, m)
<1> DEFINE old == slots[i].slot
           s == [key |-> k, mode |-> old.mode, owners |-> [old.owners EXCEPT ![o] = @ + 1]]
<1>1. /\ slots[i] = [active |-> TRUE, slot |-> old] /\ old \in Slot
      /\ old.key = k /\ old.mode \in Modes
      /\ old.owners \in [Owners -> 0..MaxReferences]
  BY SlotShape DEF IInv, Matches
<1>2. RefsOf(k) = old.owners /\ ModeOf(k) = old.mode
  BY FoundSlot
<1>3. slots' = [slots EXCEPT ![i] = [active |-> TRUE, slot |-> s]]
  BY <1>1 DEF AddReference, SetOwners, Entry
<1>4. /\ s.key = k /\ s.mode = old.mode
      /\ s.owners = [old.owners EXCEPT ![o] = @ + 1]
  OBVIOUS
<1>5. Fits(i, s)
  <2>1. s \in Slot
    BY <1>1, BrokerAssumption DEF Slot
  <2>2. \A j \in Indices \ {i} : slots[j].active => slots[j].slot.key # s.key
    BY <1>4 DEF IInv, OneSlotPerResource, Matches
  <2>3. s.owners # Nothing
    BY <1>1, <1>4, BrokerAssumption DEF Nothing
  <2>4. ASSUME s.mode = "exclusive", NEW q \in Owners, s.owners[q] > 0
        PROVE  q = o
    <3>1. old.owners[o] > 0
      BY <1>4, <2>4
    <3>2. q = o \/ old.owners[q] > 0
      BY <1>1, <1>4, <2>4
    <3>3. \A p, r \in Owners : old.owners[p] > 0 /\ old.owners[r] > 0 => p = r
      BY <1>4, <2>4 DEF IInv, OneSlotPerResource, Holders, Matches
    <3> QED
      BY <3>1, <3>2, <3>3
  <2> QED
    BY <2>1, <2>2, <2>3, <2>4 DEF Fits
<1>6. IInv'
  <2> HIDE DEF s
  <2> QED
    BY <1>3, <1>5, WriteInv
<1>7. old.owners # Nothing
  BY DEF IInv, OneSlotPerResource, Matches
<1>8. Becomes(k, [RefsOf(k) EXCEPT ![o] = @ + 1], IF RefsOf(k) = Nothing THEN m ELSE ModeOf(k))
  <2> HIDE DEF s
  <2>1. PICK t : t = s
    OBVIOUS
  <2>2. /\ Fits(i, t) /\ t.key = k /\ (slots[i].active => slots[i].slot.key = t.key)
        /\ slots' = [slots EXCEPT ![i] = [active |-> TRUE, slot |-> t]]
    BY <1>1, <1>3, <1>4, <1>5, <2>1
  <2>3. /\ RefsOf(t.key)' = t.owners /\ ModeOf(t.key)' = t.mode
        /\ \A l \in Keys \ {t.key} : RefsOf(l)' = RefsOf(l) /\ ModeOf(l)' = ModeOf(l)
    BY <2>2, WriteMap
  <2>4. Becomes(k, t.owners, t.mode)
    BY <2>2, <2>3 DEF Becomes
  <2>5. t.owners = [RefsOf(k) EXCEPT ![o] = @ + 1] /\ t.mode = ModeOf(k) /\ RefsOf(k) # Nothing
    BY <1>2, <1>4, <1>7, <2>1
  <2> QED
    BY <2>4, <2>5
<1>9. Lease!Grant(k, o, m)
  BY <1>2, <1>8, Granted
<1> QED
  BY <1>6, <1>9

(* The slot a held resource is found in                                     *)
LEMMA FindMatches ==
  ASSUME NEW k \in Keys, Held(k)
  PROVE  Find(k) \in Indices /\ Matches(Find(k), k)
<1>1. PICK i \in Indices : Matches(i, k)
  BY DEF Held
<1> QED
  BY <1>1 DEF Find

LEMMA ReserveStep ==
  ASSUME IInv, NEW k \in Keys, NEW o \in Owners, NEW m \in Modes, Reserve(k, o, m)
  PROVE  IInv' /\ Lease!Grant(k, o, m)
<1>1. CASE Acquire(k, o, m)
  BY <1>1, AcquireStep
<1>2. CASE Reenter(k, o)
  <2>1. Find(k) \in Indices /\ Matches(Find(k), k)
    BY <1>2, FindMatches DEF Reenter
  <2>2. slots[Find(k)].slot.owners[o] \in 1..MaxReferences - 1 /\ AddReference(Find(k), o)
    BY <1>2 DEF Reenter
  <2>3. slots[Find(k)].slot.owners[o] < MaxReferences /\ slots[Find(k)].slot.owners[o] > 0
    BY <2>2, BrokerAssumption
  <2> QED
    BY <2>1, <2>2, <2>3, AddReferenceStep
<1>3. CASE Join(k, o, m)
  <2>1. Find(k) \in Indices /\ Matches(Find(k), k)
    BY <1>3, FindMatches DEF Join
  <2>2. /\ slots[Find(k)].slot.owners[o] = 0 /\ AddReference(Find(k), o)
        /\ slots[Find(k)].slot.mode = "shared" /\ m = "shared"
    BY <1>3 DEF Join
  <2>3. slots[Find(k)].slot.owners[o] < MaxReferences
    BY <2>2, BrokerAssumption
  <2> QED
    BY <2>1, <2>2, <2>3, AddReferenceStep
<1> QED
  BY <1>1, <1>2, <1>3 DEF Reserve

LEMMA ReleaseStep ==
  ASSUME IInv, NEW k \in Keys, NEW o \in Owners, Release(k, o)
  PROVE  IInv' /\ Lease!GiveBack(k, o)
<1> DEFINE i == Find(k)
           old == slots[i].slot
           left == [old.owners EXCEPT ![o] = @ - 1]
           s == [key |-> k, mode |-> old.mode, owners |-> left]
<1>1. i \in Indices /\ Matches(i, k)
  BY FindMatches DEF Release
<1>2. /\ old.key = k /\ old.mode \in Modes
      /\ old.owners \in [Owners -> 0..MaxReferences]
  BY <1>1, SlotShape DEF IInv, Matches
<1>3. RefsOf(k) = old.owners /\ ModeOf(k) = old.mode
  BY <1>1, FoundSlot
<1>4. old.owners[o] > 0
  BY DEF Release
<1>5. CASE left = Nothing
  <2>1. slots' = [slots EXCEPT ![i] = Free]
    BY <1>5 DEF Release
  <2>2. IInv' /\ Becomes(k, left, "exclusive")
    BY <1>1, <1>5, <2>1, FreeInv, FreeMap DEF Becomes
  <2>3. Lease!GiveBack(k, o)
    BY <1>3, <1>4, <1>5, <2>2, GivenBack DEF Modes
  <2> QED
    BY <2>2, <2>3
<1>6. CASE left # Nothing
  <2>1. slots' = [slots EXCEPT ![i] = [active |-> TRUE, slot |-> s]]
    BY <1>2, <1>6 DEF Release, SetOwners, Entry
  <2>2. s.key = k /\ s.mode = old.mode /\ s.owners = left
    OBVIOUS
  <2>3. Fits(i, s)
    <3>1. s \in Slot
      BY <1>2, <1>4, BrokerAssumption DEF Slot
    <3>2. \A j \in Indices \ {i} : slots[j].active => slots[j].slot.key # s.key
      BY <1>1, <2>2 DEF IInv, OneSlotPerResource, Matches
    <3>3. ASSUME s.mode = "exclusive", NEW p \in Owners, NEW q \in Owners,
                 s.owners[p] > 0, s.owners[q] > 0
          PROVE  p = q
      <4>1. old.owners[p] > 0 /\ old.owners[q] > 0
        BY <1>2, <1>4, <2>2, <3>3
      <4> QED
        BY <1>1, <2>2, <3>3, <4>1 DEF IInv, OneSlotPerResource, Holders, Matches
    <3> QED
      BY <1>6, <2>2, <3>1, <3>2, <3>3 DEF Fits
  <2> HIDE DEF s
  <2>4. IInv' /\ Becomes(k, left, old.mode)
    BY <1>1, <1>2, <2>1, <2>2, <2>3, WriteInv, WriteMap DEF Becomes
  <2>5. Lease!GiveBack(k, o)
    BY <1>2, <1>3, <1>4, <2>4, GivenBack
  <2> QED
    BY <2>4, <2>5
<1> QED
  BY <1>5, <1>6

LEMMA ResetStep ==
  ASSUME IInv, Reset
  PROVE  IInv' /\ Lease!Reset
<1>1. IInv'
  BY ResetInv
<1>2. \A i \in Indices : slots'[i].active = FALSE
  BY DEF Reset, Free
<1>3. \A k \in Keys : RefsOf(k)' = Nothing /\ ModeOf(k)' = "exclusive"
  BY <1>2 DEF Held, Matches, RefsOf, ModeOf, Nothing
<1> QED
  BY <1>1, <1>3 DEF Lease!Reset, Lease!Nothing, Nothing, Lease!Modes

-----------------------------------------------------------------------------
(* Theorems *)

LEMMA NextStep == IInv /\ [Next]_vars => IInv' /\ [Lease!Next]_(Lease!vars)
<1> SUFFICES ASSUME IInv, [Next]_vars PROVE IInv' /\ [Lease!Next]_(Lease!vars)
  OBVIOUS
<1>1. ASSUME NEW k \in Keys, NEW o \in Owners, Release(k, o)
      PROVE  IInv' /\ Lease!Next
  BY <1>1, ReleaseStep DEF Lease!Next
<1>2. ASSUME NEW k \in Keys, NEW o \in Owners, NEW m \in Modes, Reserve(k, o, m)
      PROVE  IInv' /\ Lease!Next
  BY <1>2, ReserveStep DEF Lease!Next, Lease!Modes, Modes
<1>3. CASE Reset
  BY <1>3, ResetStep DEF Lease!Next
<1>4. CASE UNCHANGED vars
  <2>1. slots' = slots
    BY <1>4 DEF vars
  <2>2. IInv'
    BY <2>1, SameSlots
  <2>3. \A k \in Keys : RefsOf(k)' = RefsOf(k) /\ ModeOf(k)' = ModeOf(k)
    BY <2>1 DEF RefsOf, ModeOf, Held, Find, Matches
  <2> QED
    BY <2>2, <2>3 DEF Lease!vars
<1> QED
  BY <1>1, <1>2, <1>3, <1>4 DEF Next

(***************************************************************************)
(* Every used slot has a key, a mode and bounded reference counts, no two  *)
(* slots have the same key, none is used without an owner, and an          *)
(* exclusive one has a single owner: what find and release rely on.        *)
(***************************************************************************)
THEOREM SlotsAreUnique == Spec => [](TypeOK /\ OneSlotPerResource)
<1>1. IInv /\ [Next]_vars => IInv'
  BY NextStep
<1>2. IInv => TypeOK /\ OneSlotPerResource
  BY DEF IInv
<1> QED
  BY <1>1, <1>2, InitInv, PTL DEF Spec

(***************************************************************************)
(* The slot table implements the promise of leases: reserve grants only a  *)
(* compatible lease, a reference is given back by the owner that holds it  *)
(* and by nobody else, and no operation touches another resource.          *)
(***************************************************************************)
THEOREM BrokerImplementsLeases == Spec => ImplementsLeases
<1>1. Init => Lease!Init
  <2> SUFFICES ASSUME Init PROVE Lease!Init
    OBVIOUS
  <2>1. \A i \in Indices : slots[i].active = FALSE
    BY DEF Init, Free
  <2>2. \A k \in Keys : RefsOf(k) = Nothing /\ ModeOf(k) = "exclusive"
    BY <2>1 DEF Held, Matches, RefsOf, ModeOf
  <2> QED
    BY <2>2 DEF Lease!Init, Lease!Nothing, Nothing, Lease!Modes
<1>2. IInv /\ [Next]_vars => IInv' /\ [Lease!Next]_(Lease!vars)
  BY NextStep
<1> QED
  BY <1>1, <1>2, InitInv, PTL DEF Spec, ImplementsLeases, Lease!Spec

-----------------------------------------------------------------------------
(***************************************************************************)
(* Folds.  The induction theorems of the library are about an operator     *)
(* P(_) that no backend instantiates; over a set P they follow from the    *)
(* minimum that every set of numbers has.                                  *)
(***************************************************************************)

LEMMA SetInduction ==
  ASSUME NEW P, 0 \in P, \A n \in Nat : n \in P => n + 1 \in P
  PROVE  Nat \subseteq P
<1> SUFFICES ASSUME Nat \ P # {} PROVE FALSE
  OBVIOUS
<1> DEFINE less == OpToRel(<, Nat)
<1>1. PICK m \in Nat \ P : \A k \in Nat \ P : <<k, m>> \notin less
  <2>1. IsWellFoundedOn(less, Nat)
    BY NatLessThanWellFounded
  <2> HIDE DEF less
  <2> QED
    BY <2>1, WFMin
<1>2. m - 1 \in Nat /\ m - 1 \notin P
  <2>1. m \in Nat /\ m # 0
    OBVIOUS
  <2>2. m - 1 \in Nat /\ (m - 1) + 1 = m
    BY <2>1
  <2>3. m - 1 \in P => (m - 1) + 1 \in P
    BY <2>2
  <2> QED
    BY <2>2, <2>3
<1>3. <<m - 1, m>> \in less
  BY <1>2 DEF OpToRel
<1> QED
  BY <1>1, <1>2, <1>3

LEMMA Least ==
  ASSUME NEW T \in SUBSET Nat, T # {}
  PROVE  \E m \in T : \A k \in T : m <= k
<1> DEFINE less == OpToRel(<, Nat)
<1>1. PICK m \in T : \A k \in T : <<k, m>> \notin less
  <2>1. IsWellFoundedOn(less, Nat)
    BY NatLessThanWellFounded
  <2> HIDE DEF less
  <2> QED
    BY <2>1, WFMin
<1>2. \A k \in T : <<k, m>> \in less \/ m <= k
  BY DEF OpToRel
<1> QED
  BY <1>1, <1>2

LEMMA Greatest ==
  ASSUME NEW n \in Nat, NEW s \in SUBSET (1..n), s # {}
  PROVE  Max(s) \in s /\ \A y \in s : y <= Max(s)
<1> DEFINE T == {m \in Nat : n - m \in s}
<1>1. T \in SUBSET Nat /\ T # {}
  <2>1. PICK x \in s : TRUE
    OBVIOUS
  <2>2. x \in 1..n /\ n - x \in Nat /\ n - (n - x) = x
    BY <2>1
  <2> QED
    BY <2>1, <2>2
<1>2. PICK m \in T : \A k \in T : m <= k
  <2> HIDE DEF T
  <2> QED
    BY <1>1, Least
<1>3. \A y \in s : n - y \in T /\ y \in 1..n
  <2>1. ASSUME NEW y \in s PROVE n - y \in T
    <3>1. y \in 1..n /\ n - y \in Nat /\ n - (n - y) = y
      OBVIOUS
    <3> QED
      BY <2>1, <3>1
  <2> QED
    BY <2>1
<1>4. n - m \in s /\ \A y \in s : y <= n - m
  <2>1. n - m \in s /\ m \in Nat
    BY <1>2
  <2>2. ASSUME NEW y \in s PROVE m <= n - y /\ y \in Int
    <3> HIDE DEF T
    <3> QED
      BY <1>2, <1>3
  <2> QED
    BY <2>1, <2>2
<1>5. \A x, y \in s : x >= y <=> y <= x
  OBVIOUS
<1>6. \E x \in s : \A y \in s : x >= y
  BY <1>4, <1>5
<1> QED
  BY <1>5, <1>6 DEF Max

LEMMA MaxOfInterval ==
  ASSUME NEW n \in Nat, NEW k \in 1..n
  PROVE  1..k \in SUBSET (1..n) /\ 1..k # {} /\ Max(1..k) = k /\ (1..k) \ {k} = 1..k - 1
<1>1. k \in Nat /\ k \in 1..k /\ 1..k # {}
  OBVIOUS
<1>2. Max(1..k) \in 1..k /\ \A y \in 1..k : y <= Max(1..k)
  BY <1>1, Greatest
<1>3. Max(1..k) = k
  BY <1>1, <1>2
<1> QED
  BY <1>1, <1>3

IsFold(f, n, base, step) ==
  \A s \in SUBSET (1..n) :
    f[s] = IF s = {} THEN base ELSE step[<<f[s \ {Max(s)}], Max(s)>>]

LEMMA FoldExists ==
  ASSUME NEW S, NEW base \in S, NEW n \in Nat, NEW step \in [S \X (1..n) -> S]
  PROVE  \E f \in [SUBSET (1..n) -> S] : IsFold(f, n, base, step)
<1> DEFINE Folds(k, f) == \A s \in SUBSET (1..k) :
             f[s] = IF s = {} THEN base ELSE step[<<f[s \ {Max(s)}], Max(s)>>]
           P == {k \in Nat : k <= n => \E f \in [SUBSET (1..k) -> S] : Folds(k, f)}
<1>1. 0 \in P
  <2> DEFINE f == [s \in SUBSET (1..0) |-> base]
  <2>1. f \in [SUBSET (1..0) -> S]
    OBVIOUS
  <2>2. \A s \in SUBSET (1..0) : s = {}
    OBVIOUS
  <2>3. Folds(0, f)
    BY <2>2
  <2> QED
    BY <2>1, <2>3
<1>2. ASSUME NEW k \in Nat, k \in P PROVE k + 1 \in P
  <2> SUFFICES ASSUME k + 1 <= n
               PROVE  \E f \in [SUBSET (1..k + 1) -> S] : Folds(k + 1, f)
    <3>1. k + 1 \in Nat
      OBVIOUS
    <3> HIDE DEF Folds
    <3> QED
      BY <3>1, Zenon
  <2>1. PICK f \in [SUBSET (1..k) -> S] : Folds(k, f)
    <3>1. k <= n
      OBVIOUS
    <3> HIDE DEF Folds
    <3> QED
      BY <1>2, <3>1
  <2> DEFINE g == [s \in SUBSET (1..k + 1) |->
                     IF k + 1 \in s THEN step[<<f[s \ {k + 1}], k + 1>>] ELSE f[s]]
  <2>2. ASSUME NEW s \in SUBSET (1..k + 1), k + 1 \in s
        PROVE  /\ s \ {k + 1} \in SUBSET (1..k)
               /\ Max(s) = k + 1 /\ s # {}
    <3>1. s # {} /\ k + 1 \in Nat
      BY <2>2
    <3>2. Max(s) \in s /\ \A y \in s : y <= Max(s)
      BY <3>1, Greatest
    <3>3. Max(s) \in 1..k + 1 /\ k + 1 <= Max(s)
      BY <2>2, <3>2
    <3> QED
      BY <3>1, <3>3
  <2>3. ASSUME NEW s \in SUBSET (1..k + 1), k + 1 \notin s
        PROVE  /\ s \in SUBSET (1..k)
               /\ s # {} => Max(s) \in s
    <3>1. s \in SUBSET (1..k)
      BY <2>3
    <3>2. s # {} => Max(s) \in s
      BY <3>1, Greatest
    <3> QED
      BY <3>1, <3>2
  <2>4. g \in [SUBSET (1..k + 1) -> S]
    <3>1. ASSUME NEW s \in SUBSET (1..k + 1)
          PROVE  (IF k + 1 \in s THEN step[<<f[s \ {k + 1}], k + 1>>] ELSE f[s]) \in S
      <4>1. CASE k + 1 \in s
        <5>1. f[s \ {k + 1}] \in S /\ k + 1 \in 1..n
          BY <2>2, <4>1
        <5> QED
          BY <4>1, <5>1
      <4>2. CASE k + 1 \notin s
        BY <2>3, <4>2
      <4> QED
        BY <4>1, <4>2
    <3> QED
      BY <3>1
  <2>5. ASSUME NEW s \in SUBSET (1..k + 1)
        PROVE  g[s] = IF s = {} THEN base ELSE step[<<g[s \ {Max(s)}], Max(s)>>]
    <3>1. CASE k + 1 \in s
      <4>1. g[s] = step[<<f[s \ {k + 1}], k + 1>>]
        BY <3>1
      <4>2. s \ {k + 1} \in SUBSET (1..k + 1) /\ g[s \ {k + 1}] = f[s \ {k + 1}]
        OBVIOUS
      <4> HIDE DEF g
      <4> QED
        BY <2>2, <3>1, <4>1, <4>2
    <3>2. CASE k + 1 \notin s
      <4>1. g[s] = f[s] /\ s \in SUBSET (1..k)
        BY <2>3, <3>2
      <4>2. s # {} => g[s \ {Max(s)}] = f[s \ {Max(s)}]
        BY <2>3, <3>2
      <4>3. f[s] = IF s = {} THEN base ELSE step[<<f[s \ {Max(s)}], Max(s)>>]
        BY <2>1, <4>1
      <4> HIDE DEF g
      <4> QED
        BY <4>1, <4>2, <4>3
    <3> QED
      BY <3>1, <3>2
  <2>6. Folds(k + 1, g)
    BY <2>5
  <2> HIDE DEF g
  <2> QED
    BY <2>4, <2>6
<1>3. n \in P
  <2> HIDE DEF P
  <2> QED
    BY <1>1, <1>2, SetInduction
<1> QED
  <2> HIDE DEF Folds
  <2>1. n <= n
    OBVIOUS
  <2>2. \E f \in [SUBSET (1..n) -> S] : Folds(n, f)
    BY <1>3, <2>1, Zenon
  <2> QED
    BY <2>2 DEF Folds, IsFold

LEMMA FoldReaches ==
  ASSUME NEW S, NEW n \in Nat, NEW f, f[{}] \in S,
         \A k \in 1..n : f[1..k - 1] \in S => f[1..k] \in S
  PROVE  f[1..n] \in S
<1> DEFINE P == {k \in Nat : k <= n => f[1..k] \in S}
<1>1. 0 \in P
  <2>1. 1..0 = {}
    OBVIOUS
  <2> QED
    BY <2>1
<1>2. ASSUME NEW k \in Nat, k \in P PROVE k + 1 \in P
  <2> SUFFICES ASSUME k + 1 <= n PROVE f[1..k + 1] \in S
    OBVIOUS
  <2>1. k + 1 \in 1..n /\ (k + 1) - 1 = k /\ f[1..k] \in S
    BY <1>2
  <2> QED
    BY <2>1
<1>3. n \in P
  <2> HIDE DEF P
  <2> QED
    BY <1>1, <1>2, SetInduction
<1> QED
  BY <1>3

(* A reservation more keeps a plan one of valid reservations.               *)
LEMMA AddReservationTyped ==
  ASSUME NEW plan \in Seq(Reservation), NEW r \in Reservation
  PROVE  AddReservation(plan, r) \in Seq(Reservation)
<1>1. CASE \E i \in DOMAIN plan : plan[i].key = r.key
  <2> DEFINE q == [i \in DOMAIN plan |->
                    IF plan[i].key = r.key /\ r.mode = "exclusive" THEN r ELSE plan[i]]
  <2>1. AddReservation(plan, r) = q
    BY <1>1 DEF AddReservation
  <2>2. Len(plan) \in Nat /\ DOMAIN plan = 1..Len(plan) /\ \A i \in 1..Len(plan) : plan[i] \in Reservation
    OBVIOUS
  <2>3. q \in [1..Len(plan) -> Reservation]
    BY <2>2
  <2> HIDE DEF q
  <2> QED
    BY <2>1, <2>2, <2>3, SeqDef
<1>2. CASE ~\E i \in DOMAIN plan : plan[i].key = r.key
  BY <1>2 DEF AddReservation
<1> QED
  BY <1>1, <1>2

LEMMA PlanIsTyped ==
  ASSUME NEW requests \in Seq(Reservation)
  PROVE  FoldLeft(AddReservation, <<>>, requests) \in Seq(Reservation)
<1> DEFINE S == Seq(Reservation)
           n == Len(requests)
           none == <<>>
           step == [p \in S \X (1..n) |-> AddReservation(p[1], requests[p[2]])]
           Unfolds(f) == f = [s \in SUBSET DOMAIN requests |->
                 IF s = {} THEN <<>> ELSE AddReservation(f[s \ {Max(s)}], requests[Max(s)])]
           iter == CHOOSE f : Unfolds(f)
<1>1. n \in Nat /\ DOMAIN requests = 1..n /\ none \in S /\ \A i \in 1..n : requests[i] \in Reservation
  OBVIOUS
<1>2. step \in [S \X (1..n) -> S]
  <2>1. \A p \in S \X (1..n) : p[1] \in S /\ requests[p[2]] \in Reservation
    BY <1>1
  <2>2. \A p \in S \X (1..n) : AddReservation(p[1], requests[p[2]]) \in S
    BY <2>1, AddReservationTyped
  <2> QED
    BY <2>2
<1>3. \A v \in S, x \in 1..n : step[<<v, x>>] = AddReservation(v, requests[x])
  OBVIOUS
<1> HIDE DEF S, n, none, step
<1>4. PICK f \in [SUBSET (1..n) -> S] : IsFold(f, n, none, step)
  BY <1>1, <1>2, FoldExists, Zenon
<1>5. Unfolds(f)
  <2>1. ASSUME NEW s \in SUBSET (1..n)
        PROVE  f[s] = IF s = {} THEN <<>> ELSE AddReservation(f[s \ {Max(s)}], requests[Max(s)])
    <3>1. s # {} => Max(s) \in 1..n
      BY <1>1, Greatest
    <3>2. f[s \ {Max(s)}] \in S
      OBVIOUS
    <3> QED
      BY <1>3, <1>4, <3>1, <3>2 DEF none, IsFold
  <2> QED
    BY <1>1, <2>1
<1>6. Unfolds(iter)
  <2>1. \E g : Unfolds(g)
    BY <1>5
  <2> HIDE DEF Unfolds
  <2> QED
    BY <2>1
<1>7. FoldLeft(AddReservation, <<>>, requests) = iter[DOMAIN requests]
  BY DEF FoldLeft, MapThenFoldSet
<1> HIDE DEF iter
<1>8. iter[{}] \in S
  BY <1>1, <1>6 DEF none
<1>9. ASSUME NEW k \in 1..n, iter[1..k - 1] \in S
      PROVE  iter[1..k] \in S
  <2>1. 1..k \in SUBSET (1..n) /\ 1..k # {} /\ Max(1..k) = k /\ (1..k) \ {k} = 1..k - 1
    BY <1>1, MaxOfInterval
  <2>2. iter[1..k] = AddReservation(iter[1..k - 1], requests[k])
    BY <1>1, <1>6, <2>1
  <2>3. iter[1..k - 1] \in Seq(Reservation) /\ requests[k] \in Reservation
    BY <1>1, <1>9 DEF S
  <2> QED
    BY <2>2, <2>3, AddReservationTyped DEF S
<1>10. iter[1..n] \in S
  BY <1>1, <1>8, <1>9, FoldReaches
<1> QED
  BY <1>1, <1>7, <1>10 DEF S

(* A catalog of pins, each once.                                           *)
Catalogs == {c \in Seq(Keys) : IsInjective(c)}

LEMMA AppendTyped ==
  ASSUME NEW c \in Catalogs, NEW pin \in Keys, pin \notin ToSet(c)
  PROVE  Append(c, pin) \in Catalogs
<1>1. c \in Seq(Keys) /\ Len(c) \in Nat /\ DOMAIN c = 1..Len(c)
  BY DEF Catalogs
<1>2. Append(c, pin) \in Seq(Keys) /\ DOMAIN Append(c, pin) = 1..Len(c) + 1
  BY <1>1
<1>3. \A i \in 1..Len(c) + 1 :
        Append(c, pin)[i] = IF i = Len(c) + 1 THEN pin ELSE c[i]
  BY <1>1
<1>4. \A i \in 1..Len(c) : c[i] # pin
  BY <1>1 DEF ToSet
<1>5. \A i, j \in 1..Len(c) : c[i] = c[j] => i = j
  BY <1>1 DEF Catalogs, IsInjective
<1>6. \A i \in 1..Len(c) + 1 : i = Len(c) + 1 \/ i \in 1..Len(c)
  BY <1>1
<1> QED
  BY <1>2, <1>3, <1>4, <1>5, <1>6 DEF Catalogs, IsInjective

LEMMA AddCandidateTyped ==
  ASSUME NEW c \in Catalogs, NEW pin \in Keys
  PROVE  AddCandidate(c, pin) \in Catalogs
<1>1. CASE Contains(c, pin) \/ Len(c) = MaxCandidates
  BY <1>1 DEF AddCandidate
<1>2. CASE ~(Contains(c, pin) \/ Len(c) = MaxCandidates)
  <2>1. pin \notin ToSet(c)
    BY <1>2 DEF Contains, ToSet, Catalogs
  <2> QED
    BY <1>2, <2>1, AppendTyped DEF AddCandidate
<1> QED
  BY <1>1, <1>2

LEMMA CandidatesTyped ==
  ASSUME NEW catalog \in Catalogs, NEW added \in Seq(Keys)
  PROVE  FoldLeft(AddCandidate, catalog, added) \in Catalogs
<1> DEFINE S == Catalogs
           n == Len(added)
           none == catalog
           step == [p \in S \X (1..n) |-> AddCandidate(p[1], added[p[2]])]
           Unfolds(f) == f = [s \in SUBSET DOMAIN added |->
                 IF s = {} THEN catalog ELSE AddCandidate(f[s \ {Max(s)}], added[Max(s)])]
           iter == CHOOSE f : Unfolds(f)
<1>1. n \in Nat /\ DOMAIN added = 1..n /\ none \in S /\ \A i \in 1..n : added[i] \in Keys
  OBVIOUS
<1>2. step \in [S \X (1..n) -> S]
  <2>1. \A p \in S \X (1..n) : p[1] \in S /\ added[p[2]] \in Keys
    BY <1>1
  <2>2. \A p \in S \X (1..n) : AddCandidate(p[1], added[p[2]]) \in S
    BY <2>1, AddCandidateTyped
  <2> QED
    BY <2>2
<1>3. \A v \in S, x \in 1..n : step[<<v, x>>] = AddCandidate(v, added[x])
  OBVIOUS
<1> HIDE DEF S, n, none, step
<1>4. PICK f \in [SUBSET (1..n) -> S] : IsFold(f, n, none, step)
  BY <1>1, <1>2, FoldExists, Zenon
<1>5. Unfolds(f)
  <2>1. ASSUME NEW s \in SUBSET (1..n)
        PROVE  f[s] = IF s = {} THEN catalog ELSE AddCandidate(f[s \ {Max(s)}], added[Max(s)])
    <3>1. s # {} => Max(s) \in 1..n
      BY <1>1, Greatest
    <3>2. f[s \ {Max(s)}] \in S
      OBVIOUS
    <3> QED
      BY <1>3, <1>4, <3>1, <3>2 DEF none, IsFold
  <2> QED
    BY <1>1, <2>1
<1>6. Unfolds(iter)
  <2>1. \E g : Unfolds(g)
    BY <1>5
  <2> HIDE DEF Unfolds
  <2> QED
    BY <2>1
<1>7. FoldLeft(AddCandidate, catalog, added) = iter[DOMAIN added]
  BY DEF FoldLeft, MapThenFoldSet
<1> HIDE DEF iter
<1>8. iter[{}] \in S
  BY <1>1, <1>6 DEF none
<1>9. ASSUME NEW k \in 1..n, iter[1..k - 1] \in S
      PROVE  iter[1..k] \in S
  <2>1. 1..k \in SUBSET (1..n) /\ 1..k # {} /\ Max(1..k) = k /\ (1..k) \ {k} = 1..k - 1
    BY <1>1, MaxOfInterval
  <2>2. iter[1..k] = AddCandidate(iter[1..k - 1], added[k])
    BY <1>1, <1>6, <2>1
  <2>3. iter[1..k - 1] \in Catalogs /\ added[k] \in Keys
    BY <1>1, <1>9 DEF S
  <2> QED
    BY <2>2, <2>3, AddCandidateTyped DEF S
<1>10. iter[1..n] \in S
  BY <1>1, <1>8, <1>9, FoldReaches
<1> QED
  BY <1>1, <1>7, <1>10 DEF S

LEMMA AddHeaderTyped ==
  ASSUME NEW c \in Catalogs, NEW h \in PinHeader
  PROVE  AddHeader(c, h) \in Catalogs
<1>1. h.pins \in Seq(Keys)
  BY DEF PinHeader
<1> QED
  BY <1>1, CandidatesTyped DEF AddHeader

LEMMA CatalogIsTyped ==
  ASSUME NEW headers \in Seq(PinHeader)
  PROVE  FoldLeft(AddHeader, <<>>, headers) \in Catalogs
<1> DEFINE S == Catalogs
           n == Len(headers)
           none == <<>>
           step == [p \in S \X (1..n) |-> AddHeader(p[1], headers[p[2]])]
           Unfolds(f) == f = [s \in SUBSET DOMAIN headers |->
                 IF s = {} THEN <<>> ELSE AddHeader(f[s \ {Max(s)}], headers[Max(s)])]
           iter == CHOOSE f : Unfolds(f)
<1>1. n \in Nat /\ DOMAIN headers = 1..n /\ none \in S /\ \A i \in 1..n : headers[i] \in PinHeader
  BY DEF Catalogs, IsInjective
<1>2. step \in [S \X (1..n) -> S]
  <2>1. \A p \in S \X (1..n) : p[1] \in S /\ headers[p[2]] \in PinHeader
    BY <1>1
  <2>2. \A p \in S \X (1..n) : AddHeader(p[1], headers[p[2]]) \in S
    BY <2>1, AddHeaderTyped
  <2> QED
    BY <2>2
<1>3. \A v \in S, x \in 1..n : step[<<v, x>>] = AddHeader(v, headers[x])
  OBVIOUS
<1> HIDE DEF S, n, none, step
<1>4. PICK f \in [SUBSET (1..n) -> S] : IsFold(f, n, none, step)
  BY <1>1, <1>2, FoldExists, Zenon
<1>5. Unfolds(f)
  <2>1. ASSUME NEW s \in SUBSET (1..n)
        PROVE  f[s] = IF s = {} THEN <<>> ELSE AddHeader(f[s \ {Max(s)}], headers[Max(s)])
    <3>1. s # {} => Max(s) \in 1..n
      BY <1>1, Greatest
    <3>2. f[s \ {Max(s)}] \in S
      OBVIOUS
    <3> QED
      BY <1>3, <1>4, <3>1, <3>2 DEF none, IsFold
  <2> QED
    BY <1>1, <2>1
<1>6. Unfolds(iter)
  <2>1. \E g : Unfolds(g)
    BY <1>5
  <2> HIDE DEF Unfolds
  <2> QED
    BY <2>1
<1>7. FoldLeft(AddHeader, <<>>, headers) = iter[DOMAIN headers]
  BY DEF FoldLeft, MapThenFoldSet
<1> HIDE DEF iter
<1>8. iter[{}] \in S
  BY <1>1, <1>6 DEF none
<1>9. ASSUME NEW k \in 1..n, iter[1..k - 1] \in S
      PROVE  iter[1..k] \in S
  <2>1. 1..k \in SUBSET (1..n) /\ 1..k # {} /\ Max(1..k) = k /\ (1..k) \ {k} = 1..k - 1
    BY <1>1, MaxOfInterval
  <2>2. iter[1..k] = AddHeader(iter[1..k - 1], headers[k])
    BY <1>1, <1>6, <2>1
  <2>3. iter[1..k - 1] \in Catalogs /\ headers[k] \in PinHeader
    BY <1>1, <1>9 DEF S
  <2> QED
    BY <2>2, <2>3, AddHeaderTyped DEF S
<1>10. iter[1..n] \in S
  BY <1>1, <1>8, <1>9, FoldReaches
<1> QED
  BY <1>1, <1>7, <1>10 DEF S
LEMMA PlanTyped == board \in Boards => FixedResourcePlan \in Seq(Reservation)
  BY PlanIsTyped, BoardsAssumption DEF FixedResourcePlan

LEMMA CatalogTyped == board \in Boards => GpioPinCatalog \in Catalogs
  BY CatalogIsTyped, BoardsAssumption DEF GpioPinCatalog

LEMMA NoPins == <<>> \in Catalogs /\ ToSet(<<>>) = {}
  BY DEF Catalogs, IsInjective, ToSet

LEMMA AppendPins ==
  ASSUME NEW c \in Catalogs, NEW pin \in Keys
  PROVE  ToSet(Append(c, pin)) = ToSet(c) \cup {pin}
<1>1. c \in Seq(Keys) /\ Len(c) \in Nat /\ DOMAIN c = 1..Len(c)
  BY DEF Catalogs
<1>2. DOMAIN Append(c, pin) = 1..Len(c) + 1
  BY <1>1
<1>3. \A i \in 1..Len(c) + 1 :
        Append(c, pin)[i] = IF i = Len(c) + 1 THEN pin ELSE c[i]
  BY <1>1
<1>4. \A i \in 1..Len(c) + 1 : i = Len(c) + 1 \/ i \in 1..Len(c)
  BY <1>1
<1>5. Len(c) + 1 \in 1..Len(c) + 1 /\ \A i \in 1..Len(c) : i \in 1..Len(c) + 1 /\ i # Len(c) + 1
  BY <1>1
<1> QED
  BY <1>1, <1>2, <1>3, <1>4, <1>5 DEF ToSet

LEMMA TailPins ==
  ASSUME NEW c \in Catalogs, c # <<>>
  PROVE  /\ Tail(c) \in Catalogs /\ Head(c) \in Keys
         /\ ToSet(Tail(c)) = ToSet(c) \ {Head(c)}
<1>1. /\ c \in Seq(Keys) /\ Len(c) \in Nat \ {0} /\ DOMAIN c = 1..Len(c)
      /\ Head(c) = c[1] /\ c[1] \in Keys
  BY DEF Catalogs
<1>2. Tail(c) \in Seq(Keys) /\ DOMAIN Tail(c) = 1..Len(c) - 1
  BY <1>1
<1>3. \A i \in 1..Len(c) - 1 : Tail(c)[i] = c[i + 1] /\ i + 1 \in 1..Len(c) /\ i + 1 # 1
  BY <1>1
<1>4. \A i, j \in 1..Len(c) : c[i] = c[j] => i = j
  BY <1>1 DEF Catalogs, IsInjective
<1>5. \A i \in 1..Len(c) : i # 1 => i - 1 \in 1..Len(c) - 1 /\ (i - 1) + 1 = i
  BY <1>1
<1>6. Tail(c) \in Catalogs
  <2>1. ASSUME NEW i \in 1..Len(c) - 1, NEW j \in 1..Len(c) - 1, Tail(c)[i] = Tail(c)[j]
        PROVE  i = j
    <3>1. c[i + 1] = c[j + 1] /\ i + 1 \in 1..Len(c) /\ j + 1 \in 1..Len(c)
      BY <1>3, <2>1
    <3>2. i + 1 = j + 1
      BY <1>4, <3>1
    <3> QED
      BY <3>2
  <2> QED
    BY <1>2, <2>1 DEF Catalogs, IsInjective
<1>7. ToSet(c) = {c[i] : i \in 1..Len(c)} /\ ToSet(Tail(c)) = {Tail(c)[i] : i \in 1..Len(c) - 1}
  BY <1>1, <1>2 DEF ToSet
<1>8. 1 \in 1..Len(c)
  BY <1>1
<1>9. ToSet(Tail(c)) \subseteq ToSet(c) \ {c[1]}
  BY <1>3, <1>4, <1>7, <1>8
<1>10. ASSUME NEW x \in ToSet(c) \ {c[1]} PROVE x \in ToSet(Tail(c))
  <2>1. PICK i \in 1..Len(c) : x = c[i] /\ i # 1
    BY <1>7, <1>10
  <2>2. i - 1 \in 1..Len(c) - 1 /\ Tail(c)[i - 1] = x
    BY <1>3, <1>5, <2>1
  <2> QED
    BY <1>7, <2>2
<1> QED
  BY <1>1, <1>6, <1>9, <1>10

LEMMA FrontPins ==
  ASSUME NEW c \in Catalogs, c # <<>>
  PROVE  /\ Front(c) \in Catalogs /\ Last(c) \in Keys
         /\ ToSet(Front(c)) = ToSet(c) \ {Last(c)}
<1>1. /\ c \in Seq(Keys) /\ Len(c) \in Nat \ {0} /\ DOMAIN c = 1..Len(c)
      /\ Last(c) = c[Len(c)] /\ c[Len(c)] \in Keys
  BY DEF Catalogs, Last
<1>2. /\ Front(c) \in Seq(Keys) /\ DOMAIN Front(c) = 1..Len(c) - 1
      /\ \A i \in 1..Len(c) - 1 : Front(c)[i] = c[i]
  BY <1>1 DEF Front
<1>3. \A i, j \in 1..Len(c) : c[i] = c[j] => i = j
  BY <1>1 DEF Catalogs, IsInjective
<1>4. \A i \in 1..Len(c) : (i \in 1..Len(c) - 1) <=> (i # Len(c))
  <2>1. ASSUME NEW n \in Nat, NEW i \in 1..n PROVE (i \in 1..n - 1) <=> (i # n)
    OBVIOUS
  <2>2. Len(c) \in Nat
    BY <1>1
  <2> HIDE DEF Catalogs
  <2> QED
    BY <2>1, <2>2
<1>5. \A i \in 1..Len(c) - 1 : i \in 1..Len(c) /\ Len(c) \in 1..Len(c)
  BY <1>1
<1>6. Front(c) \in Catalogs
  BY <1>2, <1>3, <1>5 DEF Catalogs, IsInjective
<1>7. ToSet(c) = {c[i] : i \in 1..Len(c)} /\ ToSet(Front(c)) = {Front(c)[i] : i \in 1..Len(c) - 1}
  BY <1>1, <1>2 DEF ToSet
<1>8. ASSUME NEW x \in ToSet(Front(c)) PROVE x \in ToSet(c) \ {c[Len(c)]}
  <2>1. PICK i \in 1..Len(c) - 1 : x = c[i]
    BY <1>2, <1>7, <1>8
  <2>2. i \in 1..Len(c) /\ Len(c) \in 1..Len(c) /\ i # Len(c)
    BY <1>4, <1>5, <2>1
  <2> QED
    BY <1>3, <1>7, <2>1, <2>2
<1>9. ASSUME NEW x \in ToSet(c) \ {c[Len(c)]} PROVE x \in ToSet(Front(c))
  <2>1. PICK i \in 1..Len(c) : x = c[i] /\ i # Len(c)
    BY <1>7, <1>9
  <2>2. i \in 1..Len(c) - 1 /\ Front(c)[i] = x
    BY <1>2, <1>4, <2>1
  <2> QED
    BY <1>7, <2>2
<1> QED
  BY <1>1, <1>6, <1>8, <1>9

-----------------------------------------------------------------------------
(* The users of the broker.                                                 *)

LEMMA Holding ==
  ASSUME NEW k \in Keys, NEW o \in Owners
  PROVE  HeldBy(k, o) <=> RefsOf(k)[o] > 0
  BY DEF HeldBy, RefsOf, Nothing

\* The toolbox has leased what it lists, once and alone.
PinsInv ==
  /\ pins \in Catalogs
  /\ \A k \in Keys : k \in ToSet(pins) <=> RefsOf(k)[Toolbox] > 0
  /\ \A k \in ToSet(pins) :
       ModeOf(k) = "exclusive" /\ RefsOf(k) = [Nothing EXCEPT ![Toolbox] = 1]

\* What the toolbox still tries it has not leased.
AtInv ==
  /\ board \in Boards
  /\ at = "stopped" => pins = <<>>
  /\ at # "stopped" => platform = "on"
  /\ at \in {"acquire", "configure"} => todo \in Catalogs
  /\ at = "acquire" => ToSet(todo) \cap ToSet(pins) = {}
  /\ at = "configure" => /\ todo # <<>> /\ pins # <<>>
                         /\ ToSet(Tail(todo)) \cap ToSet(pins) = {}

Reserved(n) == \A i \in 1..n : RefsOf(FixedResourcePlan[i].key)[System] > 0

\* While it starts the platform holds what it has gone through of its plan.
PlanInv ==
  /\ platform = "on" => Reserved(Len(FixedResourcePlan))
  /\ platform = "starting" =>
       /\ at = "stopped" /\ todo \in Seq(Reservation)
       /\ Len(todo) <= Len(FixedResourcePlan)
       /\ Reserved(Len(FixedResourcePlan) - Len(todo))
       /\ \A i \in 1..Len(todo) :
            todo[i] = FixedResourcePlan[Len(FixedResourcePlan) - Len(todo) + i]

ToolboxInv == IInv /\ PinsInv /\ AtInv /\ PlanInv

\* A step of one owner on one resource.
Touches(k, o) ==
  /\ \A l \in Keys \ {k} : RefsOf(l)' = RefsOf(l) /\ ModeOf(l)' = ModeOf(l)
  /\ \A q \in Owners \ {o} : RefsOf(k)'[q] = RefsOf(k)[q]

LEMMA CompatibleMeans ==
  ASSUME NEW k \in Keys, NEW o \in Owners, NEW m \in Modes, Lease!Compatible(k, o, m)
  PROVE  \/ RefsOf(k) = Nothing
         \/ RefsOf(k)[o] > 0
         \/ ModeOf(k) = "shared" /\ m = "shared"
<1>1. \/ [l \in Keys |-> RefsOf(l)][k] = Nothing
      \/ [l \in Keys |-> RefsOf(l)][k][o] > 0
      \/ [l \in Keys |-> ModeOf(l)][k] = "shared" /\ m = "shared"
  BY Zenon DEF Lease!Compatible, Lease!Nothing, Nothing
<1> QED
  BY <1>1

LEMMA ReserveTouches ==
  ASSUME IInv, NEW k \in Keys, NEW o \in Owners, NEW m \in Modes, Reserve(k, o, m)
  PROVE  /\ IInv' /\ Touches(k, o) /\ RefsOf(k)'[o] > 0
         /\ \/ RefsOf(k) = Nothing /\ ModeOf(k)' = m
            \/ RefsOf(k)[o] > 0
            \/ ModeOf(k) = "shared" /\ m = "shared"
         /\ RefsOf(k)' = [RefsOf(k) EXCEPT ![o] = @ + 1]
<1>1. IInv' /\ Lease!Grant(k, o, m)
  BY ReserveStep
<1> DEFINE refs == [l \in Keys |-> RefsOf(l)]
           mode == [l \in Keys |-> ModeOf(l)]
           refs2 == [l \in Keys |-> RefsOf(l)']
           mode2 == [l \in Keys |-> ModeOf(l)']
<1>2. /\ refs[k] = Nothing \/ refs[k][o] > 0 \/ (mode[k] = "shared" /\ m = "shared")
      /\ refs2 = [refs EXCEPT ![k][o] = @ + 1]
      /\ mode2 = [mode EXCEPT ![k] = IF refs[k] = Nothing THEN m ELSE @]
  <2>1. refs[k] = Nothing \/ refs[k][o] > 0 \/ (mode[k] = "shared" /\ m = "shared")
    <3>1. Lease!Compatible(k, o, m)
      BY <1>1, Zenon DEF Lease!Grant
    <3>2. RefsOf(k) = Nothing \/ RefsOf(k)[o] > 0 \/ (ModeOf(k) = "shared" /\ m = "shared")
      BY <3>1, CompatibleMeans
    <3> QED
      BY <3>2
  <2>2. refs2 = [refs EXCEPT ![k][o] = @ + 1]
    BY <1>1, Zenon DEF Lease!Grant
  <2>3. mode2 = [mode EXCEPT ![k] = IF refs[k] = Nothing THEN m ELSE @]
    BY <1>1, Zenon DEF Lease!Grant, Lease!Nothing, Nothing
  <2> HIDE DEF refs, mode, refs2, mode2
  <2> QED
    BY <2>1, <2>2, <2>3
<1>3. \A l \in Keys : refs[l] \in [Owners -> Nat] /\ refs[l] = RefsOf(l) /\ mode[l] = ModeOf(l)
                      /\ refs2[l] = RefsOf(l)' /\ mode2[l] = ModeOf(l)'
  BY LeaseTypes
<1>4. DOMAIN refs = Keys /\ DOMAIN mode = Keys
  OBVIOUS
<1> HIDE DEF refs, mode, refs2, mode2
<1>5. /\ refs2[k] = [refs[k] EXCEPT ![o] = @ + 1]
      /\ mode2[k] = IF refs[k] = Nothing THEN m ELSE mode[k]
      /\ \A l \in Keys \ {k} : refs2[l] = refs[l] /\ mode2[l] = mode[l]
  BY <1>2, <1>4
<1>6. refs2[k][o] = refs[k][o] + 1 /\ refs[k][o] \in Nat
      /\ \A q \in Owners \ {o} : refs2[k][q] = refs[k][q]
  BY <1>3, <1>5
<1>7. Touches(k, o)
  BY <1>3, <1>5, <1>6 DEF Touches
<1>8. RefsOf(k)'[o] > 0
  <2>1. refs2[k][o] > 0
    BY <1>6
  <2> QED
    BY <1>3, <2>1
<1> QED
  BY <1>1, <1>2, <1>3, <1>5, <1>7, <1>8

LEMMA ReleaseTouches ==
  ASSUME IInv, NEW k \in Keys, NEW o \in Owners, Release(k, o)
  PROVE  /\ IInv' /\ Touches(k, o) /\ RefsOf(k)[o] > 0
         /\ RefsOf(k)' = [RefsOf(k) EXCEPT ![o] = @ - 1]
<1>1. IInv' /\ Lease!GiveBack(k, o)
  BY ReleaseStep
<1> DEFINE refs == [l \in Keys |-> RefsOf(l)]
           refs2 == [l \in Keys |-> RefsOf(l)']
           mode == [l \in Keys |-> ModeOf(l)]
           mode2 == [l \in Keys |-> ModeOf(l)']
<1>2. /\ refs[k][o] > 0 /\ refs2 = [refs EXCEPT ![k][o] = @ - 1]
      /\ \A l \in Keys \ {k} : mode2[l] = mode[l]
  BY <1>1 DEF Lease!GiveBack
<1>3. \A l \in Keys : refs[l] \in [Owners -> Nat] /\ refs[l] = RefsOf(l) /\ mode[l] = ModeOf(l)
                      /\ refs2[l] = RefsOf(l)' /\ mode2[l] = ModeOf(l)'
  BY LeaseTypes
<1>4. DOMAIN refs = Keys
  OBVIOUS
<1> HIDE DEF refs, mode, refs2, mode2
<1>5. refs2[k] = [refs[k] EXCEPT ![o] = @ - 1] /\ \A l \in Keys \ {k} : refs2[l] = refs[l]
  BY <1>2, <1>4
<1>6. \A q \in Owners \ {o} : refs2[k][q] = refs[k][q]
  BY <1>3, <1>5
<1>7. Touches(k, o)
  BY <1>2, <1>3, <1>5, <1>6 DEF Touches
<1> QED
  BY <1>1, <1>2, <1>3, <1>5, <1>7
\* Nothing touches a pin of the toolbox but the toolbox.
LEMMA OtherPins ==
  ASSUME PinsInv, NEW k \in Keys, NEW o \in Owners \ {Toolbox}, Touches(k, o),
         k \notin ToSet(pins), pins' = pins
  PROVE  PinsInv'
<1>1. Toolbox \in Owners
  BY OwnersAssumption
<1>2. \A l \in Keys : RefsOf(l)'[Toolbox] = RefsOf(l)[Toolbox]
  BY <1>1 DEF Touches
<1>3. \A l \in Keys : l \in ToSet(pins) => RefsOf(l)' = RefsOf(l) /\ ModeOf(l)' = ModeOf(l)
  BY DEF Touches
<1>4. ToSet(pins) \subseteq Keys
  BY DEF PinsInv, Catalogs, ToSet
<1>5. \A l \in Keys : l \in ToSet(pins)' <=> RefsOf(l)'[Toolbox] > 0
  BY <1>2 DEF PinsInv
<1>6. \A l \in ToSet(pins)' :
        ModeOf(l)' = "exclusive" /\ RefsOf(l)' = [Nothing EXCEPT ![Toolbox] = 1]
  BY <1>3, <1>4 DEF PinsInv
<1>7. pins' \in Catalogs
  BY DEF PinsInv
<1> QED
  BY <1>5, <1>6, <1>7 DEF PinsInv, Nothing

\* A reservation of somebody else leaves a pin of the toolbox alone.
LEMMA PinsExclude ==
  ASSUME IInv, PinsInv, NEW k \in Keys, NEW o \in Owners \ {Toolbox},
         \/ RefsOf(k) = Nothing
         \/ RefsOf(k)[o] > 0
         \/ ModeOf(k) = "shared"
  PROVE  k \notin ToSet(pins)
<1> SUFFICES ASSUME k \in ToSet(pins) PROVE FALSE
  OBVIOUS
<1>1. ModeOf(k) = "exclusive" /\ RefsOf(k) = [Nothing EXCEPT ![Toolbox] = 1]
  BY DEF PinsInv
<1>2. Toolbox \in Owners
  BY OwnersAssumption
<1>3. RefsOf(k)[o] = 0 /\ RefsOf(k)[Toolbox] = 1 /\ Nothing[Toolbox] = 0
  BY <1>1, <1>2 DEF Nothing
<1> QED
  BY <1>1, <1>3

LEMMA PlanKept ==
  ASSUME PlanInv, board \in Boards, board' = board, platform = "on", platform' = "on",
         NEW k \in Keys, NEW o \in Owners \ {System}, Touches(k, o)
  PROVE  PlanInv'
<1>1. PICK plan : plan = FixedResourcePlan
  OBVIOUS
<1>2. plan = FixedResourcePlan'
  BY <1>1 DEF FixedResourcePlan
<1>3. \A i \in 1..Len(plan) : plan[i].key \in Keys
  <2>1. plan \in Seq(Reservation)
    BY <1>1, PlanTyped
  <2>2. \A i \in 1..Len(plan) : plan[i] \in Reservation
    BY <2>1
  <2> QED
    BY <2>2 DEF Reservation
<1>4. System \in Owners
  BY OwnersAssumption
<1>5. \A l \in Keys : RefsOf(l)'[System] = RefsOf(l)[System]
  BY <1>4 DEF Touches
<1>6. \A i \in 1..Len(plan) : RefsOf(plan[i].key)[System] > 0
  BY <1>1 DEF PlanInv, Reserved
<1>7. \A i \in 1..Len(plan) : RefsOf(plan[i].key)'[System] > 0
  BY <1>3, <1>5, <1>6
<1>8. Reserved(Len(FixedResourcePlan))'
  BY <1>2, <1>7 DEF Reserved
<1> QED
  BY <1>8 DEF PlanInv

LEMMA SamePlan ==
  ASSUME PlanInv, board' = board, platform' = platform, platform = "on", slots' = slots
  PROVE  PlanInv'
<1>1. Reserved(Len(FixedResourcePlan))' <=> Reserved(Len(FixedResourcePlan))
  BY DEF Reserved, FixedResourcePlan, RefsOf, Held, Find, Matches
<1> QED
  BY <1>1 DEF PlanInv

LEMMA SamePins ==
  ASSUME IInv, slots' = slots
  PROVE  /\ IInv'
         /\ \A k \in Keys : RefsOf(k)' = RefsOf(k) /\ ModeOf(k)' = ModeOf(k)
         /\ PinsInv /\ pins' = pins => PinsInv'
<1>1. IInv'
  BY SameSlots
<1>2. \A k \in Keys : RefsOf(k)' = RefsOf(k) /\ ModeOf(k)' = ModeOf(k)
  BY DEF RefsOf, ModeOf, Held, Find, Matches
<1>3. ASSUME PinsInv, pins' = pins PROVE PinsInv'
  <2>1. ToSet(pins) \subseteq Keys
    BY <1>3 DEF PinsInv, Catalogs, ToSet
  <2>2. \A k \in ToSet(pins) : RefsOf(k)' = RefsOf(k) /\ ModeOf(k)' = ModeOf(k)
    BY <1>2, <2>1
  <2> QED
    BY <1>2, <1>3, <2>2 DEF PinsInv, Nothing
<1> QED
  BY <1>1, <1>2, <1>3

LEMMA InitToolbox == ToolboxInit => ToolboxInv
<1> SUFFICES ASSUME ToolboxInit PROVE ToolboxInv
  OBVIOUS
<1>1. IInv
  BY InitInv DEF ToolboxInit
<1>2. \A k \in Keys : RefsOf(k) = Nothing
  BY DEF ToolboxInit, Init, Indices, Free, RefsOf, Held, Matches
<1>3. PinsInv
  BY <1>2, NoPins, OwnersAssumption DEF PinsInv, ToolboxInit, Nothing
<1>4. AtInv /\ PlanInv
  BY DEF AtInv, PlanInv, ToolboxInit
<1> QED
  BY <1>1, <1>3, <1>4 DEF ToolboxInv

-----------------------------------------------------------------------------
(* The platform's steps.                                                    *)

LEMMA NoPinsKept ==
  ASSUME IInv, PinsInv, pins = <<>>, pins' = <<>>,
         \A k \in Keys : RefsOf(k)'[Toolbox] = RefsOf(k)[Toolbox]
  PROVE  PinsInv'
  BY NoPins DEF PinsInv

LEMMA ReserveFixedStep ==
  ASSUME ToolboxInv, ReserveFixed
  PROVE  /\ ToolboxInv'
         /\ \E k \in Keys, o \in Owners, m \in Modes : Reserve(k, o, m)
<1>1. /\ platform = "starting" /\ todo # <<>>
      /\ Reserve(Head(todo).key, System, Head(todo).mode)
      /\ todo' = Tail(todo) /\ board' = board /\ platform' = platform /\ at' = at /\ pins' = pins
  BY DEF ReserveFixed
<1>p. PICK plan, left, n : plan = FixedResourcePlan /\ left = todo /\ n = Len(plan) - Len(left)
  OBVIOUS
<1>2. /\ at = "stopped" /\ left \in Seq(Reservation) /\ Len(left) <= Len(plan)
      /\ \A i \in 1..n : RefsOf(plan[i].key)[System] > 0
      /\ \A i \in 1..Len(left) : left[i] = plan[n + i]
  BY <1>1, <1>p DEF ToolboxInv, PlanInv, Reserved
<1>3. plan \in Seq(Reservation) /\ FixedResourcePlan' = plan /\ Len(plan) \in Nat
  BY <1>1, <1>p, PlanTyped DEF ToolboxInv, AtInv, FixedResourcePlan
<1>4. /\ Len(left) \in Nat \ {0} /\ Head(left) = left[1] /\ left[1] \in Reservation
      /\ Tail(left) \in Seq(Reservation) /\ Len(Tail(left)) = Len(left) - 1
      /\ \A i \in 1..Len(left) - 1 : Tail(left)[i] = left[i + 1]
  BY <1>1, <1>2, <1>p
<1>5. PICK k \in Keys, m \in Modes : k = left[1].key /\ m = left[1].mode
  BY <1>4 DEF Reservation
<1>q. Reserve(k, System, m) /\ System \in Owners
  BY <1>1, <1>4, <1>5, <1>p, OwnersAssumption
<1>6. IInv' /\ Touches(k, System) /\ RefsOf(k)'[System] > 0
  BY <1>q, ReserveTouches DEF ToolboxInv
<1>7. \A l \in Keys : RefsOf(l)'[Toolbox] = RefsOf(l)[Toolbox]
  BY <1>6, <1>q, OwnersAssumption DEF Touches
<1>8. PinsInv'
  BY <1>1, <1>2, <1>7, NoPinsKept DEF ToolboxInv, AtInv
<1>9. AtInv'
  BY <1>1, <1>2 DEF ToolboxInv, AtInv
<1>10. n \in Nat /\ n + 1 \in 1..Len(plan) /\ Len(plan) - (Len(left) - 1) = n + 1
  BY <1>2, <1>3, <1>4, <1>p
<1>11. ASSUME NEW i \in 1..n + 1 PROVE RefsOf(plan[i].key)'[System] > 0
  <2>1. i \in 1..Len(plan) /\ plan[i].key \in Keys
    <3>1. i \in 1..Len(plan)
      BY <1>3, <1>10
    <3>2. plan[i] \in Reservation
      BY <1>3, <3>1
    <3> QED
      BY <3>1, <3>2 DEF Reservation
  <2>2. CASE plan[i].key = k
    BY <1>6, <2>2
  <2>3. CASE plan[i].key # k
    <3>1. i # n + 1
      <4>1. 1 \in 1..Len(left)
        BY <1>4
      <4>2. left[1] = plan[n + 1]
        BY <1>2, <4>1
      <4> QED
        BY <1>5, <2>3, <4>2
    <3>2. i \in 1..n
      BY <1>10, <1>11, <3>1
    <3>3. RefsOf(plan[i].key)' = RefsOf(plan[i].key)
      BY <1>6, <2>1, <2>3 DEF Touches
    <3> QED
      BY <1>2, <3>2, <3>3
  <2> QED
    BY <2>2, <2>3
<1>12. ASSUME NEW i \in 1..Len(left) - 1 PROVE Tail(left)[i] = plan[n + 1 + i]
  <2>1. i + 1 \in 1..Len(left) /\ n + (i + 1) = n + 1 + i
    BY <1>4, <1>10
  <2> QED
    BY <1>2, <1>4, <2>1
<1>13. PlanInv'
  <2>1. todo' = Tail(left) /\ Len(plan) - Len(Tail(left)) = n + 1
    BY <1>1, <1>4, <1>10, <1>p
  <2>2. Reserved(Len(FixedResourcePlan) - Len(todo))'
    <3>1. \A i \in 1..Len(plan) - Len(Tail(left)) : RefsOf(plan[i].key)'[System] > 0
      BY <1>11, <2>1
    <3> QED
      BY <1>3, <2>1, <3>1 DEF Reserved
  <2>3. \A i \in 1..Len(Tail(left)) : Tail(left)[i] = plan[Len(plan) - Len(Tail(left)) + i]
    BY <1>4, <1>12, <2>1
  <2>4. Len(Tail(left)) <= Len(plan)
    BY <1>2, <1>3, <1>4
  <2> QED
    BY <1>1, <1>2, <1>3, <1>4, <2>1, <2>2, <2>3, <2>4 DEF PlanInv
<1> QED
  BY <1>q, <1>6, <1>8, <1>9, <1>13 DEF ToolboxInv

LEMMA PlatformStep ==
  ASSUME ToolboxInv, PlatformStart \/ PlatformStarted \/ PlatformFails \/ PlatformStop
  PROVE  ToolboxInv' /\ (slots' = slots \/ Reset)
<1> USE DEF ToolboxInv
<1>1. ASSUME PlatformStart PROVE ToolboxInv' /\ slots' = slots
  <2>1. /\ platform = "off" /\ platform' = "starting" /\ todo' = FixedResourcePlan
        /\ UNCHANGED <<slots, board, at, pins>>
    BY <1>1 DEF PlatformStart
  <2>2. IInv' /\ PinsInv'
    BY <2>1, SamePins
  <2>3. AtInv' /\ at' = "stopped"
    BY <2>1 DEF AtInv
  <2>4. FixedResourcePlan \in Seq(Reservation) /\ FixedResourcePlan' = FixedResourcePlan
    BY <2>1, PlanTyped DEF AtInv, FixedResourcePlan
  <2> HIDE DEF FixedResourcePlan
  <2>5. PlanInv'
    <3>1. Len(todo') = Len(FixedResourcePlan) /\ Len(FixedResourcePlan) \in Nat
      BY <2>1, <2>4
    <3>2. \A i \in 1..Len(FixedResourcePlan) - Len(todo') : FALSE
      BY <3>1
    <3>3. \A i \in 1..Len(todo') :
            todo'[i] = FixedResourcePlan[Len(FixedResourcePlan) - Len(todo') + i]
      BY <2>1, <3>1
    <3>4. Len(FixedResourcePlan') - Len(todo') = Len(FixedResourcePlan) - Len(todo')
      BY <2>4
    <3>5. Reserved(Len(FixedResourcePlan) - Len(todo))'
      BY <3>2, <2>4 DEF Reserved
    <3> QED
      BY <2>1, <2>3, <2>4, <3>1, <3>3, <3>5 DEF PlanInv
  <2> QED
    BY <2>1, <2>2, <2>3, <2>5
<1>2. ASSUME PlatformStarted PROVE ToolboxInv' /\ slots' = slots
  <2>1. /\ platform = "starting" /\ todo = <<>> /\ platform' = "on"
        /\ UNCHANGED <<slots, board, at, todo, pins>>
    BY <1>2 DEF PlatformStarted
  <2>2. IInv' /\ PinsInv' /\ \A k \in Keys : RefsOf(k)' = RefsOf(k)
    BY <2>1, SamePins
  <2>3. AtInv'
    BY <2>1 DEF AtInv, PlanInv
  <2>4. FixedResourcePlan \in Seq(Reservation)
    BY PlanTyped DEF AtInv
  <2>5. Reserved(Len(FixedResourcePlan))
    <3> HIDE DEF FixedResourcePlan
    <3>1. Len(FixedResourcePlan) - Len(todo) = Len(FixedResourcePlan)
      BY <2>1, <2>4
    <3> QED
      BY <2>1, <3>1 DEF PlanInv
  <2>6. Reserved(Len(FixedResourcePlan))'
    BY <2>1, <2>5 DEF Reserved, FixedResourcePlan, RefsOf, Held, Find, Matches
  <2> QED
    BY <2>1, <2>2, <2>3, <2>6 DEF PlanInv
<1>3. ASSUME PlatformFails \/ PlatformStop PROVE ToolboxInv' /\ Reset
  <2>1. /\ Reset /\ platform' = "off" /\ at = "stopped" /\ at' = at /\ pins' = pins /\ board' = board
    BY <1>3 DEF PlatformFails, PlatformStop, PlanInv
  <2>2. IInv'
    BY <2>1, ResetInv
  <2>3. \A i \in Indices : slots'[i].active = FALSE
    BY <2>1 DEF Reset, Free
  <2>4. \A k \in Keys : RefsOf(k)' = Nothing
    BY <2>3 DEF Held, Matches, RefsOf, Nothing
  <2>5. pins' = <<>>
    BY <2>1 DEF AtInv
  <2>6. PinsInv'
    BY <2>4, <2>5, NoPins, OwnersAssumption DEF PinsInv, Nothing
  <2>7. AtInv' /\ PlanInv'
    BY <2>1 DEF AtInv, PlanInv
  <2> QED
    BY <2>1, <2>2, <2>6, <2>7
<1> QED
  BY <1>1, <1>2, <1>3
-----------------------------------------------------------------------------
(* The toolbox's steps and the expansion's.                                 *)

\* An owner that holds a pin of the toolbox is the toolbox.
LEMMA ToolboxOwner == Toolbox \in Owners /\ System \in Owners /\ Toolbox # System
  BY OwnersAssumption

LEMMA AcquireStepInv ==
  ASSUME ToolboxInv, AcquirePin
  PROVE  /\ ToolboxInv'
         /\ \E k \in Keys, o \in Owners, m \in Modes : Reserve(k, o, m)
<1>1. /\ at = "acquire" /\ todo # <<>> /\ Reserve(Head(todo), Toolbox, "exclusive")
      /\ at' = "configure" /\ pins' = Append(pins, Head(todo))
      /\ UNCHANGED <<board, platform, todo>>
  BY DEF AcquirePin
<1>2. todo \in Catalogs /\ platform = "on" /\ ToSet(todo) \cap ToSet(pins) = {} /\ pins \in Catalogs
  BY <1>1 DEF ToolboxInv, AtInv, PinsInv
<1>3. Head(todo) \in Keys /\ ToSet(Tail(todo)) = ToSet(todo) \ {Head(todo)} /\ Head(todo) \in ToSet(todo)
  <2>1. Head(todo) = todo[1] /\ 1 \in DOMAIN todo
    BY <1>1, <1>2 DEF Catalogs
  <2> QED
    BY <1>1, <1>2, <2>1, TailPins DEF ToSet
<1>4. PICK k \in Keys : k = Head(todo)
  BY <1>3
<1>5. k \notin ToSet(pins) /\ Reserve(k, Toolbox, "exclusive")
  BY <1>1, <1>2, <1>3, <1>4
<1>6. "exclusive" \in Modes /\ Toolbox \in Owners
  BY ToolboxOwner DEF Modes
<1>7. /\ IInv' /\ Touches(k, Toolbox) /\ RefsOf(k)'[Toolbox] > 0
      /\ \/ RefsOf(k) = Nothing /\ ModeOf(k)' = "exclusive"
         \/ RefsOf(k)[Toolbox] > 0
      /\ RefsOf(k)' = [RefsOf(k) EXCEPT ![Toolbox] = @ + 1]
  BY <1>5, <1>6, ReserveTouches DEF ToolboxInv
<1>8. RefsOf(k)' = [Nothing EXCEPT ![Toolbox] = 1] /\ ModeOf(k)' = "exclusive"
  <2>1. ~(RefsOf(k)[Toolbox] > 0)
    BY <1>5 DEF ToolboxInv, PinsInv
  <2>2. RefsOf(k) = Nothing /\ ModeOf(k)' = "exclusive" /\ Nothing[Toolbox] = 0
    BY <1>6, <1>7, <2>1 DEF Nothing
  <2>3. RefsOf(k)' = [Nothing EXCEPT ![Toolbox] = Nothing[Toolbox] + 1]
    BY <1>7, <2>2
  <2> QED
    BY <2>2, <2>3
<1>9. pins' \in Catalogs /\ ToSet(pins') = ToSet(pins) \cup {k}
  BY <1>1, <1>2, <1>4, <1>5, AppendTyped, AppendPins
<1>10. \A l \in Keys \ {k} : RefsOf(l)' = RefsOf(l) /\ ModeOf(l)' = ModeOf(l)
  BY <1>7 DEF Touches
<1>11. ToSet(pins) \subseteq Keys
  BY <1>2 DEF Catalogs, ToSet
<1>12. PinsInv'
  <2>1. \A l \in Keys : l \in ToSet(pins') <=> RefsOf(l)'[Toolbox] > 0
    BY <1>7, <1>9, <1>10 DEF ToolboxInv, PinsInv
  <2>2. \A l \in ToSet(pins') :
          ModeOf(l)' = "exclusive" /\ RefsOf(l)' = [Nothing EXCEPT ![Toolbox] = 1]
    BY <1>5, <1>8, <1>9, <1>10, <1>11 DEF ToolboxInv, PinsInv
  <2> QED
    BY <1>9, <2>1, <2>2 DEF PinsInv, Nothing
<1>13. AtInv'
  <2>1. pins' # <<>>
    BY <1>9, NoPins
  <2>2. ToSet(Tail(todo)) \cap ToSet(pins') = {}
    BY <1>2, <1>3, <1>4, <1>9
  <2> QED
    BY <1>1, <1>2, <2>1, <2>2 DEF ToolboxInv, AtInv
<1>14. PlanInv'
  BY <1>1, <1>2, <1>7, ToolboxOwner, PlanKept DEF ToolboxInv, AtInv
<1> QED
  BY <1>5, <1>6, <1>7, <1>12, <1>13, <1>14 DEF ToolboxInv

\* A listed pin is given back and taken from the list.
LEMMA GiveBackInv ==
  ASSUME ToolboxInv, NEW k \in ToSet(pins), Release(k, Toolbox),
         pins' \in Catalogs, ToSet(pins') = ToSet(pins) \ {k},
         platform = "on", UNCHANGED <<board, platform>>
  PROVE  IInv' /\ PinsInv' /\ PlanInv' /\ k \in Keys
<1>1. pins \in Catalogs /\ ToSet(pins) \subseteq Keys
  BY DEF ToolboxInv, PinsInv, Catalogs, ToSet
<1>2. k \in Keys /\ Toolbox \in Owners
  BY <1>1, ToolboxOwner
<1>3. /\ IInv' /\ Touches(k, Toolbox)
      /\ RefsOf(k)' = [RefsOf(k) EXCEPT ![Toolbox] = @ - 1]
  BY <1>2, ReleaseTouches DEF ToolboxInv
<1>4. RefsOf(k) = [Nothing EXCEPT ![Toolbox] = 1]
  BY DEF ToolboxInv, PinsInv
<1>5. RefsOf(k)'[Toolbox] = 0
  BY <1>2, <1>3, <1>4 DEF Nothing
<1>6. \A l \in Keys \ {k} : RefsOf(l)' = RefsOf(l) /\ ModeOf(l)' = ModeOf(l)
  BY <1>3 DEF Touches
<1>7. PinsInv'
  <2>1. \A l \in Keys : l \in ToSet(pins') <=> RefsOf(l)'[Toolbox] > 0
    BY <1>5, <1>6 DEF ToolboxInv, PinsInv
  <2>2. \A l \in ToSet(pins') :
          ModeOf(l)' = "exclusive" /\ RefsOf(l)' = [Nothing EXCEPT ![Toolbox] = 1]
    BY <1>1, <1>6 DEF ToolboxInv, PinsInv
  <2> QED
    BY <2>1, <2>2 DEF PinsInv, Nothing
<1>8. PlanInv'
  BY <1>2, <1>3, ToolboxOwner, PlanKept DEF ToolboxInv, AtInv
<1> QED
  BY <1>2, <1>3, <1>7, <1>8

LEMMA DropStepInv ==
  ASSUME ToolboxInv, DropPin
  PROVE  ToolboxInv' /\ \E k \in Keys, o \in Owners : Release(k, o)
<1>1. /\ at = "configure" /\ Release(Last(pins), Toolbox) /\ pins' = Front(pins)
      /\ at' = "acquire" /\ todo' \in {Tail(todo), <<>>} /\ UNCHANGED <<board, platform>>
  BY DEF DropPin
<1>2. /\ todo \in Catalogs /\ todo # <<>> /\ pins # <<>> /\ platform = "on" /\ pins \in Catalogs
      /\ ToSet(Tail(todo)) \cap ToSet(pins) = {}
  BY <1>1 DEF ToolboxInv, AtInv, PinsInv
<1>3. Last(pins) \in ToSet(pins)
  <2>1. Last(pins) = pins[Len(pins)] /\ Len(pins) \in DOMAIN pins
    BY <1>2 DEF Last, Catalogs
  <2> QED
    BY <2>1 DEF ToSet
<1>4. PICK k \in ToSet(pins) : k = Last(pins)
  BY <1>3
<1>5. Release(k, Toolbox) /\ pins' \in Catalogs /\ ToSet(pins') = ToSet(pins) \ {k}
  BY <1>1, <1>2, <1>4, FrontPins
<1>6. IInv' /\ PinsInv' /\ PlanInv' /\ k \in Keys
  BY <1>1, <1>2, <1>5, GiveBackInv
<1>7. todo' \in Catalogs /\ ToSet(todo') \cap ToSet(pins') = {}
  BY <1>1, <1>2, <1>5, TailPins, NoPins
<1>8. AtInv'
  BY <1>1, <1>2, <1>7 DEF ToolboxInv, AtInv
<1> QED
  BY <1>5, <1>6, <1>8, ToolboxOwner DEF ToolboxInv

LEMMA ReleaseStepInv ==
  ASSUME ToolboxInv, ReleasePin
  PROVE  ToolboxInv' /\ \E k \in Keys, o \in Owners : Release(k, o)
<1>1. /\ at = "stopping" /\ pins # <<>> /\ Release(Head(pins), Toolbox)
      /\ pins' = Tail(pins) /\ UNCHANGED <<board, platform, at, todo>>
  BY DEF ReleasePin
<1>2. platform = "on" /\ pins \in Catalogs
  BY <1>1 DEF ToolboxInv, AtInv, PinsInv
<1>3. Head(pins) \in ToSet(pins)
  <2>1. Head(pins) = pins[1] /\ 1 \in DOMAIN pins
    BY <1>1, <1>2 DEF Catalogs
  <2> QED
    BY <2>1 DEF ToSet
<1>4. PICK k \in ToSet(pins) : k = Head(pins)
  BY <1>3
<1>5. Release(k, Toolbox) /\ pins' \in Catalogs /\ ToSet(pins') = ToSet(pins) \ {k}
  BY <1>1, <1>2, <1>4, TailPins
<1>6. IInv' /\ PinsInv' /\ PlanInv' /\ k \in Keys
  BY <1>1, <1>2, <1>5, GiveBackInv
<1>7. AtInv'
  BY <1>1, <1>2 DEF ToolboxInv, AtInv
<1> QED
  BY <1>5, <1>6, <1>7, ToolboxOwner DEF ToolboxInv

\* The toolbox goes on without the broker.
LEMMA ToolboxMoves ==
  ASSUME ToolboxInv,
         ToolboxStart \/ SkipPin \/ PinReady \/ ToolboxStarted \/ ToolboxStop \/ ToolboxStopped
  PROVE  ToolboxInv' /\ slots' = slots
<1>1. UNCHANGED <<slots, board, platform, pins>>
  BY DEF ToolboxStart, SkipPin, PinReady, ToolboxStarted, ToolboxStop, ToolboxStopped
<1>2. platform = "on"
  BY DEF ToolboxStart, SkipPin, PinReady, ToolboxStarted, ToolboxStop, ToolboxStopped, ToolboxInv, AtInv
<1>3. IInv' /\ PinsInv' /\ PlanInv'
  BY <1>1, <1>2, SamePins, SamePlan DEF ToolboxInv
<1>4. ASSUME ToolboxStart PROVE AtInv'
  <2>1. GpioPinCatalog \in Catalogs /\ at' = "acquire" /\ todo' = GpioPinCatalog /\ pins = <<>>
    BY <1>4, CatalogTyped DEF ToolboxStart, ToolboxInv, AtInv
  <2> HIDE DEF GpioPinCatalog
  <2> QED
    BY <1>1, <1>2, <2>1, NoPins DEF ToolboxInv, AtInv
<1>5. ASSUME SkipPin PROVE AtInv'
  <2>1. at = "acquire" /\ at' = at /\ todo # <<>> /\ todo' = Tail(todo)
    BY <1>5 DEF SkipPin
  <2>2. todo \in Catalogs /\ ToSet(todo) \cap ToSet(pins) = {}
    BY <2>1 DEF ToolboxInv, AtInv
  <2>3. todo' \in Catalogs /\ ToSet(todo') \cap ToSet(pins) = {}
    BY <2>1, <2>2, TailPins
  <2> QED
    BY <1>1, <1>2, <2>1, <2>3 DEF ToolboxInv, AtInv
<1>6. ASSUME PinReady PROVE AtInv'
  <2>1. at = "configure" /\ at' = "acquire" /\ todo' = Tail(todo)
    BY <1>6 DEF PinReady
  <2>2. todo \in Catalogs /\ todo # <<>> /\ ToSet(Tail(todo)) \cap ToSet(pins) = {}
    BY <2>1 DEF ToolboxInv, AtInv
  <2>3. todo' \in Catalogs /\ ToSet(todo') \cap ToSet(pins) = {}
    BY <2>1, <2>2, TailPins
  <2> QED
    BY <1>1, <1>2, <2>1, <2>3 DEF ToolboxInv, AtInv
<1>7. ASSUME ToolboxStarted \/ ToolboxStop \/ ToolboxStopped PROVE AtInv'
  BY <1>1, <1>2, <1>7 DEF ToolboxStarted, ToolboxStop, ToolboxStopped, ToolboxInv, AtInv
<1> QED
  BY <1>1, <1>3, <1>4, <1>5, <1>6, <1>7 DEF ToolboxInv

LEMMA ExpansionOwner == \A o \in Expansions : o \in Owners \ {Toolbox} /\ o \in Owners \ {System}
  BY OwnersAssumption

LEMMA ExpansionStep ==
  ASSUME ToolboxInv, ExpansionAcquire \/ ExpansionRelease
  PROVE  /\ ToolboxInv'
         /\ \/ \E k \in Keys, o \in Owners, m \in Modes : Reserve(k, o, m)
            \/ \E k \in Keys, o \in Owners : Release(k, o)
<1>1. platform = "on" /\ UNCHANGED <<board, platform, at, todo, pins>>
  BY DEF ExpansionAcquire, ExpansionRelease
<1>2. AtInv'
  BY <1>1 DEF ToolboxInv, AtInv
<1>3. ASSUME NEW k \in Keys, NEW o \in Expansions, NEW m \in Modes, Reserve(k, o, m)
      PROVE  ToolboxInv' /\ o \in Owners
  <2>1. /\ o \in Owners \ {Toolbox} /\ o \in Owners \ {System} /\ o \in Owners
    BY ExpansionOwner
  <2>2. /\ IInv' /\ Touches(k, o)
        /\ \/ RefsOf(k) = Nothing
           \/ RefsOf(k)[o] > 0
           \/ ModeOf(k) = "shared"
    BY <1>3, <2>1, ReserveTouches DEF ToolboxInv
  <2>3. k \notin ToSet(pins)
    BY <2>1, <2>2, PinsExclude DEF ToolboxInv
  <2>4. PinsInv'
    BY <1>1, <2>1, <2>2, <2>3, OtherPins DEF ToolboxInv
  <2>5. PlanInv'
    BY <1>1, <2>1, <2>2, PlanKept DEF ToolboxInv, AtInv
  <2> QED
    BY <1>2, <2>1, <2>2, <2>4, <2>5 DEF ToolboxInv
<1>4. ASSUME NEW k \in Keys, NEW o \in Expansions, Release(k, o)
      PROVE  ToolboxInv' /\ o \in Owners
  <2>1. /\ o \in Owners \ {Toolbox} /\ o \in Owners \ {System} /\ o \in Owners
    BY ExpansionOwner
  <2>2. IInv' /\ Touches(k, o) /\ RefsOf(k)[o] > 0
    BY <1>4, <2>1, ReleaseTouches DEF ToolboxInv
  <2>3. k \notin ToSet(pins)
    BY <2>1, <2>2, PinsExclude DEF ToolboxInv
  <2>4. PinsInv'
    BY <1>1, <2>1, <2>2, <2>3, OtherPins DEF ToolboxInv
  <2>5. PlanInv'
    BY <1>1, <2>1, <2>2, PlanKept DEF ToolboxInv, AtInv
  <2> QED
    BY <1>2, <2>1, <2>2, <2>4, <2>5 DEF ToolboxInv
<1> QED
  BY <1>3, <1>4 DEF ExpansionAcquire, ExpansionRelease

LEMMA ToolboxStep == ToolboxInv /\ [ToolboxNext]_toolboxVars => ToolboxInv' /\ [Next]_vars
<1> SUFFICES ASSUME ToolboxInv, [ToolboxNext]_toolboxVars
             PROVE  ToolboxInv' /\ [Next]_vars
  OBVIOUS
<1>1. ASSUME PlatformStart \/ PlatformStarted \/ PlatformFails \/ PlatformStop
      PROVE  ToolboxInv' /\ [Next]_vars
  BY <1>1, PlatformStep DEF Next, vars
<1>2. ASSUME ReserveFixed PROVE ToolboxInv' /\ [Next]_vars
  BY <1>2, ReserveFixedStep DEF Next
<1>3. ASSUME AcquirePin PROVE ToolboxInv' /\ [Next]_vars
  BY <1>3, AcquireStepInv DEF Next
<1>4. ASSUME DropPin \/ ReleasePin PROVE ToolboxInv' /\ [Next]_vars
  BY <1>4, DropStepInv, ReleaseStepInv DEF Next
<1>5. ASSUME ToolboxStart \/ SkipPin \/ PinReady \/ ToolboxStarted \/ ToolboxStop \/ ToolboxStopped
      PROVE  ToolboxInv' /\ [Next]_vars
  BY <1>5, ToolboxMoves DEF vars
<1>6. ASSUME ExpansionAcquire \/ ExpansionRelease PROVE ToolboxInv' /\ [Next]_vars
  BY <1>6, ExpansionStep DEF Next
<1>7. ASSUME UNCHANGED toolboxVars PROVE ToolboxInv' /\ [Next]_vars
  <2>1. UNCHANGED <<slots, board, platform, at, todo, pins>>
    BY <1>7 DEF toolboxVars
  <2>2. IInv' /\ PinsInv' /\ AtInv'
    BY <2>1, SamePins DEF ToolboxInv, AtInv
  <2>3. PlanInv'
    BY <2>1 DEF ToolboxInv, PlanInv, Reserved, FixedResourcePlan, RefsOf, Held, Find, Matches
  <2> QED
    BY <2>1, <2>2, <2>3 DEF ToolboxInv, vars
<1> QED
  BY <1>1, <1>2, <1>3, <1>4, <1>5, <1>6, <1>7 DEF ToolboxNext

-----------------------------------------------------------------------------
(* Theorems about the broker's users                                        *)

(***************************************************************************)
(* The hardware platform, the toolbox and the expansion code use the       *)
(* broker by reserve, release and reset only, so all that is proved of     *)
(* the broker holds under them.                                            *)
(***************************************************************************)
THEOREM ToolboxKeepsBroker == ToolboxSpec => Spec
<1>1. ToolboxInit => Init
  BY DEF ToolboxInit
<1> QED
  BY <1>1, InitToolbox, ToolboxStep, PTL DEF ToolboxSpec, Spec

(***************************************************************************)
(* The refinement of leases that the `resources' run checks under those    *)
(* users.                                                                  *)
(***************************************************************************)
THEOREM ToolboxImplementsLeases == ToolboxSpec => ImplementsLeases
  BY ToolboxKeepsBroker, BrokerImplementsLeases, PTL

(***************************************************************************)
(* On any board, with any headers and any committed resources, and at      *)
(* every point of its start and stop, the pins the toolbox lists are the   *)
(* pins it has leased, each once, exclusively and alone, and a platform    *)
(* that has started holds all the board commits.                           *)
(***************************************************************************)
THEOREM ToolboxOwnsItsPinsHolds == ToolboxSpec => []ToolboxOwnsItsPins
<1>1. ToolboxInv => ToolboxOwnsItsPins
  <2> SUFFICES ASSUME ToolboxInv PROVE ToolboxOwnsItsPins
    OBVIOUS
  <2>1. ToSet(pins) \subseteq Keys
    BY DEF ToolboxInv, PinsInv, Catalogs, ToSet
  <2>2. \A k \in Keys : HeldBy(k, Toolbox) <=> RefsOf(k)[Toolbox] > 0
    BY Holding, ToolboxOwner
  <2>3. \A k \in Keys : HeldBy(k, System) <=> RefsOf(k)[System] > 0
    BY Holding, ToolboxOwner
  <2>4. ToSet(pins) = {k \in Keys : HeldBy(k, Toolbox)}
    BY <2>1, <2>2 DEF ToolboxInv, PinsInv
  <2>5. ASSUME platform = "on", NEW i \in DOMAIN FixedResourcePlan
        PROVE  HeldBy(FixedResourcePlan[i].key, System)
    <3>1. PICK plan : plan = FixedResourcePlan
      OBVIOUS
    <3>2. plan \in Seq(Reservation) /\ i \in 1..Len(plan)
      BY <2>5, <3>1, PlanTyped DEF ToolboxInv, AtInv
    <3>3. plan[i] \in Reservation /\ plan[i].key \in Keys
      <4>1. plan[i] \in Reservation
        BY <3>2
      <4> QED
        BY <4>1 DEF Reservation
    <3>4. RefsOf(plan[i].key)[System] > 0
      BY <2>5, <3>1, <3>2 DEF ToolboxInv, PlanInv, Reserved
    <3> QED
      BY <2>3, <3>1, <3>3, <3>4
  <2> QED
    BY <2>4, <2>5 DEF ToolboxOwnsItsPins, ToolboxInv, PinsInv
<1> QED
  BY <1>1, InitToolbox, ToolboxStep, PTL DEF ToolboxSpec

-----------------------------------------------------------------------------
(***************************************************************************)
(* The shell.  An operator of the model takes the record ui apart and puts *)
(* it together again: a lemma for each says what it sets and what it keeps.*)
(***************************************************************************)

Prefs ==
  [dark : {0, 1}, brightness : 10..100, idle_brightness : 5..80, screen_timeout : 0..600,
   interface_scale : 90..120, audio_volume : 0..100, touch_sound : 0..100,
   haptic_feedback : 0..100]

Fields ==
  {"surface", "built", "shown", "palette", "title", "selected", "label", "values",
   "knobs", "prefs", "policy", "power", "idle", "backlight", "touch"}

IsUi(s) == DOMAIN s = Fields

\* t differs from s at most in the fields F.
Keeps(t, s, F) == IsUi(t) /\ \A f \in Fields \ F : t[f] = s[f]

Five == {"header", "content", "navigation", "drawer", "settings"}

\* the policy of preferences that are in their ranges
Policy(prefs) ==
  [brightness |-> prefs.brightness, dim |-> prefs.idle_brightness,
   timeout |-> prefs.screen_timeout]

\* the power state that the idle time calls for
Due(s) ==
  IF s.idle * Unit >= s.policy.timeout THEN "off"
  ELSE IF 2 * (s.idle * Unit) >= s.policy.timeout THEN "dimmed" ELSE "awake"

LEMMA ClampIn ==
  ASSUME NEW v \in Int, NEW low \in Int, NEW high \in Int, low <= high
  PROVE  /\ Clamp(v, low, high) \in low..high
         /\ v \in low..high => Clamp(v, low, high) = v
  BY DEF Clamp

LEMMA NoteActivityDoes ==
  ASSUME NEW s, IsUi(s), s.backlight = BrightnessFor(s.policy, s.power)
  PROVE  /\ Keeps(NoteActivity(s), s, {"idle", "power", "backlight"})
         /\ NoteActivity(s).idle = 0 /\ NoteActivity(s).power = "awake"
         /\ NoteActivity(s).backlight = BrightnessFor(s.policy, "awake")
  BY DEF IsUi, Keeps, Fields, NoteActivity

LEMMA UpdatePowerDoes ==
  ASSUME NEW s, IsUi(s), s.backlight = BrightnessFor(s.policy, s.power)
  PROVE  /\ Keeps(UpdatePower(s), s, {"power", "backlight"})
         /\ UpdatePower(s).power = IF s.policy.timeout <= 0 THEN s.power ELSE Due(s)
         /\ UpdatePower(s).backlight = BrightnessFor(s.policy, UpdatePower(s).power)
  BY DEF IsUi, Keeps, Fields, UpdatePower, Due

LEMMA ApplyPowerSettingsDoes ==
  ASSUME NEW s, IsUi(s), s.prefs \in Prefs
  PROVE  /\ Keeps(ApplyPowerSettings(s), s, {"policy", "backlight"})
         /\ ApplyPowerSettings(s).policy = Policy(s.prefs)
         /\ ApplyPowerSettings(s).backlight = BrightnessFor(Policy(s.prefs), s.power)
<1>1. /\ Clamp(s.prefs.brightness, 10, 100) = s.prefs.brightness
      /\ Clamp(s.prefs.idle_brightness, 5, 80) = s.prefs.idle_brightness
      /\ Clamp(s.prefs.screen_timeout, 0, 600) = s.prefs.screen_timeout
  BY SMTT(30) DEF Prefs, Clamp
<1>2. ApplyPowerSettings(s) =
        [s EXCEPT !.policy = Policy(s.prefs), !.backlight = BrightnessFor(Policy(s.prefs), s.power)]
  <2>1. [brightness |-> Clamp(s.prefs.brightness, 10, 100),
         dim |-> Clamp(s.prefs.idle_brightness, 5, 80),
         timeout |-> Clamp(s.prefs.screen_timeout, 0, 600)] = Policy(s.prefs)
    BY <1>1 DEF Policy
  <2> QED
    BY <2>1, Zenon DEF ApplyPowerSettings
<1> QED
  BY <1>2 DEF IsUi, Keeps, Fields

LEMMA ApplyThemeDoes ==
  ASSUME NEW s, IsUi(s)
  PROVE  /\ Keeps(ApplyTheme(s), s, {"palette"})
         /\ ApplyTheme(s).palette = [v \in s.built |-> s.prefs.dark]
  BY DEF IsUi, Keeps, Fields, ApplyTheme

LEMMA PresentDoes ==
  ASSUME NEW s, NEW to \in Surfaces, IsUi(s),
         to = "application" \/ (to # s.surface /\ to \in s.built),
         "application" \notin s.built
  PROVE  /\ Keeps(Present(s, to), s, {"surface", "shown"})
         /\ Present(s, to).surface = to
         /\ Present(s, to).shown = VisibilityFor(to)
<1> DEFINE t == IF s.surface # to THEN Hide(s, s.surface) ELSE s
           u == [t EXCEPT !.surface = to, !.shown = (@ \cup Base) \cap VisibilityFor(to)]
<1>1. Keeps(t, s, {"shown"})
  BY DEF IsUi, Keeps, Fields, Hide
<1>2. Keeps(u, s, {"surface", "shown"}) /\ u.surface = to
      /\ u.shown = (t.shown \cup Base) \cap VisibilityFor(to)
  <2> HIDE DEF t
  <2> QED
    BY <1>1 DEF IsUi, Keeps, Fields
<1>3. Present(s, to) = IF s.surface # to THEN Show(u, to) ELSE u
  BY DEF Present
<1> HIDE DEF u, t
<1>4. Keeps(Show(u, to), u, {"shown"}) /\ Show(u, to).shown = u.shown \cup ({to} \cap u.built)
  BY <1>2 DEF IsUi, Keeps, Fields, Show
<1>5. u.built = s.built
  BY <1>2 DEF Keeps, Fields
<1>6. CASE to = "application"
  <2>1. u.shown = Base /\ u.shown \cup ({to} \cap u.built) = Base
    BY <1>2, <1>5, <1>6 DEF VisibilityFor
  <2> QED
    BY <1>2, <1>3, <1>4, <1>6, <2>1 DEF Keeps, Fields, VisibilityFor
<1>7. CASE to # "application"
  <2>1. u.shown \subseteq {to} /\ u.shown \cup ({to} \cap u.built) = {to}
    BY <1>2, <1>5, <1>7 DEF VisibilityFor
  <2> QED
    BY <1>2, <1>3, <1>4, <1>7, <2>1 DEF Keeps, Fields, VisibilityFor
<1> QED
  BY <1>6, <1>7

LEMMA SelectDoes ==
  ASSUME NEW s, NEW app, IsUi(s), app # "drawer" \/ app \notin Docked
  PROVE  /\ Keeps(Select(s, app), s, {"selected"})
         /\ Select(s, app).selected \in {None, "drawer", app}
         /\ Select(s, app).selected = "drawer" <=> s.surface = "drawer"
  BY DEF IsUi, Keeps, Fields, Select, None

LEMMA EnsureStatusDoes ==
  ASSUME NEW s, IsUi(s)
  PROVE  /\ Keeps(EnsureStatus(s), s, {"built", "label", "palette"})
         /\ EnsureStatus(s).built = s.built \cup {"status"}
         /\ EnsureStatus(s).label = IF "status" \in s.built THEN s.label ELSE "--"
         /\ EnsureStatus(s).palette = IF "status" \in s.built THEN s.palette
                                      ELSE [v \in EnsureStatus(s).built |-> s.prefs.dark]
<1>1. CASE "status" \in s.built
  BY <1>1 DEF IsUi, Keeps, Fields, EnsureStatus
<1>2. CASE "status" \notin s.built
  <2> DEFINE t == [s EXCEPT !.built = @ \cup {"status"}, !.label = "--"]
  <2>1. Keeps(t, s, {"built", "label"}) /\ t.built = s.built \cup {"status"} /\ t.label = "--"
    BY DEF IsUi, Keeps, Fields
  <2>2. EnsureStatus(s) = ApplyTheme(t)
    BY <1>2 DEF EnsureStatus
  <2> HIDE DEF t
  <2>3. Keeps(ApplyTheme(t), t, {"palette"}) /\ ApplyTheme(t).palette = [v \in t.built |-> t.prefs.dark]
    BY <2>1, ApplyThemeDoes DEF Keeps
  <2> QED
    BY <1>2, <2>1, <2>2, <2>3 DEF Keeps, Fields
<1> QED
  BY <1>1, <1>2
-----------------------------------------------------------------------------
(* The invariant of the record ui, in parts                                 *)

BuiltOK(s) == Five \subseteq s.built /\ s.built \subseteq Five \cup {"status"}

ShownOK(s) ==
  /\ BuiltOK(s) /\ s.surface \in Surfaces
  /\ s.surface = "status" => "status" \in s.built
  /\ s.shown = VisibilityFor(s.surface)

PowerOK(s) ==
  /\ s.prefs \in Prefs /\ s.policy = Policy(s.prefs)
  /\ s.backlight = BrightnessFor(s.policy, s.power)
  /\ s.idle \in Nat /\ s.power \in {"awake", "dimmed", "off"}
  /\ s.power # "awake" => s.policy.timeout > 0
  /\ s.touch.pressed => s.power = "awake"

\* Time that passed before the next update of the power state breaks it.
DueOK(s) == s.policy.timeout > 0 => s.power = Due(s)

\* The status panel may have left the knob of the brightness behind.
KnobsAt(knobs, prefs) ==
  /\ DOMAIN knobs = DOMAIN Settings
  /\ \A p \in DOMAIN Settings \ {"brightness"} : knobs[p] = Knobs(prefs)[p]

ThemeOK(s) ==
  /\ \A v \in s.built : v \in DOMAIN s.palette /\ s.palette[v] = s.prefs.dark
  /\ s.values = Values(s.prefs) /\ KnobsAt(s.knobs, s.prefs)

NamesOK(s, app) ==
  /\ app # None => s.title = app
  /\ app # None => s.selected \in {None, "drawer", app}
  /\ s.selected = "drawer" <=> s.surface = "drawer"

\* A status panel that is not built shows nothing.
LabelOK(s, net) ==
  /\ s.label \in {None, "--", net}
  /\ "status" \notin s.built => s.label = None

\* What starting an application needs
Ready(s, net) == IsUi(s) /\ BuiltOK(s) /\ PowerOK(s) /\ ThemeOK(s) /\ LabelOK(s, net)

Whole(s, app, net) == Ready(s, net) /\ ShownOK(s) /\ NamesOK(s, app)

LEMMA NoteActivityKeeps ==
  ASSUME NEW s, NEW app, NEW net, Whole(s, app, net)
  PROVE  Whole(NoteActivity(s), app, net) /\ DueOK(NoteActivity(s))
<1> DEFINE t == NoteActivity(s)
<1>1. /\ Keeps(t, s, {"idle", "power", "backlight"})
      /\ t.idle = 0 /\ t.power = "awake" /\ t.backlight = BrightnessFor(s.policy, "awake")
  BY NoteActivityDoes DEF Whole, Ready, PowerOK
<1> HIDE DEF t
<1>2. /\ t.surface = s.surface /\ t.built = s.built /\ t.shown = s.shown /\ t.palette = s.palette
      /\ t.title = s.title /\ t.selected = s.selected /\ t.label = s.label /\ t.values = s.values /\ t.knobs = s.knobs
      /\ t.prefs = s.prefs /\ t.policy = s.policy /\ t.touch = s.touch /\ IsUi(t)
  BY <1>1 DEF Keeps, Fields
<1>3. PowerOK(t)
  BY <1>1, <1>2 DEF Whole, Ready, PowerOK
<1>4. DueOK(t)
  <2>1. t.policy.timeout \in Int
    BY <1>2 DEF Whole, Ready, PowerOK, Policy, Prefs
  <2> QED
    BY <1>1, <2>1, ShellAssumption DEF DueOK, Due
<1>5. Whole(t, app, net)
  BY <1>2, <1>3 DEF Whole, Ready, BuiltOK, ShownOK, ThemeOK, NamesOK, LabelOK
<1> QED
  BY <1>4, <1>5 DEF t

\* The shell turns to a surface: present, select.
LEMMA TurnKeeps ==
  ASSUME NEW s, NEW app, NEW net, Whole(s, app, net), NEW to \in Surfaces,
         to = "application" \/ (to # s.surface /\ to \in s.built)
  PROVE  /\ Whole(Select(Present(s, to), None), app, net)
         /\ Select(Present(s, to), None).surface = to
         /\ Select(Present(s, to), None).built = s.built
<1> DEFINE t == Present(s, to)
           u == Select(t, None)
<1>1. Keeps(t, s, {"surface", "shown"}) /\ t.surface = to /\ t.shown = VisibilityFor(to)
  BY PresentDoes DEF Whole, Ready, BuiltOK, Five
<1> HIDE DEF t
<1>2. /\ Keeps(u, t, {"selected"}) /\ u.selected \in {None, "drawer"}
      /\ u.selected = "drawer" <=> t.surface = "drawer"
  BY <1>1, SelectDoes DEF Keeps, None
<1> HIDE DEF u
<1>3. /\ u.surface = to /\ u.built = s.built /\ u.shown = VisibilityFor(to) /\ u.palette = s.palette
      /\ u.title = s.title /\ u.label = s.label /\ u.values = s.values /\ u.knobs = s.knobs
      /\ u.prefs = s.prefs /\ u.policy = s.policy /\ u.touch = s.touch /\ IsUi(u)
      /\ u.power = s.power /\ u.idle = s.idle /\ u.backlight = s.backlight
  BY <1>1, <1>2 DEF Keeps, Fields
<1>4. Ready(u, net)
  BY <1>3 DEF Whole, Ready, BuiltOK, PowerOK, ThemeOK, LabelOK
<1>5. ShownOK(u)
  BY <1>3 DEF Whole, ShownOK, BuiltOK
<1>6. NamesOK(u, app)
  BY <1>1, <1>2, <1>3 DEF Whole, NamesOK
<1> QED
  BY <1>3, <1>4, <1>5, <1>6 DEF Whole, u, t

LEMMA EnsureStatusKeeps ==
  ASSUME NEW s, NEW app, NEW net, Whole(s, app, net)
  PROVE  /\ Whole(EnsureStatus(s), app, net)
         /\ "status" \in EnsureStatus(s).built /\ EnsureStatus(s).surface = s.surface
<1> DEFINE t == EnsureStatus(s)
<1>1. /\ Keeps(t, s, {"built", "label", "palette"})
      /\ t.built = s.built \cup {"status"}
      /\ t.label = IF "status" \in s.built THEN s.label ELSE "--"
      /\ t.palette = IF "status" \in s.built THEN s.palette ELSE [v \in t.built |-> s.prefs.dark]
  BY EnsureStatusDoes DEF Whole, Ready
<1> HIDE DEF t
<1>2. /\ t.surface = s.surface /\ t.shown = s.shown
      /\ t.title = s.title /\ t.selected = s.selected /\ t.values = s.values /\ t.knobs = s.knobs
      /\ t.prefs = s.prefs /\ t.policy = s.policy /\ t.touch = s.touch /\ IsUi(t)
      /\ t.power = s.power /\ t.idle = s.idle /\ t.backlight = s.backlight
  BY <1>1 DEF Keeps, Fields
<1>3. BuiltOK(t) /\ ShownOK(t)
  BY <1>1, <1>2 DEF Whole, ShownOK, BuiltOK
<1>4. PowerOK(t) /\ NamesOK(t, app)
  BY <1>2 DEF Whole, Ready, PowerOK, NamesOK
<1>5. ThemeOK(t)
  <2>1. "status" \in s.built => t.built = s.built
    BY <1>1
  <2> QED
    BY <1>1, <1>2, <2>1 DEF Whole, Ready, ThemeOK
<1>6. LabelOK(t, net)
  BY <1>1 DEF Whole, Ready, LabelOK
<1> QED
  BY <1>1, <1>2, <1>3, <1>4, <1>5, <1>6 DEF Whole, Ready, t

\* The three toggles: present, select and activity, whatever is showing.
LEMMA TogglesKeep ==
  ASSUME NEW s, NEW app, NEW net, Whole(s, app, net)
  PROVE  /\ Whole(ToggleDrawer(s), app, net) /\ DueOK(ToggleDrawer(s))
         /\ Whole(ToggleSettings(s), app, net) /\ DueOK(ToggleSettings(s))
         /\ Whole(ToggleStatus(s), app, net) /\ DueOK(ToggleStatus(s))
<1>1. "drawer" \in s.built /\ "settings" \in s.built
  BY DEF Whole, ShownOK, BuiltOK, Five
<1>2. Whole(ToggleDrawer(s), app, net) /\ DueOK(ToggleDrawer(s))
  <2>1. PICK to \in Surfaces : to = Toggle(s, "drawer", "application")
    BY DEF Toggle, Surfaces
  <2>2. Whole(Select(Present(s, to), None), app, net)
    BY <1>1, <2>1, TurnKeeps DEF Toggle
  <2> QED
    BY <2>1, <2>2, NoteActivityKeeps DEF ToggleDrawer
<1>3. Whole(ToggleSettings(s), app, net) /\ DueOK(ToggleSettings(s))
  <2>1. PICK to \in Surfaces : to = Toggle(s, "settings", "drawer")
    BY DEF Toggle, Surfaces
  <2>2. to # s.surface /\ to \in s.built
    BY <1>1, <2>1 DEF Toggle
  <2>3. Whole(Select(Present(s, to), None), app, net)
    BY <2>2, TurnKeeps
  <2> QED
    BY <2>1, <2>3, NoteActivityKeeps DEF ToggleSettings
<1>4. Whole(ToggleStatus(s), app, net) /\ DueOK(ToggleStatus(s))
  <2>1. /\ Whole(EnsureStatus(s), app, net)
        /\ "status" \in EnsureStatus(s).built /\ EnsureStatus(s).surface = s.surface
    BY EnsureStatusKeeps
  <2>2. PICK to \in Surfaces : to = Toggle(s, "status", "application")
    BY DEF Toggle, Surfaces
  <2>3. Whole(Select(Present(EnsureStatus(s), to), None), app, net)
    BY <2>1, <2>2, TurnKeeps DEF Toggle
  <2> QED
    BY <2>2, <2>3, NoteActivityKeeps DEF ToggleStatus
<1> QED
  BY <1>2, <1>3, <1>4

LEMMA ShowAppKeeps ==
  ASSUME NEW s, NEW app, NEW net, Ready(s, net)
  PROVE  Whole(ShowApp(s, app), app, net) /\ DueOK(ShowApp(s, app))
<1> DEFINE t == Present(s, "application")
           u == [t EXCEPT !.title = app]
           w == Select(u, app)
<1>1. Keeps(t, s, {"surface", "shown"}) /\ t.surface = "application" /\ t.shown = Base
  BY PresentDoes DEF Ready, BuiltOK, Five, VisibilityFor, Surfaces
<1> HIDE DEF t
<1>2. Keeps(u, t, {"title"}) /\ u.title = app
  BY <1>1 DEF Keeps, IsUi, Fields
<1> HIDE DEF u
<1>3. /\ Keeps(w, u, {"selected"}) /\ w.selected \in {None, "drawer", app}
      /\ w.selected = "drawer" <=> u.surface = "drawer"
  BY <1>2, SelectDoes, ShellAssumption DEF Keeps
<1> HIDE DEF w
<1>4. /\ w.surface = "application" /\ w.built = s.built /\ w.shown = Base /\ w.palette = s.palette
      /\ w.title = app /\ w.label = s.label /\ w.values = s.values /\ w.knobs = s.knobs
      /\ w.prefs = s.prefs /\ w.policy = s.policy /\ w.touch = s.touch /\ IsUi(w)
      /\ w.power = s.power /\ w.idle = s.idle /\ w.backlight = s.backlight
      /\ u.surface = "application"
  BY <1>1, <1>2, <1>3 DEF Keeps, Fields
<1>5. Ready(w, net)
  BY <1>4 DEF Ready, BuiltOK, PowerOK, ThemeOK, LabelOK
<1>6. ShownOK(w)
  BY <1>4, <1>5 DEF Ready, ShownOK, Surfaces, VisibilityFor
<1>7. NamesOK(w, app)
  BY <1>3, <1>4 DEF NamesOK
<1>8. Whole(w, app, net)
  BY <1>5, <1>6, <1>7 DEF Whole
<1>9. ShowApp(s, app) = NoteActivity(w)
  BY DEF ShowApp, w, u, t
<1> QED
  BY <1>8, <1>9, NoteActivityKeeps

-----------------------------------------------------------------------------
(* Preferences                                                              *)

LEMMA ChangeIn ==
  ASSUME NEW prefs \in Prefs, NEW setting \in DOMAIN Settings, NEW position \in Int
  PROVE  Change(prefs, setting, position) \in Prefs
<1> DEFINE v == Clamp(position, Settings[setting].low, Settings[setting].high)
                  * Settings[setting].scale
<1>1. CASE setting = "brightness"
  <2>1. v \in 10..100
    BY <1>1 DEF Settings, Setting, Clamp
  <2> HIDE DEF v
  <2> QED
    BY <1>1, <2>1 DEF Prefs, Change, v
<1>2. CASE setting = "idle_brightness"
  <2>1. v \in 5..80
    BY <1>2 DEF Settings, Setting, Clamp
  <2> HIDE DEF v
  <2> QED
    BY <1>2, <2>1 DEF Prefs, Change, v
<1>3. CASE setting = "screen_timeout"
  <2>1. v \in 0..600
    BY <1>3 DEF Settings, Setting, Clamp
  <2> HIDE DEF v
  <2> QED
    BY <1>3, <2>1, SMTT(30) DEF Prefs, Change, v
<1>4. CASE setting = "interface_scale"
  <2>1. v \in 90..120
    BY <1>4 DEF Settings, Setting, Clamp
  <2> HIDE DEF v
  <2> QED
    BY <1>4, <2>1 DEF Prefs, Change, v
<1>5. CASE setting \in {"audio_volume", "touch_sound", "haptic_feedback"}
  <2>1. v \in 0..100
    BY <1>5 DEF Settings, Setting, Clamp
  <2> HIDE DEF v
  <2> QED
    BY <1>5, <2>1 DEF Prefs, Change, v
<1> QED
  BY <1>1, <1>2, <1>3, <1>4, <1>5 DEF Settings

\* A change moves the value of its setting to where the knob is put.
LEMMA KnobFollows ==
  ASSUME NEW prefs \in Prefs, NEW setting \in DOMAIN Settings,
         NEW position \in Settings[setting].low .. Settings[setting].high
  PROVE  /\ Knobs(Change(prefs, setting, position))[setting] = position
         /\ \A p \in DOMAIN Settings \ {setting} :
              Knobs(Change(prefs, setting, position))[p] = Knobs(prefs)[p]
<1>1. setting \in DOMAIN prefs /\ DOMAIN Settings \subseteq DOMAIN prefs
  BY DEF Prefs, Settings
<1>2. position \in Int /\ Settings[setting].scale \in {1, 10, 30}
      /\ Clamp(position, Settings[setting].low, Settings[setting].high) = position
  <2>1. Settings[setting].low \in Int /\ Settings[setting].high \in Int
        /\ Settings[setting].scale \in {1, 10, 30}
    BY DEF Settings, Setting
  <2> QED
    BY <2>1 DEF Clamp
<1>3. (position * 1) \div 1 = position /\ (position * 10) \div 10 = position
      /\ (position * 30) \div 30 = position
  BY <1>2
<1>4. Change(prefs, setting, position) = [prefs EXCEPT ![setting] = position * Settings[setting].scale]
  BY <1>2 DEF Change
<1>5. (position * Settings[setting].scale) \div Settings[setting].scale = position
  <2>1. CASE Settings[setting].scale = 1
    BY <1>3, <2>1
  <2>2. CASE Settings[setting].scale = 10
    BY <1>3, <2>2
  <2>3. CASE Settings[setting].scale = 30
    BY <1>3, <2>3
  <2> QED
    BY <1>2, <2>1, <2>2, <2>3
<1> QED
  BY <1>1, <1>4, <1>5 DEF Knobs

\* s is the record the change starts from, but that the knob may have been
\* moved before.
LEMMA ChangeSettingKeeps ==
  ASSUME NEW o, NEW app, NEW net, Whole(o, app, net), NEW s, Keeps(s, o, {"knobs"}),
         NEW setting \in DOMAIN Settings, NEW position \in Int,
         KnobsAt(s.knobs, Change(s.prefs, setting, position))
  PROVE  /\ Whole(ChangeSetting(s, setting, position), app, net)
         /\ DueOK(ChangeSetting(s, setting, position))
<1> DEFINE prefs == Change(s.prefs, setting, position)
           r == [s EXCEPT !.prefs = prefs, !.values = Values(prefs)]
           t == NoteActivity(r)
           u == IF Settings[setting].effect = "display" THEN ApplyPowerSettings(t) ELSE t
<1>0. /\ IsUi(s) /\ PowerOK(s) /\ BuiltOK(s) /\ ShownOK(s) /\ NamesOK(s, app) /\ LabelOK(s, net)
      /\ \A v \in s.built : v \in DOMAIN s.palette /\ s.palette[v] = s.prefs.dark
      /\ KnobsAt(s.knobs, prefs)
  <2>1. /\ s.surface = o.surface /\ s.built = o.built /\ s.shown = o.shown /\ s.palette = o.palette
        /\ s.title = o.title /\ s.selected = o.selected /\ s.label = o.label
        /\ s.prefs = o.prefs /\ s.policy = o.policy /\ s.touch = o.touch /\ IsUi(s)
        /\ s.power = o.power /\ s.idle = o.idle /\ s.backlight = o.backlight
    BY DEF Keeps, Fields
  <2>2. PowerOK(s)
    BY <2>1 DEF Whole, Ready, PowerOK
  <2> QED
    BY <2>1, <2>2 DEF Whole, Ready, BuiltOK, ShownOK, ThemeOK, NamesOK, LabelOK
<1>1. prefs \in Prefs
  BY <1>0, ChangeIn DEF PowerOK
<1>2. prefs.dark = s.prefs.dark
  BY <1>0 DEF PowerOK, Prefs, Change, Settings
<1>3. Settings[setting].effect # "display" => Policy(prefs) = Policy(s.prefs)
  BY <1>0 DEF PowerOK, Prefs, Change, Settings, Setting, Policy
<1> HIDE DEF prefs
<1>4. Keeps(r, s, {"prefs", "values"}) /\ r.prefs = prefs /\ r.values = Values(prefs)
  BY <1>0 DEF IsUi, Keeps, Fields
<1> HIDE DEF r
<1>5. r.backlight = BrightnessFor(r.policy, r.power)
  BY <1>0, <1>4 DEF PowerOK, Keeps, Fields
<1>6. /\ Keeps(t, r, {"idle", "power", "backlight"})
      /\ t.idle = 0 /\ t.power = "awake" /\ t.backlight = BrightnessFor(r.policy, "awake")
  BY <1>4, <1>5, NoteActivityDoes DEF Keeps
<1> HIDE DEF t
<1>7. /\ Keeps(u, t, {"policy", "backlight"}) /\ u.policy = Policy(prefs)
      /\ u.backlight = BrightnessFor(Policy(prefs), "awake")
  <2>1. t.prefs = prefs /\ t.policy = s.policy /\ r.policy = s.policy
    BY <1>4, <1>6 DEF Keeps, Fields
  <2>2. CASE Settings[setting].effect = "display"
    BY <1>1, <1>6, <2>1, <2>2, ApplyPowerSettingsDoes DEF Keeps
  <2>3. CASE Settings[setting].effect # "display"
    BY <1>0, <1>3, <1>6, <2>1, <2>3 DEF Keeps, PowerOK
  <2> QED
    BY <2>2, <2>3
<1> HIDE DEF u
<1>8. /\ u.surface = s.surface /\ u.built = s.built /\ u.shown = s.shown /\ u.palette = s.palette
      /\ u.title = s.title /\ u.selected = s.selected /\ u.label = s.label
      /\ u.values = Values(prefs) /\ u.knobs = s.knobs /\ u.prefs = prefs /\ u.touch = s.touch /\ IsUi(u)
      /\ u.power = "awake" /\ u.idle = 0
  BY <1>4, <1>6, <1>7 DEF Keeps, Fields
<1>9. PowerOK(u)
  BY <1>0, <1>1, <1>7, <1>8 DEF PowerOK
<1>10. DueOK(u)
  <2>1. u.policy.timeout \in Int
    BY <1>1, <1>7 DEF Policy, Prefs
  <2> QED
    BY <1>8, <2>1, ShellAssumption DEF DueOK, Due
<1>11. Whole(u, app, net)
  BY <1>0, <1>2, <1>8, <1>9 DEF Whole, Ready, BuiltOK, ShownOK, ThemeOK, NamesOK, LabelOK
<1> QED
  BY <1>10, <1>11 DEF ChangeSetting, u, t, r, prefs

LEMMA ToggleThemeKeeps ==
  ASSUME NEW s, NEW app, NEW net, Whole(s, app, net)
  PROVE  Whole(ToggleTheme(s), app, net) /\ DueOK(ToggleTheme(s))
<1> DEFINE prefs == [s.prefs EXCEPT !.dark = 1 - @]
           r == [s EXCEPT !.prefs = prefs]
           t == ApplyTheme(r)
<1>1. prefs \in Prefs /\ Policy(prefs) = Policy(s.prefs) /\ Values(prefs) = Values(s.prefs)
      /\ Knobs(prefs) = Knobs(s.prefs)
  <2>1. s.prefs \in Prefs
    BY DEF Whole, Ready, PowerOK
  <2>2. prefs \in Prefs
    BY <2>1 DEF Prefs
  <2>3. \A p \in DOMAIN Settings : prefs[p] = s.prefs[p]
    BY <2>1 DEF Prefs, Settings
  <2> QED
    BY <2>2, <2>3 DEF Policy, Values, Knobs, Settings
<1> HIDE DEF prefs
<1>2. Keeps(r, s, {"prefs"}) /\ r.prefs = prefs
  BY DEF Whole, Ready, IsUi, Keeps, Fields
<1> HIDE DEF r
<1>3. Keeps(t, r, {"palette"}) /\ t.palette = [v \in r.built |-> r.prefs.dark]
  BY <1>2, ApplyThemeDoes DEF Keeps
<1> HIDE DEF t
<1>4. /\ t.surface = s.surface /\ t.built = s.built /\ t.shown = s.shown
      /\ t.palette = [v \in s.built |-> prefs.dark]
      /\ t.title = s.title /\ t.selected = s.selected /\ t.label = s.label
      /\ t.values = s.values /\ t.knobs = s.knobs /\ t.prefs = prefs /\ t.touch = s.touch /\ IsUi(t)
      /\ t.power = s.power /\ t.idle = s.idle /\ t.policy = s.policy /\ t.backlight = s.backlight
  BY <1>2, <1>3 DEF Keeps, Fields
<1>5. PowerOK(t)
  BY <1>1, <1>4 DEF Whole, Ready, PowerOK
<1>6. ThemeOK(t)
  BY <1>1, <1>4 DEF Whole, Ready, ThemeOK, KnobsAt
<1>7. Whole(t, app, net)
  BY <1>4, <1>5, <1>6 DEF Whole, Ready, BuiltOK, ShownOK, NamesOK, LabelOK
<1>8. ToggleTheme(s) = NoteActivity(t)
  BY DEF ToggleTheme, t, r, prefs
<1> QED
  BY <1>7, <1>8, NoteActivityKeeps

-----------------------------------------------------------------------------
(* Touches and time                                                         *)

LEMMA UpdatePowerKeeps ==
  ASSUME NEW s, NEW app, NEW net, Whole(s, app, net), s.touch.pressed => DueOK(s)
  PROVE  Whole(UpdatePower(s), app, net) /\ DueOK(UpdatePower(s))
<1> DEFINE t == UpdatePower(s)
<1>1. /\ Keeps(t, s, {"power", "backlight"})
      /\ t.power = IF s.policy.timeout <= 0 THEN s.power ELSE Due(s)
      /\ t.backlight = BrightnessFor(s.policy, t.power)
  BY UpdatePowerDoes DEF Whole, Ready, PowerOK
<1> HIDE DEF t
<1>2. /\ t.surface = s.surface /\ t.built = s.built /\ t.shown = s.shown /\ t.palette = s.palette
      /\ t.title = s.title /\ t.selected = s.selected /\ t.label = s.label
      /\ t.values = s.values /\ t.knobs = s.knobs /\ t.prefs = s.prefs /\ t.touch = s.touch /\ IsUi(t)
      /\ t.idle = s.idle /\ t.policy = s.policy
  BY <1>1 DEF Keeps, Fields
<1>3. s.policy.timeout \in Int
  BY DEF Whole, Ready, PowerOK, Policy, Prefs
<1>4. Due(s) \in {"awake", "dimmed", "off"} /\ Due(t) = Due(s)
  BY <1>2 DEF Due
<1>5. PowerOK(t)
  BY <1>1, <1>2, <1>3, <1>4 DEF Whole, Ready, PowerOK, DueOK
<1>6. DueOK(t)
  BY <1>1, <1>2, <1>3, <1>4 DEF DueOK
<1>7. Whole(t, app, net)
  BY <1>2, <1>5 DEF Whole, Ready, BuiltOK, ShownOK, ThemeOK, NamesOK, LabelOK
<1> QED
  BY <1>6, <1>7 DEF t

\* A record that differs in idle time and touch, both as they should be
LEMMA TouchKeeps ==
  ASSUME NEW s, NEW app, NEW net, Whole(s, app, net),
         NEW t, Keeps(t, s, {"idle", "touch"}), t.idle \in Nat,
         t.touch.pressed => s.touch.pressed
  PROVE  Whole(t, app, net)
<1>1. /\ t.surface = s.surface /\ t.built = s.built /\ t.shown = s.shown /\ t.palette = s.palette
      /\ t.title = s.title /\ t.selected = s.selected /\ t.label = s.label
      /\ t.values = s.values /\ t.knobs = s.knobs /\ t.prefs = s.prefs /\ IsUi(t)
      /\ t.power = s.power /\ t.policy = s.policy /\ t.backlight = s.backlight
  BY DEF Keeps, Fields
<1>2. PowerOK(t)
  BY <1>1 DEF Whole, Ready, PowerOK
<1> QED
  BY <1>1, <1>2 DEF Whole, Ready, BuiltOK, ShownOK, ThemeOK, NamesOK, LabelOK

LEMMA PressedKeeps ==
  ASSUME NEW s, NEW app, NEW net, NEW p, Whole(s, app, net)
  PROVE  Whole(Pressed(s, p), app, net) /\ DueOK(Pressed(s, p))
<1> DEFINE touch == [pressed |-> TRUE, start |-> IF s.touch.pressed THEN s.touch.start ELSE p,
                     last |-> p]
           r == [s EXCEPT !.touch = touch]
           t == NoteActivity(r)
<1>1. Keeps(r, s, {"touch"})
  BY DEF Whole, Ready, IsUi, Keeps, Fields
<1>2. Pressed(s, p) = t
  BY DEF Pressed
<1> HIDE DEF r
<1>3. r.backlight = BrightnessFor(r.policy, r.power) /\ IsUi(r)
  BY <1>1 DEF Whole, Ready, PowerOK, Keeps, Fields
<1>4. /\ Keeps(t, r, {"idle", "power", "backlight"})
      /\ t.idle = 0 /\ t.power = "awake" /\ t.backlight = BrightnessFor(r.policy, "awake")
  BY <1>3, NoteActivityDoes
<1> HIDE DEF t
<1>5. /\ t.surface = s.surface /\ t.built = s.built /\ t.shown = s.shown /\ t.palette = s.palette
      /\ t.title = s.title /\ t.selected = s.selected /\ t.label = s.label
      /\ t.values = s.values /\ t.knobs = s.knobs /\ t.prefs = s.prefs /\ IsUi(t)
      /\ t.policy = s.policy /\ r.policy = s.policy
  BY <1>1, <1>4 DEF Keeps, Fields
<1>6. PowerOK(t)
  BY <1>4, <1>5 DEF Whole, Ready, PowerOK
<1>7. DueOK(t)
  <2>1. t.policy.timeout \in Int
    BY <1>5 DEF Whole, Ready, PowerOK, Policy, Prefs
  <2> QED
    BY <1>4, <2>1, ShellAssumption DEF DueOK, Due
<1>8. Whole(t, app, net)
  BY <1>5, <1>6 DEF Whole, Ready, BuiltOK, ShownOK, ThemeOK, NamesOK, LabelOK
<1> QED
  BY <1>2, <1>7, <1>8

LEMMA LiftedKeeps ==
  ASSUME NEW s, NEW app, NEW net, Whole(s, app, net)
  PROVE  /\ Whole(Lifted(s), app, net)
         /\ Lifted(s).touch.pressed => DueOK(Lifted(s))
<1> DEFINE t == [s EXCEPT !.touch = Released]
<1>1. Keeps(t, s, {"touch"}) /\ ~t.touch.pressed /\ t.idle \in Nat
  BY DEF Whole, Ready, PowerOK, IsUi, Keeps, Fields, Released
<1> HIDE DEF t
<1>2. Whole(t, app, net)
  BY <1>1, TouchKeeps DEF Keeps
<1>3. CASE s.touch.pressed /\ Dragged(s.touch, s.surface)
  <2>1. Lifted(s) = ToggleStatus(t)
    BY <1>3 DEF Lifted, t
  <2> QED
    BY <1>2, <2>1, TogglesKeep
<1>4. CASE ~(s.touch.pressed /\ Dragged(s.touch, s.surface))
  <2>1. Lifted(s) = t
    BY <1>4 DEF Lifted, t
  <2> QED
    BY <1>1, <1>2, <2>1
<1> QED
  BY <1>3, <1>4

-----------------------------------------------------------------------------
(* The store                                                                *)

Stores == [StoreKeys -> Int]

\* What restoring one setting makes of the preferences
Restored(p, d, st) == IF st[d.key] = Absent THEN p ELSE RestoreOne(p, d, st[d.key])

Stored(p, d, st) == [st EXCEPT ![d.key] = PersistedValue(p, d)]

LEMMA Catalogued ==
  /\ Len(Persisted) = 9 /\ DOMAIN Persisted = 1..9
  /\ Persisted[1].key = "ui_dark" /\ Persisted[1].setting = "dark"
  /\ Persisted[1].encoding = "dark_theme"
  /\ Persisted[2] = Scalar("brightness", "brightness", 10, 100)
  /\ Persisted[3] = Scalar("dim_pct", "idle_brightness", 5, 80)
  /\ Persisted[4] = Scalar("timeout_s", "screen_timeout", 0, 600)
  /\ Persisted[5] = Scalar("ui_scale", "interface_scale", 90, 120)
  /\ Persisted[6] = Scalar("audio_pct", "audio_volume", 0, 100)
  /\ Persisted[7] = Scalar("audio_haptic_pct", "touch_sound", 0, 100)
  /\ Persisted[8] = Scalar("haptic_pct", "haptic_feedback", 0, 100)
  /\ Persisted[9].key = "haptic_en" /\ Persisted[9].setting = "haptic_feedback"
  /\ Persisted[9].encoding = "enabled_gate"
  BY DEF Persisted

LEMMA KeyOf == \A i \in 1..9 : Persisted[i].key \in StoreKeys
  BY Catalogued DEF StoreKeys

\* What is stored is put in the range of its setting.
LEMMA RestoredIn ==
  ASSUME NEW p \in Prefs, NEW i \in 1..9, NEW st \in Stores
  PROVE  Restored(p, Persisted[i], st) \in Prefs
<1> DEFINE d == Persisted[i]
           v == st[d.key]
<1>1. v \in Int
  BY KeyOf DEF Stores
<1> HIDE DEF v
<1>2. CASE i = 1
  <2>1. RestoreOne(p, d, v) = [p EXCEPT !.dark = IF v # 0 THEN 1 ELSE 0]
    BY <1>2, Catalogued DEF RestoreOne
  <2>2. RestoreOne(p, d, v) \in Prefs
    BY <2>1 DEF Prefs
  <2> QED
    BY <2>2 DEF Restored, v
<1>3. CASE i = 9
  <2>1. RestoreOne(p, d, v) = IF v = 0 THEN [p EXCEPT !.haptic_feedback = 0] ELSE p
    BY <1>3, Catalogued DEF RestoreOne
  <2>2. RestoreOne(p, d, v) \in Prefs
    BY <2>1 DEF Prefs
  <2> QED
    BY <2>2 DEF Restored, v
<1>4. CASE i \in 2..8
  <2> DEFINE w == Clamp(v, d.low, d.high)
  <2>1. d.encoding = "scalar" /\ d.low \in Int /\ d.high \in Int /\ d.low <= d.high
    BY <1>4, Catalogued DEF Scalar
  <2>2. w \in d.low..d.high
    BY <1>1, <2>1, ClampIn
  <2>3. RestoreOne(p, d, v) = [p EXCEPT ![d.setting] = w]
    BY <2>1 DEF RestoreOne
  <2> HIDE DEF w
  <2>4. [p EXCEPT ![d.setting] = w] \in Prefs
    <3>1. CASE i = 2
      BY <2>2, <3>1, Catalogued DEF Scalar, Prefs
    <3>2. CASE i = 3
      BY <2>2, <3>2, Catalogued DEF Scalar, Prefs
    <3>3. CASE i = 4
      BY <2>2, <3>3, Catalogued, SMTT(30) DEF Scalar, Prefs
    <3>4. CASE i = 5
      BY <2>2, <3>4, Catalogued DEF Scalar, Prefs
    <3>5. CASE i = 6
      BY <2>2, <3>5, Catalogued DEF Scalar, Prefs
    <3>6. CASE i = 7
      BY <2>2, <3>6, Catalogued DEF Scalar, Prefs
    <3>7. CASE i = 8
      BY <2>2, <3>7, Catalogued DEF Scalar, Prefs
    <3> QED
      BY <1>4, <3>1, <3>2, <3>3, <3>4, <3>5, <3>6, <3>7
  <2> QED
    BY <2>3, <2>4 DEF Restored, v
<1> QED
  BY <1>2, <1>3, <1>4

LEMMA StoredIn ==
  ASSUME NEW p \in Prefs, NEW i \in 1..9, NEW st \in Stores
  PROVE  Stored(p, Persisted[i], st) \in Stores
<1>1. PersistedValue(p, Persisted[i]) \in Int
  <2>1. CASE i = 1
    BY <2>1, Catalogued DEF PersistedValue, Prefs
  <2>2. CASE i = 9
    BY <2>2, Catalogued DEF PersistedValue
  <2>3. CASE i \in 2..8
    <3>1. PersistedValue(p, Persisted[i]) = p[Persisted[i].setting]
      BY <2>3, Catalogued DEF PersistedValue, Scalar
    <3>2. Persisted[i].setting \in {"brightness", "idle_brightness", "screen_timeout",
            "interface_scale", "audio_volume", "touch_sound", "haptic_feedback"}
      BY <2>3, Catalogued DEF Scalar
    <3>3. \A f \in {"brightness", "idle_brightness", "screen_timeout",
            "interface_scale", "audio_volume", "touch_sound", "haptic_feedback"} : p[f] \in Int
      BY DEF Prefs
    <3> QED
      BY <3>1, <3>2, <3>3
  <2> QED
    BY <2>1, <2>2, <2>3
<1> QED
  BY <1>1, KeyOf DEF Stored, Stores

\* Restoring is restoring the settings one after the other.
LEMMA RestoreUnfolds ==
  ASSUME NEW prefs \in Prefs, NEW st \in Stores
  PROVE  \E f \in [0..9 -> Prefs] :
           /\ f[0] = prefs /\ f[9] = Restore(prefs, st)
           /\ \A i \in 1..9 : f[i] = Restored(f[i - 1], Persisted[i], st)
<1> DEFINE n == 9
           step == [x \in Prefs \X (1..n) |-> Restored(x[1], Persisted[x[2]], st)]
           Unfolds(f) == f = [s \in SUBSET DOMAIN Persisted |->
                 IF s = {} THEN prefs
                 ELSE IF st[Persisted[Max(s)].key] = Absent THEN f[s \ {Max(s)}]
                 ELSE RestoreOne(f[s \ {Max(s)}], Persisted[Max(s)], st[Persisted[Max(s)].key])]
           iter == CHOOSE f : Unfolds(f)
<1>1. n \in Nat /\ DOMAIN Persisted = 1..n
  BY Catalogued
<1>2. step \in [Prefs \X (1..n) -> Prefs]
  <2>1. \A x \in Prefs \X (1..n) : x[1] \in Prefs /\ x[2] \in 1..9
    OBVIOUS
  <2>2. \A x \in Prefs \X (1..n) : Restored(x[1], Persisted[x[2]], st) \in Prefs
    BY <2>1, RestoredIn
  <2> QED
    BY <2>2
<1>3. \A v \in Prefs, x \in 1..n : step[<<v, x>>] = Restored(v, Persisted[x], st)
  OBVIOUS
<1> HIDE DEF n, step
<1>4. PICK f \in [SUBSET (1..n) -> Prefs] : IsFold(f, n, prefs, step)
  BY <1>1, <1>2, FoldExists, Zenon
<1>5. Unfolds(f)
  <2>1. ASSUME NEW s \in SUBSET (1..n)
        PROVE  f[s] = IF s = {} THEN prefs
                      ELSE IF st[Persisted[Max(s)].key] = Absent THEN f[s \ {Max(s)}]
                      ELSE RestoreOne(f[s \ {Max(s)}], Persisted[Max(s)], st[Persisted[Max(s)].key])
    <3>1. s # {} => Max(s) \in 1..n
      BY <1>1, Greatest
    <3>2. f[s \ {Max(s)}] \in Prefs
      OBVIOUS
    <3> QED
      BY <1>3, <1>4, <3>1, <3>2 DEF IsFold, Restored
  <2> QED
    BY <1>1, <2>1
<1>6. Unfolds(iter)
  <2>1. \E g : Unfolds(g)
    BY <1>5
  <2> HIDE DEF Unfolds
  <2> QED
    BY <2>1
<1>7. Restore(prefs, st) = iter[DOMAIN Persisted]
  BY DEF Restore, FoldLeft, MapThenFoldSet
<1> HIDE DEF iter
<1>8. iter[{}] = prefs
  BY <1>1, <1>6
<1>9. ASSUME NEW k \in 1..n
      PROVE  iter[1..k] = Restored(iter[1..k - 1], Persisted[k], st)
  <2>1. 1..k \in SUBSET (1..n) /\ 1..k # {} /\ Max(1..k) = k /\ (1..k) \ {k} = 1..k - 1
    BY <1>1, MaxOfInterval
  <2> QED
    BY <1>1, <1>6, <2>1 DEF Restored
<1> HIDE DEF Unfolds
<1> DEFINE g == [k \in 0..9 |-> iter[1..k]]
<1>10. g[0] = prefs /\ g[9] = Restore(prefs, st)
  <2>1. 1..0 = {}
    OBVIOUS
  <2> QED
    BY <1>1, <1>7, <1>8, <2>1 DEF n
<1>11. \A i \in 1..9 : g[i] = Restored(g[i - 1], Persisted[i], st)
  <2> SUFFICES ASSUME NEW i \in 1..9 PROVE g[i] = Restored(g[i - 1], Persisted[i], st)
    OBVIOUS
  <2>1. i - 1 \in 0..9 /\ i \in 0..9 /\ i \in 1..n
    BY DEF n
  <2> QED
    BY <1>9, <2>1
<1> HIDE DEF g
<1>12. /\ g[1] \in Prefs /\ g[2] \in Prefs /\ g[3] \in Prefs /\ g[4] \in Prefs /\ g[5] \in Prefs
       /\ g[6] \in Prefs /\ g[7] \in Prefs /\ g[8] \in Prefs /\ g[9] \in Prefs
  <2>1. \A i \in 1..9 : g[i - 1] \in Prefs => g[i] \in Prefs
    BY <1>11, RestoredIn
  <2>2. g[0] \in Prefs /\ (g[0] \in Prefs => g[1] \in Prefs) /\ (g[1] \in Prefs => g[2] \in Prefs)
        /\ (g[2] \in Prefs => g[3] \in Prefs) /\ (g[3] \in Prefs => g[4] \in Prefs)
        /\ (g[4] \in Prefs => g[5] \in Prefs) /\ (g[5] \in Prefs => g[6] \in Prefs)
        /\ (g[6] \in Prefs => g[7] \in Prefs) /\ (g[7] \in Prefs => g[8] \in Prefs)
        /\ (g[8] \in Prefs => g[9] \in Prefs)
    BY <1>10, <2>1
  <2> QED
    BY <2>2
<1>13. g \in [0..9 -> Prefs]
  <2>1. \A i \in 0..9 : g[i] \in Prefs
    BY <1>10, <1>12
  <2> QED
    BY <2>1 DEF g
<1> QED
  BY <1>10, <1>11, <1>13

LEMMA KeysDiffer == \A i, j \in 1..9 : Persisted[i].key = Persisted[j].key => i = j
  BY Catalogued DEF Scalar

\* Storing is storing the keys one after the other, each in its own place.
LEMMA Written ==
  ASSUME NEW prefs \in Prefs, NEW st \in Stores, NEW n \in 0..9
  PROVE  /\ Persist(prefs, n, st) \in Stores
         /\ \A j \in 1..9 : Persist(prefs, n, st)[Persisted[j].key] =
              IF j <= n THEN PersistedValue(prefs, Persisted[j]) ELSE st[Persisted[j].key]
<1> DEFINE q == SubSeq(Persisted, 1, n)
           step == [x \in Stores \X (1..n) |-> Stored(prefs, Persisted[x[2]], x[1])]
           Unfolds(f) == f = [s \in SUBSET DOMAIN q |->
                 IF s = {} THEN st
                 ELSE [f[s \ {Max(s)}] EXCEPT ![q[Max(s)].key] = PersistedValue(prefs, q[Max(s)])]]
           iter == CHOOSE f : Unfolds(f)
<1>1. n \in Nat /\ n <= 9 /\ 1..n \subseteq 1..9
  OBVIOUS
<1>2. DOMAIN q = 1..n /\ \A i \in 1..n : q[i] = Persisted[i]
  BY Catalogued
<1>3. step \in [Stores \X (1..n) -> Stores]
  <2>1. \A x \in Stores \X (1..n) : x[1] \in Stores /\ x[2] \in 1..9
    OBVIOUS
  <2>2. \A x \in Stores \X (1..n) : Stored(prefs, Persisted[x[2]], x[1]) \in Stores
    BY <2>1, StoredIn
  <2> QED
    BY <2>2
<1>4. \A v \in Stores, x \in 1..n : step[<<v, x>>] = Stored(prefs, Persisted[x], v)
  OBVIOUS
<1> HIDE DEF q, step
<1>5. PICK f \in [SUBSET (1..n) -> Stores] : IsFold(f, n, st, step)
  BY <1>1, <1>3, FoldExists, Zenon
<1>6. Unfolds(f)
  <2>1. ASSUME NEW s \in SUBSET (1..n)
        PROVE  f[s] = IF s = {} THEN st
                 ELSE [f[s \ {Max(s)}] EXCEPT ![q[Max(s)].key] = PersistedValue(prefs, q[Max(s)])]
    <3>1. s # {} => Max(s) \in 1..n
      BY <1>1, Greatest
    <3>2. f[s \ {Max(s)}] \in Stores
      OBVIOUS
    <3>3. s # {} => f[s] = Stored(prefs, Persisted[Max(s)], f[s \ {Max(s)}])
      BY <1>4, <1>5, <3>1, <3>2 DEF IsFold
    <3>4. s = {} => f[s] = st
      BY <1>5 DEF IsFold
    <3> QED
      BY <1>2, <3>1, <3>3, <3>4 DEF Stored
  <2> QED
    BY <1>2, <2>1
<1>7. Unfolds(iter)
  <2>1. \E g : Unfolds(g)
    BY <1>6
  <2> HIDE DEF Unfolds
  <2> QED
    BY <2>1
<1>8. Persist(prefs, n, st) = iter[DOMAIN q]
  BY DEF Persist, FoldLeft, MapThenFoldSet, q
<1> HIDE DEF iter
<1>9. iter[{}] = st
  BY <1>2, <1>7
<1>10. ASSUME NEW k \in 1..n
       PROVE  iter[1..k] = Stored(prefs, Persisted[k], iter[1..k - 1])
  <2>1. 1..k \in SUBSET (1..n) /\ 1..k # {} /\ Max(1..k) = k /\ (1..k) \ {k} = 1..k - 1
    BY <1>1, MaxOfInterval
  <2>2. 1..k \in SUBSET DOMAIN q
    BY <1>2, <2>1
  <2>3. iter[1..k] = [iter[1..k - 1] EXCEPT ![q[k].key] = PersistedValue(prefs, q[k])]
    BY <1>7, <2>1, <2>2
  <2> QED
    BY <1>2, <2>3 DEF Stored
<1> HIDE DEF Unfolds
<1> DEFINE Up(k) == /\ iter[1..k] \in Stores
                    /\ \A j \in 1..9 : iter[1..k][Persisted[j].key] =
                         IF j <= k THEN PersistedValue(prefs, Persisted[j])
                         ELSE st[Persisted[j].key]
           P == {k \in Nat : k <= n => Up(k)}
<1>11. 0 \in P
  <2>1. 1..0 = {}
    OBVIOUS
  <2> QED
    BY <1>9, <2>1
<1>12. ASSUME NEW k \in Nat, k \in P PROVE k + 1 \in P
  <2> SUFFICES ASSUME k + 1 <= n PROVE Up(k + 1)
    OBVIOUS
  <2>1. Up(k) /\ k + 1 \in 1..9 /\ (k + 1) - 1 = k /\ k + 1 \in 1..n
    BY <1>1, <1>12
  <2>2. iter[1..k + 1] = Stored(prefs, Persisted[k + 1], iter[1..k])
    BY <1>10, <2>1
  <2>3. iter[1..k + 1] \in Stores
    BY <2>1, <2>2, StoredIn
  <2>4. iter[1..k + 1] =
          [iter[1..k] EXCEPT ![Persisted[k + 1].key] = PersistedValue(prefs, Persisted[k + 1])]
    BY <2>2 DEF Stored
  <2>5. \A j \in 1..9 : Persisted[j].key \in DOMAIN iter[1..k]
    BY <2>1, KeyOf DEF Stores
  <2>6. \A j \in 1..9 : j <= k + 1 <=> j <= k \/ j = k + 1
    OBVIOUS
  <2>7. ASSUME NEW j \in 1..9
        PROVE  iter[1..k + 1][Persisted[j].key] =
                 IF j <= k + 1 THEN PersistedValue(prefs, Persisted[j]) ELSE st[Persisted[j].key]
    <3>1. CASE j = k + 1
      BY <2>4, <2>5, <3>1
    <3>2. CASE j # k + 1
      <4>1. Persisted[j].key # Persisted[k + 1].key
        BY <2>1, <3>2, KeysDiffer
      <4>2. iter[1..k + 1][Persisted[j].key] = iter[1..k][Persisted[j].key]
        BY <2>4, <2>5, <4>1
      <4> QED
        BY <2>1, <2>6, <3>2, <4>2
    <3> QED
      BY <3>1, <3>2
  <2> QED
    BY <2>3, <2>7
<1>13. n \in P
  <2> HIDE DEF P
  <2> QED
    BY <1>11, <1>12, <1>1, SetInduction
<1> QED
  BY <1>1, <1>2, <1>8, <1>13

Kept(v, low, high, old) == IF v = Absent THEN old ELSE Clamp(v, low, high)

\* r is what the store st makes of the preferences p.
Reads(r, st, p) ==
  /\ r \in Prefs
  /\ r.dark = IF st["ui_dark"] = Absent THEN p.dark ELSE IF st["ui_dark"] # 0 THEN 1 ELSE 0
  /\ r.brightness = Kept(st["brightness"], 10, 100, p.brightness)
  /\ r.idle_brightness = Kept(st["dim_pct"], 5, 80, p.idle_brightness)
  /\ r.screen_timeout = Kept(st["timeout_s"], 0, 600, p.screen_timeout)
  /\ r.interface_scale = Kept(st["ui_scale"], 90, 120, p.interface_scale)
  /\ r.audio_volume = Kept(st["audio_pct"], 0, 100, p.audio_volume)
  /\ r.touch_sound = Kept(st["audio_haptic_pct"], 0, 100, p.touch_sound)
  /\ r.haptic_feedback = IF st["haptic_en"] = 0 THEN 0
                         ELSE Kept(st["haptic_pct"], 0, 100, p.haptic_feedback)

LEMMA Read ==
  ASSUME NEW p \in Prefs, NEW st \in Stores
  PROVE  Reads(Restore(p, st), st, p)
<1>1. PICK f \in [0..9 -> Prefs] :
           /\ f[0] = p /\ f[9] = Restore(p, st)
           /\ \A i \in 1..9 : f[i] = Restored(f[i - 1], Persisted[i], st)
  BY RestoreUnfolds
<1>2. \A i \in 0..9 : f[i] \in Prefs
  OBVIOUS
<1>3. \A i \in 2..8 :
        f[i] = [f[i - 1] EXCEPT ![Persisted[i].setting] =
                  Kept(st[Persisted[i].key], Persisted[i].low, Persisted[i].high, @)]
  <2> SUFFICES ASSUME NEW i \in 2..8
               PROVE  f[i] = [f[i - 1] EXCEPT ![Persisted[i].setting] =
                        Kept(st[Persisted[i].key], Persisted[i].low, Persisted[i].high, @)]
    OBVIOUS
  <2>1. i \in 1..9 /\ i - 1 \in 0..9
    OBVIOUS
  <2>2. f[i] = Restored(f[i - 1], Persisted[i], st) /\ f[i - 1] \in Prefs
    BY <1>1, <2>1
  <2>3. Persisted[i].encoding = "scalar"
    BY Catalogued DEF Scalar
  <2>4. CASE st[Persisted[i].key] = Absent
    <3>1. f[i] = f[i - 1]
      BY <2>2, <2>4 DEF Restored
    <3> QED
      BY <2>2, <2>4, <3>1 DEF Kept, Prefs
  <2>5. CASE st[Persisted[i].key] # Absent
    BY <2>2, <2>3, <2>5 DEF Restored, RestoreOne, Kept
  <2> QED
    BY <2>4, <2>5
<1>4. f[1] = [p EXCEPT !.dark = IF st["ui_dark"] = Absent THEN p.dark
                                ELSE IF st["ui_dark"] # 0 THEN 1 ELSE 0]
  <2>1. f[1] = Restored(p, Persisted[1], st)
    BY <1>1
  <2> QED
    BY <2>1, Catalogued, SMTT(30) DEF Restored, RestoreOne, Prefs
<1>5. f[9] = [f[8] EXCEPT !.haptic_feedback = IF st["haptic_en"] = 0 THEN 0 ELSE @]
  <2>1. f[9] = Restored(f[8], Persisted[9], st) /\ f[8] \in Prefs
    BY <1>1
  <2> QED
    BY <2>1, Catalogued DEF Restored, RestoreOne, Prefs, Absent
<1>6. /\ f[2] = [f[1] EXCEPT !.brightness = Kept(st["brightness"], 10, 100, @)]
      /\ f[3] = [f[2] EXCEPT !.idle_brightness = Kept(st["dim_pct"], 5, 80, @)]
      /\ f[4] = [f[3] EXCEPT !.screen_timeout = Kept(st["timeout_s"], 0, 600, @)]
      /\ f[5] = [f[4] EXCEPT !.interface_scale = Kept(st["ui_scale"], 90, 120, @)]
      /\ f[6] = [f[5] EXCEPT !.audio_volume = Kept(st["audio_pct"], 0, 100, @)]
      /\ f[7] = [f[6] EXCEPT !.touch_sound = Kept(st["audio_haptic_pct"], 0, 100, @)]
      /\ f[8] = [f[7] EXCEPT !.haptic_feedback = Kept(st["haptic_pct"], 0, 100, @)]
  BY <1>3, Catalogued DEF Scalar
<1>7. /\ f[1] \in Prefs /\ f[2] \in Prefs /\ f[3] \in Prefs /\ f[4] \in Prefs /\ f[5] \in Prefs
      /\ f[6] \in Prefs /\ f[7] \in Prefs /\ f[8] \in Prefs /\ f[9] \in Prefs
  BY <1>2
<1>8. \A x \in Prefs : DOMAIN x = {"dark", "brightness", "idle_brightness", "screen_timeout",
        "interface_scale", "audio_volume", "touch_sound", "haptic_feedback"}
  BY DEF Prefs
<1>9. f[9].dark = f[1].dark
  BY <1>4, <1>5, <1>6, <1>7, <1>8
<1>10. f[9].brightness = f[2].brightness /\ f[1].brightness = p.brightness
  BY <1>4, <1>5, <1>6, <1>7, <1>8
<1>11. f[9].idle_brightness = f[3].idle_brightness /\ f[2].idle_brightness = p.idle_brightness
  BY <1>4, <1>5, <1>6, <1>7, <1>8
<1>12. f[9].screen_timeout = f[4].screen_timeout /\ f[3].screen_timeout = p.screen_timeout
  BY <1>4, <1>5, <1>6, <1>7, <1>8
<1>13. f[9].interface_scale = f[5].interface_scale /\ f[4].interface_scale = p.interface_scale
  BY <1>4, <1>5, <1>6, <1>7, <1>8
<1>14. f[9].audio_volume = f[6].audio_volume /\ f[5].audio_volume = p.audio_volume
  BY <1>4, <1>5, <1>6, <1>7, <1>8
<1>15. f[9].touch_sound = f[7].touch_sound /\ f[6].touch_sound = p.touch_sound
  BY <1>4, <1>5, <1>6, <1>7, <1>8
<1>16. f[7].haptic_feedback = p.haptic_feedback
  BY <1>4, <1>6, <1>7, <1>8
<1>17. /\ f[1].dark = IF st["ui_dark"] = Absent THEN p.dark
                       ELSE IF st["ui_dark"] # 0 THEN 1 ELSE 0
       /\ f[2].brightness = Kept(st["brightness"], 10, 100, f[1].brightness)
       /\ f[3].idle_brightness = Kept(st["dim_pct"], 5, 80, f[2].idle_brightness)
       /\ f[4].screen_timeout = Kept(st["timeout_s"], 0, 600, f[3].screen_timeout)
       /\ f[5].interface_scale = Kept(st["ui_scale"], 90, 120, f[4].interface_scale)
       /\ f[6].audio_volume = Kept(st["audio_pct"], 0, 100, f[5].audio_volume)
       /\ f[7].touch_sound = Kept(st["audio_haptic_pct"], 0, 100, f[6].touch_sound)
       /\ f[8].haptic_feedback = Kept(st["haptic_pct"], 0, 100, f[7].haptic_feedback)
       /\ f[9].haptic_feedback = IF st["haptic_en"] = 0 THEN 0 ELSE f[8].haptic_feedback
  BY <1>4, <1>5, <1>6, <1>7, <1>8
<1> QED
  BY <1>1, <1>7, <1>9, <1>10, <1>11, <1>12, <1>13, <1>14, <1>15, <1>16, <1>17 DEF Reads

\* Restoring keeps what is in its range.
LEMMA KeptInRange ==
  ASSUME NEW p \in Prefs
  PROVE  /\ p.dark \in {0, 1}
         /\ \A old : /\ Kept(p.brightness, 10, 100, old) = p.brightness
                     /\ Kept(p.idle_brightness, 5, 80, old) = p.idle_brightness
                     /\ Kept(p.screen_timeout, 0, 600, old) = p.screen_timeout
                     /\ Kept(p.interface_scale, 90, 120, old) = p.interface_scale
                     /\ Kept(p.audio_volume, 0, 100, old) = p.audio_volume
                     /\ Kept(p.touch_sound, 0, 100, old) = p.touch_sound
                     /\ Kept(p.haptic_feedback, 0, 100, old) = p.haptic_feedback
<1>1. /\ \A v \in 10..100 : \A old : Kept(v, 10, 100, old) = v
      /\ \A v \in 5..80 : \A old : Kept(v, 5, 80, old) = v
      /\ \A v \in 0..600 : \A old : Kept(v, 0, 600, old) = v
      /\ \A v \in 90..120 : \A old : Kept(v, 90, 120, old) = v
      /\ \A v \in 0..100 : \A old : Kept(v, 0, 100, old) = v
  BY DEF Kept, Clamp, Absent
<1>2. /\ p.dark \in {0, 1} /\ p.brightness \in 10..100 /\ p.idle_brightness \in 5..80
      /\ p.screen_timeout \in 0..600 /\ p.interface_scale \in 90..120
      /\ p.audio_volume \in 0..100 /\ p.touch_sound \in 0..100 /\ p.haptic_feedback \in 0..100
  BY DEF Prefs
<1> QED
  BY <1>1, <1>2

(***************************************************************************)
(* shell_settings_persistence: what was stored whole is what is restored,  *)
(* whatever was in memory and in the store before, the haptic switch that  *)
(* a strength of zero turns off included.                                  *)
(***************************************************************************)
THEOREM SavedIsRestored ==
  ASSUME NEW p \in Prefs, NEW q \in Prefs, NEW st \in Stores
  PROVE  Restore(q, Persist(p, Len(Persisted), st)) = p
<1> DEFINE s == Persist(p, 9, st)
           r == Restore(q, s)
<1>1. s \in Stores /\ \A j \in 1..9 : s[Persisted[j].key] = PersistedValue(p, Persisted[j])
  BY Written
<1> HIDE DEF s
<1>2. /\ s["ui_dark"] = p.dark /\ s["brightness"] = p.brightness
      /\ s["dim_pct"] = p.idle_brightness /\ s["timeout_s"] = p.screen_timeout
      /\ s["ui_scale"] = p.interface_scale /\ s["audio_pct"] = p.audio_volume
      /\ s["audio_haptic_pct"] = p.touch_sound /\ s["haptic_pct"] = p.haptic_feedback
      /\ s["haptic_en"] = IF p.haptic_feedback # 0 THEN 1 ELSE 0
  BY <1>1, Catalogued DEF Scalar, PersistedValue
<1>3. Reads(r, s, q)
  BY <1>1, Read
<1> HIDE DEF r
<1>4. r \in Prefs /\ r.dark = p.dark /\ r.haptic_feedback = p.haptic_feedback
  BY <1>2, <1>3, KeptInRange DEF Reads, Absent
<1>5. /\ r.brightness = p.brightness /\ r.idle_brightness = p.idle_brightness
      /\ r.screen_timeout = p.screen_timeout /\ r.interface_scale = p.interface_scale
      /\ r.audio_volume = p.audio_volume /\ r.touch_sound = p.touch_sound
  BY <1>2, <1>3, KeptInRange DEF Reads
<1>6. r = p
  BY <1>4, <1>5 DEF Prefs
<1> QED
  BY <1>6, Catalogued DEF r, s

(***************************************************************************)
(* A save that fails or is cut off after any number of keys leaves a store *)
(* from which every setting is restored as it was saved, or as it would    *)
(* have been restored before.                                              *)
(***************************************************************************)
THEOREM TornSaveIsOldOrNew ==
  ASSUME NEW p \in Prefs, NEW q \in Prefs, NEW st \in Stores, NEW n \in 0..9
  PROVE  \A f \in DOMAIN Factory :
           Restore(q, Persist(p, n, st))[f] \in {p[f], Restore(q, st)[f]}
<1> DEFINE s == Persist(p, n, st)
           r == Restore(q, s)
           o == Restore(q, st)
<1>1. s \in Stores /\ \A j \in 1..9 : s[Persisted[j].key] \in
                          {PersistedValue(p, Persisted[j]), st[Persisted[j].key]}
  BY Written
<1>2. s["haptic_en"] # st["haptic_en"] =>
        /\ s["haptic_pct"] = p.haptic_feedback
        /\ s["haptic_en"] = IF p.haptic_feedback # 0 THEN 1 ELSE 0
  <2>1. s[Persisted[9].key] # st[Persisted[9].key] =>
          /\ s[Persisted[9].key] = PersistedValue(p, Persisted[9])
          /\ s[Persisted[8].key] = PersistedValue(p, Persisted[8])
    BY Written
  <2> HIDE DEF s
  <2> QED
    BY <2>1, Catalogued DEF Scalar, PersistedValue
<1> HIDE DEF s
<1>3. /\ s["ui_dark"] \in {p.dark, st["ui_dark"]}
      /\ s["brightness"] \in {p.brightness, st["brightness"]}
      /\ s["dim_pct"] \in {p.idle_brightness, st["dim_pct"]}
      /\ s["timeout_s"] \in {p.screen_timeout, st["timeout_s"]}
      /\ s["ui_scale"] \in {p.interface_scale, st["ui_scale"]}
      /\ s["audio_pct"] \in {p.audio_volume, st["audio_pct"]}
      /\ s["audio_haptic_pct"] \in {p.touch_sound, st["audio_haptic_pct"]}
      /\ s["haptic_pct"] \in {p.haptic_feedback, st["haptic_pct"]}
  BY <1>1, Catalogued DEF Scalar, PersistedValue
<1>4. Reads(r, s, q) /\ Reads(o, st, q)
  BY <1>1, Read
<1> HIDE DEF r, o
<1>5. r.dark \in {p.dark, o.dark}
  BY <1>3, <1>4, KeptInRange DEF Reads, Absent
<1>6. /\ r.brightness \in {p.brightness, o.brightness}
      /\ r.idle_brightness \in {p.idle_brightness, o.idle_brightness}
      /\ r.screen_timeout \in {p.screen_timeout, o.screen_timeout}
  BY <1>3, <1>4, KeptInRange DEF Reads
<1>7. /\ r.interface_scale \in {p.interface_scale, o.interface_scale}
      /\ r.audio_volume \in {p.audio_volume, o.audio_volume}
      /\ r.touch_sound \in {p.touch_sound, o.touch_sound}
  BY <1>3, <1>4, KeptInRange DEF Reads
<1>8. r.haptic_feedback \in {p.haptic_feedback, o.haptic_feedback}
  BY <1>2, <1>3, <1>4, KeptInRange DEF Reads
<1> QED
  BY <1>5, <1>6, <1>7, <1>8 DEF Factory, r, s, o

-----------------------------------------------------------------------------
(* Every step                                                               *)

ShellTypes ==
  /\ shell \in {"stopped", "running"} /\ store \in Stores
  /\ IsUi(ui) /\ ui.prefs \in Prefs

\* While the shell runs the record is whole; a stopped shell keeps it, and its
\* preferences, for the next start.
ShellInv ==
  /\ ShellTypes
  /\ Running => Whole(ui, active, network) /\ DueOK(ui)

LEMMA RestoreIn ==
  ASSUME NEW p \in Prefs, NEW st \in Stores
  PROVE  Restore(p, st) \in Prefs
  BY Read DEF Reads

\* What a start restores, builds, themes and configures is ready to be shown.
LEMMA PreparedReady ==
  ASSUME ShellTypes, NEW readable \in Readable, NEW net
  PROVE  Ready(Prepared(ui, readable), net) /\ Prepared(ui, readable).prefs \in Prefs
<1> DEFINE found == [k \in StoreKeys |-> IF k \in readable THEN store[k] ELSE Absent]
           restored == Restore(ui.prefs, found)
           a == [ui EXCEPT !.prefs = restored]
           b == Build(a)
           c == ApplyTheme(b)
           d == [c EXCEPT !.idle = 0, !.power = "awake"]
           e == ApplyPowerSettings(d)
<1>1. restored \in Prefs
  <2>1. found \in Stores
    BY DEF ShellTypes, Stores, Absent
  <2> HIDE DEF found
  <2> QED
    BY <2>1, RestoreIn DEF ShellTypes
<1> HIDE DEF restored
<1>2. Keeps(a, ui, {"prefs"}) /\ a.prefs = restored
  BY DEF ShellTypes, IsUi, Keeps, Fields
<1> HIDE DEF a
<1>3. /\ Keeps(b, a, {"built", "shown", "palette", "title", "selected", "label", "values", "knobs"})
      /\ b.built = Five /\ b.label = None /\ b.values = Values(a.prefs) /\ b.knobs = Knobs(a.prefs)
  BY <1>2 DEF Build, IsUi, Keeps, Fields, Five
<1> HIDE DEF b
<1>4. Keeps(c, b, {"palette"}) /\ c.palette = [v \in b.built |-> b.prefs.dark]
  BY <1>3, ApplyThemeDoes DEF Keeps
<1> HIDE DEF c
<1>5. Keeps(d, c, {"idle", "power"}) /\ d.idle = 0 /\ d.power = "awake"
  BY <1>4 DEF IsUi, Keeps, Fields
<1> HIDE DEF d
<1>6. d.prefs = restored /\ IsUi(d)
  BY <1>2, <1>3, <1>4, <1>5 DEF Keeps, Fields
<1>7. /\ Keeps(e, d, {"policy", "backlight"}) /\ e.policy = Policy(restored)
      /\ e.backlight = BrightnessFor(Policy(restored), "awake")
  BY <1>1, <1>5, <1>6, ApplyPowerSettingsDoes
<1> HIDE DEF e
<1>8. /\ e.built = Five /\ e.palette = [v \in Five |-> restored.dark]
      /\ e.label = None /\ e.values = Values(restored) /\ e.knobs = Knobs(restored)
      /\ e.prefs = restored
      /\ IsUi(e) /\ e.power = "awake" /\ e.idle = 0
  BY <1>2, <1>3, <1>4, <1>5, <1>7 DEF Keeps, Fields
<1>9. Ready(e, net)
  BY <1>1, <1>7, <1>8 DEF Ready, BuiltOK, PowerOK, ThemeOK, KnobsAt, Knobs, LabelOK, Five
<1> QED
  BY <1>1, <1>8, <1>9 DEF Prepared, e, d, c, b, a, restored, found

LEMMA ResetViewsDoes ==
  ASSUME NEW s, IsUi(s)
  PROVE  IsUi(ResetViews(s)) /\ ResetViews(s).prefs = s.prefs
  BY DEF IsUi, Fields, ResetViews

LEMMA InitShell == ShellInit => ShellInv
<1> SUFFICES ASSUME ShellInit PROVE ShellInv
  OBVIOUS
<1>1. ui.prefs \in Prefs /\ IsUi(ui)
  BY DEF ShellInit, Cold, Factory, Prefs, IsUi, Fields
<1>2. store \in Stores
  BY DEF ShellInit, Stores, Absent
<1> QED
  BY <1>1, <1>2 DEF ShellInit, ShellInv, ShellTypes, Running

LEMMA StartStep == ShellInv /\ Start => ShellInv'
<1> SUFFICES ASSUME ShellInv, Start PROVE ShellInv'
  OBVIOUS
<1>1. PICK readable \in Readable :
        LET s == Prepared(ui, readable) IN
         \/ /\ shell' = "running" /\ active' = Catalog[1] /\ ui' = ShowApp(s, Catalog[1])
         \/ /\ shell' = "stopped" /\ ui' = ResetViews(s)
  BY DEF Start, Activations
<1>2. PICK s : s = Prepared(ui, readable)
  OBVIOUS
<1>3. Ready(s, network) /\ s.prefs \in Prefs
  BY <1>2, PreparedReady DEF ShellInv
<1>4. store' = store /\ network' = network
  BY DEF Start
<1>5. CASE shell' = "running" /\ active' = Catalog[1] /\ ui' = ShowApp(s, Catalog[1])
  <2>1. Whole(ui', active', network') /\ DueOK(ui')
    BY <1>3, <1>4, <1>5, ShowAppKeeps
  <2> QED
    BY <1>4, <1>5, <2>1 DEF ShellInv, ShellTypes, Running, Whole, Ready, PowerOK
<1>6. CASE shell' = "stopped" /\ ui' = ResetViews(s)
  <2>1. IsUi(ui') /\ ui'.prefs \in Prefs
    BY <1>3, <1>6, ResetViewsDoes DEF Ready
  <2> QED
    BY <1>4, <1>6, <2>1 DEF ShellInv, ShellTypes, Running
<1> QED
  BY <1>1, <1>2, <1>5, <1>6

LEMMA StopStep == ShellInv /\ (Stop \/ Reboot) => ShellInv'
<1> SUFFICES ASSUME ShellInv, Stop \/ Reboot PROVE ShellInv'
  OBVIOUS
<1>1. CASE Stop
  <2>1. IsUi(ui') /\ ui'.prefs \in Prefs
    BY <1>1, ResetViewsDoes DEF Stop, ShellInv, ShellTypes
  <2> QED
    BY <1>1, <2>1 DEF Stop, ShellInv, ShellTypes, Running
<1>2. CASE Reboot
  <2>1. ui'.prefs \in Prefs /\ IsUi(ui')
    BY <1>2 DEF Reboot, Cold, Factory, Prefs, IsUi, Fields
  <2> QED
    BY <1>2, <2>1 DEF Reboot, ShellInv, ShellTypes, Running
<1> QED
  BY <1>1, <1>2

LEMMA StaysWhole ==
  ASSUME shell' = shell, store' \in Stores, ShellInv,
         Whole(ui', active', network'), DueOK(ui')
  PROVE  ShellInv'
  BY DEF ShellInv, ShellTypes, Whole, Ready, PowerOK

\* A handler that leaves a whole record and touches nothing else
LEMMA ActsStep ==
  ASSUME ShellInv, NEW s, Acts(s), Whole(s, active, network), DueOK(s)
  PROVE  ShellInv'
  BY StaysWhole DEF Acts, Else, ShellInv, ShellTypes

LEMMA ChangeThemeStep ==
  ASSUME ShellInv, Running, ChangeTheme
  PROVE  ShellInv'
<1>1. Whole(ToggleTheme(ui), active, network) /\ DueOK(ToggleTheme(ui))
  BY ToggleThemeKeeps DEF ShellInv
<1>2. store' \in Stores
  <2>1. 1 - ui.prefs.dark \in Int
    BY DEF ShellInv, ShellTypes, Prefs
  <2> QED
    BY <2>1 DEF ChangeTheme, PersistTheme, ShellInv, ShellTypes, Stores
<1> QED
  BY <1>1, <1>2, StaysWhole DEF ChangeTheme, Else

LEMMA ActivateAppStep ==
  ASSUME ShellInv, Running, NEW app, ActivateApp(app)
  PROVE  ShellInv'
<1>1. PICK a \in Activations(app) :
        active' = a.active /\ ui' = IF a.ok THEN ShowApp(ui, app) ELSE ui
  BY DEF ActivateApp
<1>2. Whole(ui, active, network) /\ DueOK(ui)
  BY DEF ShellInv
<1>3. Whole(ui', active', network) /\ DueOK(ui')
  <2>1. CASE a.ok
    <3>1. a.active = app
      BY <2>1 DEF Activations
    <3> QED
      BY <1>1, <1>2, <2>1, <3>1, ShowAppKeeps DEF Whole
  <2>2. CASE ~a.ok
    <3>1. a.active \in {active, None}
      BY <2>2 DEF Activations
    <3> QED
      BY <1>1, <1>2, <2>2, <3>1 DEF Whole, NamesOK
  <2> QED
    BY <2>1, <2>2
<1> QED
  BY <1>3, StaysWhole DEF ActivateApp, Else, ShellInv, ShellTypes

LEMMA ActivateIdStep ==
  ASSUME ShellInv, Running, NEW app, ActivateId(app)
  PROVE  ShellInv'
<1>1. Whole(ui, active, network) /\ DueOK(ui)
  BY DEF ShellInv
<1> QED
  BY <1>1, ActivateAppStep, ActsStep, TogglesKeep DEF ActivateId

LEMMA PersistSettingsStep ==
  ASSUME ShellInv, NEW prefs \in Prefs, PersistSettings(prefs)
  PROVE  store' \in Stores
<1>1. PICK n \in 0..9 : store' = Persist(prefs, n, store)
  BY ShellAssumption, Catalogued DEF PersistSettings
<1> QED
  BY <1>1, Written DEF ShellInv, ShellTypes

LEMMA AdjustStep ==
  ASSUME ShellInv, Running, NEW by \in Int,
         ui' = AdjustBrightness(ui, by), PersistSettings(ui'.prefs), UNCHANGED active, Else
  PROVE  ShellInv'
<1>1. ui.prefs.brightness + by \in Int /\ "brightness" \in DOMAIN Settings
  BY DEF ShellInv, ShellTypes, Prefs, Settings
<1>2. Whole(ui', active', network') /\ DueOK(ui')
  <2>1. Whole(ui, active, network)
    BY DEF ShellInv
  <2>2. Keeps(ui, ui, {"knobs"})
    BY <2>1 DEF Whole, Ready, Keeps
  <2>3. KnobsAt(ui.knobs, Change(ui.prefs, "brightness", ui.prefs.brightness + by))
    <3>1. \A p \in DOMAIN Settings \ {"brightness"} :
            Change(ui.prefs, "brightness", ui.prefs.brightness + by)[p] = ui.prefs[p]
      BY <2>1 DEF Whole, Ready, PowerOK, Prefs, Change, Settings
    <3> QED
      BY <2>1, <3>1 DEF Whole, Ready, ThemeOK, KnobsAt, Knobs
  <2> QED
    BY <1>1, <2>1, <2>2, <2>3, ChangeSettingKeeps DEF AdjustBrightness, Else
<1>3. PICK prefs \in Prefs : prefs = ui'.prefs
  BY <1>2 DEF Whole, Ready, PowerOK
<1>4. store' \in Stores
  BY <1>3, PersistSettingsStep
<1> QED
  BY <1>2, <1>4, StaysWhole DEF Else

LEMMA ButtonStep ==
  ASSUME ShellInv,
         \/ \E b \in HeaderButtons : HeaderAction(b)
         \/ \E b \in NavigationButtons : NavigationAction(b)
         \/ \E b \in DrawerButtons : DrawerAction(b)
  PROVE  ShellInv'
<1>1. Running => Whole(ui, active, network)
  BY DEF ShellInv
<1>2. CASE \E b \in HeaderButtons : HeaderAction(b)
  BY <1>2, ChangeThemeStep DEF HeaderAction, On, Running
<1>3. CASE \E b \in NavigationButtons : NavigationAction(b)
  BY <1>1, <1>3, ActivateIdStep, ActsStep, TogglesKeep DEF NavigationAction, On, Running
<1>4. CASE \E b \in DrawerButtons : DrawerAction(b)
  BY <1>1, <1>4, ActivateAppStep, ActsStep, TogglesKeep DEF DrawerAction, On, Running
<1> QED
  BY <1>2, <1>3, <1>4

LEMMA SettingsStep ==
  ASSUME ShellInv, NEW b \in SettingsInputs, SettingsAction(b)
  PROVE  ShellInv'
<1>1. Running /\ Whole(ui, active, network) /\ DueOK(ui)
  BY DEF SettingsAction, On, ShellInv, Running
<1>2. CASE b = <<"close">> /\ Acts(ToggleSettings(ui))
  BY <1>1, <1>2, ActsStep, TogglesKeep
<1>3. CASE b \in Moves /\ Acts(ChangeSetting([ui EXCEPT !.knobs[b[1]] = b[2]], b[1], b[2]))
  <2> DEFINE moved == [ui EXCEPT !.knobs[b[1]] = b[2]]
  <2>1. /\ b[1] \in DOMAIN Settings /\ b[2] \in Int
        /\ b[2] \in Settings[b[1]].low .. Settings[b[1]].high
    BY <1>3, ShellAssumption
  <2>2. Keeps(moved, ui, {"knobs"}) /\ moved.knobs = [ui.knobs EXCEPT ![b[1]] = b[2]]
    BY <1>1 DEF Whole, Ready, IsUi, Keeps, Fields
  <2> HIDE DEF moved
  <2>3. KnobsAt(moved.knobs, Change(moved.prefs, b[1], b[2]))
    <3>1. moved.prefs = ui.prefs /\ ui.prefs \in Prefs /\ KnobsAt(ui.knobs, ui.prefs)
      BY <1>1, <2>2 DEF Keeps, Fields, Whole, Ready, PowerOK, ThemeOK
    <3>2. /\ Knobs(Change(ui.prefs, b[1], b[2]))[b[1]] = b[2]
          /\ \A p \in DOMAIN Settings \ {b[1]} :
               Knobs(Change(ui.prefs, b[1], b[2]))[p] = Knobs(ui.prefs)[p]
      BY <2>1, <3>1, KnobFollows
    <3> QED
      BY <2>1, <2>2, <3>1, <3>2 DEF KnobsAt
  <2>4. Whole(ChangeSetting(moved, b[1], b[2]), active, network) /\ DueOK(ChangeSetting(moved, b[1], b[2]))
    BY <1>1, <2>1, <2>2, <2>3, ChangeSettingKeeps
  <2> QED
    BY <1>3, <2>4, ActsStep DEF moved
<1>4. CASE PersistSettings(ui.prefs) /\ UNCHANGED <<ui, active>> /\ Else
  <2>1. store' \in Stores
    <3>1. PICK prefs \in Prefs : prefs = ui.prefs
      BY DEF ShellInv, ShellTypes
    <3> QED
      BY <1>4, <3>1, PersistSettingsStep
  <2> QED
    BY <1>1, <1>4, <2>1, StaysWhole DEF Else
<1> QED
  BY <1>2, <1>3, <1>4 DEF SettingsAction

LEMMA StatusStep ==
  ASSUME ShellInv, NEW b \in StatusButtons, StatusAction(b)
  PROVE  ShellInv'
<1>1. Running /\ Whole(ui, active, network)
  BY DEF StatusAction, On, ShellInv, Running
<1>2. CASE Acts(ToggleStatus(ui))
  BY <1>1, <1>2, ActsStep, TogglesKeep
<1>3. CASE ChangeTheme
  BY <1>1, <1>3, ChangeThemeStep
<1>4. CASE /\ ui' = AdjustBrightness(ui, IF b = "dim" THEN -10 ELSE 10)
           /\ PersistSettings(ui'.prefs) /\ UNCHANGED active /\ Else
  <2>1. PICK by \in Int : by = IF b = "dim" THEN -10 ELSE 10
    OBVIOUS
  <2> QED
    BY <1>1, <1>4, <2>1, AdjustStep
<1>5. CASE Acts(ToggleSettings(ToggleStatus(ui)))
  <2>1. Whole(ToggleStatus(ui), active, network)
    BY <1>1, TogglesKeep
  <2>2. /\ Whole(ToggleSettings(ToggleStatus(ui)), active, network)
        /\ DueOK(ToggleSettings(ToggleStatus(ui)))
    BY <2>1, TogglesKeep
  <2> QED
    BY <1>5, <2>2, ActsStep
<1> QED
  BY <1>2, <1>3, <1>4, <1>5 DEF StatusAction

LEMMA GestureStep ==
  ASSUME ShellInv, NEW direction, Gesture(direction)
  PROVE  ShellInv'
<1>1. Running /\ Whole(ui, active, network) /\ DueOK(ui)
  BY DEF Gesture, On, ShellInv, Running
<1>2. Acts(ToggleDrawer(ui)) \/ Acts(ToggleSettings(ui)) \/ Acts(ui)
  BY DEF Gesture, Acts
<1> QED
  BY <1>1, <1>2, ActsStep, TogglesKeep

\* A tick: time passes, the touch is sampled, the power state follows.
LEMMA TickStep == ShellInv /\ Tick => ShellInv'
<1> SUFFICES ASSUME ShellInv, Tick PROVE ShellInv'
  OBVIOUS
<1>1. PICK dt \in {0, 1} : TickReleased(dt) \/ \E p \in Points : TickTouched(dt, p)
  BY DEF Tick
<1>2. Running /\ Whole(ui, active, network)
  BY <1>1 DEF TickReleased, TickTouched, ShellInv, Running
<1>3. Whole(Passed(dt), active, network)
  <2>1. (ui.idle + dt) % Wrap \in Nat
    BY <1>2, ShellAssumption DEF Whole, Ready, PowerOK
  <2>2. Keeps(Passed(dt), ui, {"idle"}) /\ Passed(dt).idle = (ui.idle + dt) % Wrap
    BY <1>2 DEF Passed, Whole, Ready, IsUi, Keeps, Fields
  <2>3. Passed(dt).touch = ui.touch /\ Keeps(Passed(dt), ui, {"idle", "touch"})
    BY <2>2 DEF Keeps, Fields
  <2> QED
    BY <1>2, <2>1, <2>2, <2>3, TouchKeeps
<1>4. CASE TickReleased(dt)
  <2>1. /\ Whole(UpdatePower(Lifted(Passed(dt))), active, network)
        /\ DueOK(UpdatePower(Lifted(Passed(dt))))
    BY <1>3, LiftedKeeps, UpdatePowerKeeps
  <2> QED
    BY <1>4, <2>1, ActsStep DEF TickReleased
<1>5. ASSUME NEW p \in Points, TickTouched(dt, p) PROVE ShellInv'
  <2>1. /\ Whole(UpdatePower(Pressed(Passed(dt), p)), active, network)
        /\ DueOK(UpdatePower(Pressed(Passed(dt), p)))
    BY <1>3, PressedKeeps, UpdatePowerKeeps
  <2> QED
    BY <1>5, <2>1, ActsStep DEF TickTouched
<1> QED
  BY <1>1, <1>4, <1>5

\* An event changes the label of a panel that is built, and nothing else.
LEMMA OnEventStep ==
  ASSUME ShellInv, NEW state, OnEvent(state)
  PROVE  ShellInv'
<1>1. Running /\ Whole(ui, active, network) /\ DueOK(ui)
  BY DEF OnEvent, ShellInv, Running
<1>2. /\ Keeps(ui', ui, {"label"})
      /\ ui'.label = IF "status" \in ui.built THEN state ELSE ui.label
  BY <1>1 DEF OnEvent, Whole, Ready, IsUi, Keeps, Fields
<1>3. /\ ui'.surface = ui.surface /\ ui'.built = ui.built /\ ui'.shown = ui.shown
      /\ ui'.palette = ui.palette /\ ui'.title = ui.title /\ ui'.selected = ui.selected
      /\ ui'.values = ui.values /\ ui'.knobs = ui.knobs /\ ui'.prefs = ui.prefs /\ ui'.touch = ui.touch /\ IsUi(ui')
      /\ ui'.power = ui.power /\ ui'.idle = ui.idle /\ ui'.policy = ui.policy
      /\ ui'.backlight = ui.backlight
  BY <1>2 DEF Keeps, Fields
<1>4. LabelOK(ui', network')
  BY <1>1, <1>2, <1>3 DEF OnEvent, Whole, Ready, LabelOK
<1>5. PowerOK(ui') /\ DueOK(ui')
  BY <1>1, <1>3 DEF Whole, Ready, PowerOK, DueOK, Due
<1>6. Whole(ui', active', network')
  BY <1>1, <1>3, <1>4, <1>5 DEF OnEvent, Whole, Ready, BuiltOK, ShownOK, ThemeOK, NamesOK
<1> QED
  BY <1>5, <1>6, StaysWhole DEF OnEvent, ShellInv, ShellTypes

LEMMA ShellStep == ShellInv /\ [ShellNext]_shellVars => ShellInv'
<1> SUFFICES ASSUME ShellInv, [ShellNext]_shellVars PROVE ShellInv'
  OBVIOUS
<1>1. CASE Start \/ Stop \/ Reboot
  BY <1>1, StartStep, StopStep
<1>2. CASE UserStep
  BY <1>2, ButtonStep, SettingsStep, StatusStep, GestureStep DEF UserStep
<1>3. CASE Tick
  BY <1>3, TickStep
<1>4. CASE \E state \in Networks : OnEvent(state)
  BY <1>4, OnEventStep
<1>5. CASE UNCHANGED shellVars
  BY <1>5 DEF shellVars, ShellInv, ShellTypes, Running
<1> QED
  BY <1>1, <1>2, <1>3, <1>4, <1>5 DEF ShellNext

(* The inductive invariant of the shell holds in every behaviour.           *)
THEOREM ShellInvariance == ShellSpec => []ShellInv
  BY InitShell, ShellStep, PTL DEF ShellSpec

(***************************************************************************)
(* For every set of applications, docked buttons, slider positions, points *)
(* and clocks: while the shell runs, the widgets of the active surface are *)
(* the ones that show, and no others.                                      *)
(***************************************************************************)
THEOREM SurfaceShownHolds == ShellSpec => []SurfaceShown
<1>1. ShellInv => SurfaceShown
  BY DEF ShellInv, Whole, ShownOK, SurfaceShown, VisibilityFor
<1> QED
  BY <1>1, ShellInvariance, PTL

(***************************************************************************)
(* For every timeout and every wrap of the clock: the power policy has the *)
(* preferences, the backlight is the policy's, the power state the one the *)
(* idle time calls for.                                                    *)
(***************************************************************************)
THEOREM ScreenFollowsPolicyHolds == ShellSpec => []ScreenFollowsPolicy
<1>1. ShellInv => ScreenFollowsPolicy
  <2> SUFFICES ASSUME ShellInv, Running PROVE ScreenFollowsPolicy
    BY DEF ScreenFollowsPolicy
  <2>1. PowerOK(ui) /\ DueOK(ui)
    BY DEF ShellInv, Whole, Ready
  <2>2. ui.policy.timeout > 0 => UpdatePower(ui) = ui
    BY <2>1 DEF DueOK, Due, UpdatePower
  <2> QED
    BY <2>1, <2>2 DEF PowerOK, Policy, ScreenFollowsPolicy
<1> QED
  BY <1>1, ShellInvariance, PTL

(***************************************************************************)
(* Theme, settings, title, navigation bar and network label show the state *)
(* of the controller, on panels built on demand and after activations that *)
(* failed; of the sliders' knobs, only that of the brightness may be       *)
(* elsewhere than its value.                                               *)
(***************************************************************************)
THEOREM ViewsAgreeHolds == ShellSpec => []ViewsAgree
<1>1. ShellInv => ViewsAgree
  BY DEF ShellInv, Whole, Ready, ThemeOK, KnobsAt, NamesOK, LabelOK, ViewsAgree
<1> QED
  BY <1>1, ShellInvariance, PTL

(***************************************************************************)
(* For every touch, however long: the screen is on at the brightness that  *)
(* the user chose.                                                         *)
(***************************************************************************)
THEOREM TouchedScreenIsOnHolds == ShellSpec => []TouchedScreenIsOn
<1>1. ShellInv => TouchedScreenIsOn
  BY DEF ShellInv, Whole, Ready, PowerOK, Policy, BrightnessFor, TouchedScreenIsOn
<1> QED
  BY <1>1, ShellInvariance, PTL
=============================================================================
