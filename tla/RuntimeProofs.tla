--------------------------- MODULE RuntimeProofs ---------------------------
(***************************************************************************)
(* What boot and the runtime loop keep, for any catalog of services, any   *)
(* mailbox and any networks: three machines (the service manager, the      *)
(* mailbox, the credentials) with an invariant each, and one that ties     *)
(* them together.                                                          *)
(***************************************************************************)
EXTENDS Runtime, SequenceTheorems, TLAPS

-----------------------------------------------------------------------------
(* The mailbox                                                              *)

Holding == {"posting", "posted", "popping", "popped"}

MailboxType ==
  /\ mailbox \in [queue : [0..MailboxCapacity - 1 -> Nat],
                  head : 0..MailboxCapacity - 1, tail : 0..MailboxCapacity - 1,
                  count : 0..MailboxCapacity, lock : EventTasks \cup {"free"}]
  /\ at \in [EventTasks -> {"idle", "post", "pop", "publish"} \cup Holding]
  /\ event \in [EventTasks -> Nat]
  /\ posts \in Nat /\ accepted \in Seq(Nat)

\* k places after the cell a, without a division
Place(a, k) == IF a + k < MailboxCapacity THEN a + k ELSE a + k - MailboxCapacity

\* The indices agree, whoever holds the lock is inside, and the event in hand
\* is already, or still, in its cell.
LockInv ==
  /\ mailbox.tail = Place(mailbox.head, mailbox.count)
  /\ \A t \in EventTasks :
       /\ mailbox.lock = t <=> at[t] \in Holding
       /\ at[t] = "posted" => /\ mailbox.count < MailboxCapacity
                              /\ mailbox.queue[mailbox.tail] = event[t]
       /\ at[t] = "popped" => /\ t = "ui" /\ mailbox.count > 0
                              /\ mailbox.queue[mailbox.head] = event[t]
       /\ at[t] \in {"pop", "popping", "publish"} => t = "ui"

\* EventsInOrder element by element, and also while the lock is held
InHand == IF at["ui"] = "publish" THEN 1 ELSE 0

OrderInv ==
  /\ Len(accepted) = InHand + mailbox.count
  /\ InHand = 1 => accepted[1] = event["ui"]
  /\ \A k \in 0..mailbox.count - 1 :
       accepted[InHand + k + 1] = mailbox.queue[Place(mailbox.head, k)]

MailboxInv == MailboxType /\ LockInv /\ OrderInv

-----------------------------------------------------------------------------
(* The service manager                                                      *)

Served == {"healthy", "degraded"}

PhaseInv ==
  /\ phase = "None" => lifecycle \in {"stopped", "running"}
  /\ phase \in {"Start", "Rollback"} => lifecycle = "starting"
  /\ phase = "Stop" => lifecycle = "stopping"
  /\ phase = "Start" => index = started + 1
  /\ phase \in {"Stop", "Rollback"} => index <= started
  /\ lifecycle = "stopped" => started = 0
  /\ lifecycle = "running" => started = Len(services)

(***************************************************************************)
(* How far a stop that began now, or that is under way, reaches.  It is    *)
(* also where the records of services that participate end.                *)
(***************************************************************************)
Reached == IF phase \in {"Stop", "Rollback"} THEN index ELSE started

ReachInv ==
  /\ running \subseteq {services[i] : i \in 1..Reached}
  /\ \A i \in 1..Len(services) : health[i] \in Served <=> i <= Reached

ManagerInv == TypeOK /\ PhaseInv /\ ReachInv

-----------------------------------------------------------------------------
(* The credentials                                                          *)

(***************************************************************************)
(* What the next failure would have to find: before the name is written,   *)
(* whole keys whose name is previous; after it, the password that belongs  *)
(* to previous.                                                            *)
(***************************************************************************)
Whole == NoValue \in {store.wifi_ssid, store.wifi_pass} \/ store.wifi_ssid = store.wifi_pass

SaveInv ==
  /\ store \in [wifi_ssid : Networks \cup {NoValue}, wifi_pass : Networks \cup {NoValue}]
  /\ save \in [at : {"idle", "ssid", "password", "rollback"},
               new : Networks \cup {NoValue}, previous : Networks \cup {NoValue}]
  /\ save.at \in {"idle", "ssid"} /\ ~torn => Whole
  /\ save.at = "ssid" /\ save.previous # NoValue
       => store.wifi_ssid = save.previous /\ store.wifi_pass # NoValue
  /\ save.at = "password" => store.wifi_ssid = save.new
  /\ save.at \in {"password", "rollback"} /\ ~torn /\ save.previous # NoValue
       => store.wifi_pass = save.previous

(***************************************************************************)
(* Together: a save is served by a network service that runs.              *)
(***************************************************************************)
SaveServed == save.at # "idle" => NetworkId \in running

RuntimeInv == MailboxInv /\ ManagerInv /\ SaveInv /\ SaveServed

-----------------------------------------------------------------------------
(* The mailbox keeps its order                                              *)

LEMMA Wrapped ==
  ASSUME NEW a \in 0..MailboxCapacity - 1, NEW k \in 0..MailboxCapacity
  PROVE  /\ (a + k) % MailboxCapacity = Place(a, k)
         /\ Place(a, k) \in 0..MailboxCapacity - 1
<1>1. CASE a + k < MailboxCapacity
  BY <1>1, MailboxAssumption DEF Place
<1>2. CASE a + k >= MailboxCapacity
  BY <1>2, MailboxAssumption DEF Place
<1> QED
  BY <1>1, <1>2, MailboxAssumption

LEMMA Successor ==
  ASSUME NEW a \in 0..MailboxCapacity - 1
  PROVE  /\ After(a) = IF a + 1 < MailboxCapacity THEN a + 1 ELSE 0
         /\ After(a) \in 0..MailboxCapacity - 1
<1>1. 1 \in 0..MailboxCapacity
  BY MailboxAssumption
<1>2. (a + 1) % MailboxCapacity = Place(a, 1)
  BY <1>1, Wrapped
<1> QED
  BY <1>2, MailboxAssumption DEF After, Place

\* The cells of the ring are distinct, and moving the head moves them all.
LEMMA Places ==
  ASSUME NEW a \in 0..MailboxCapacity - 1, NEW n \in 0..MailboxCapacity - 1
  PROVE  /\ \A k \in 0..n - 1 : Place(a, k) # Place(a, n)
         /\ After(Place(a, n)) = Place(a, n + 1)
         /\ Place(After(a), n) = Place(a, n + 1)
         /\ Place(a, 0) = a
<1>1. Place(a, n) \in 0..MailboxCapacity - 1
  BY Wrapped, MailboxAssumption
<1> QED
  BY <1>1, Successor, MailboxAssumption DEF Place

\* What boot, the relay and the other task do with the mailbox
EventStep ==
  \/ \E t \in EventTasks : PostCalled(t) \/ Posts(t)
  \/ RelayCalled \/ RelayEmpty \/ Relays

\* An empty mailbox, as boot and a restart leave it
Emptied ==
  /\ mailbox = [queue |-> [i \in 0..MailboxCapacity - 1 |-> NoEvent],
                head |-> 0, tail |-> 0, count |-> 0, lock |-> "free"]
  /\ at = [t \in EventTasks |-> "idle"] /\ event = [t \in EventTasks |-> NoEvent]
  /\ posts \in Nat /\ accepted = <<>>

LEMMA MailboxEmptied == Emptied => MailboxInv
<1> SUFFICES ASSUME Emptied PROVE MailboxInv
  OBVIOUS
<1>1. /\ mailbox.head = 0 /\ mailbox.tail = 0 /\ mailbox.count = 0 /\ mailbox.lock = "free"
      /\ \A t \in EventTasks : at[t] = "idle"
      /\ accepted = <<>> /\ InHand = 0
  BY DEF Emptied, InHand, EventTasks
<1>2. MailboxType
  BY MailboxAssumption DEF Emptied, MailboxType, EventTasks, NoEvent
<1>3. LockInv
  <2>1. Place(0, 0) = 0
    BY MailboxAssumption DEF Place
  <2> QED
    BY <1>1, <2>1 DEF LockInv, EventTasks, Holding
<1>4. OrderInv
  BY <1>1 DEF OrderInv
<1> QED
  BY <1>2, <1>3, <1>4 DEF MailboxInv

\* Where a task is says who holds the lock; nothing else of the ring matters to
\* a step that only moves a task.
LEMMA MailboxStep == MailboxInv /\ [EventStep]_eventVars => MailboxInv'
<1> SUFFICES ASSUME MailboxInv, [EventStep]_eventVars PROVE MailboxInv'
  OBVIOUS
<1> DEFINE C == MailboxCapacity
<1>0. /\ C \in Nat \ {0} /\ mailbox.head \in 0..C - 1 /\ mailbox.tail \in 0..C - 1
      /\ mailbox.count \in 0..C /\ mailbox.queue \in [0..C - 1 -> Nat]
      /\ accepted \in Seq(Nat) /\ InHand \in {0, 1}
  BY MailboxAssumption DEF MailboxInv, MailboxType, InHand
<1>1. ASSUME NEW t \in EventTasks, PostCalled(t) PROVE MailboxInv'
  <2>1. /\ at[t] = "idle" /\ at' = [at EXCEPT ![t] = "post"] /\ UNCHANGED <<mailbox, accepted>>
        /\ posts' = posts + 1 /\ event' = [event EXCEPT ![t] = posts + 1]
    BY <1>1 DEF PostCalled, Goes
  <2>2. MailboxType'
    BY <2>1 DEF MailboxInv, MailboxType, EventTasks, Holding
  <2>3. LockInv'
    BY <2>1 DEF MailboxInv, MailboxType, LockInv, EventTasks, Holding
  <2>4. InHand' = InHand /\ (InHand = 1 => event'["ui"] = event["ui"])
    BY <2>1 DEF MailboxInv, MailboxType, InHand, EventTasks
  <2>5. OrderInv'
    BY <2>1, <2>4 DEF MailboxInv, OrderInv
  <2> QED
    BY <2>2, <2>3, <2>5 DEF MailboxInv
<1>2. ASSUME NEW t \in EventTasks, NEW from, NEW to, Locked(t, from, to),
             <<from, to>> \in {<<"post", "posting">>, <<"pop", "popping">>}
      PROVE MailboxInv'
  <2>1. /\ from \in {"post", "pop"} /\ to \in {"posting", "popping"} /\ at[t] = from
        /\ from = "pop" <=> to = "popping"
        /\ at' = [at EXCEPT ![t] = to] /\ UNCHANGED <<event, posts, accepted>>
        /\ mailbox.lock = "free"
        /\ mailbox' = [mailbox EXCEPT !.lock = t]
    BY <1>2 DEF Locked, Goes
  <2>2. MailboxType'
    BY <2>1 DEF MailboxInv, MailboxType, EventTasks, Holding
  <2>3. LockInv'
    BY <2>1 DEF MailboxInv, MailboxType, LockInv, EventTasks, Holding
  <2>4. InHand' = InHand
    BY <2>1 DEF MailboxInv, MailboxType, InHand, EventTasks
  <2>5. OrderInv'
    BY <2>1, <2>4 DEF MailboxInv, MailboxType, OrderInv
  <2> QED
    BY <2>2, <2>3, <2>5 DEF MailboxInv
<1>3. ASSUME NEW t \in EventTasks, NEW from \in {"posting", "popping"},
             at[t] = from, at' = [at EXCEPT ![t] = "idle"],
             mailbox' = [mailbox EXCEPT !.lock = "free"], UNCHANGED <<event, posts, accepted>>
      PROVE MailboxInv'
  <2>2. MailboxType'
    BY <1>3 DEF MailboxInv, MailboxType, EventTasks, Holding
  <2>3. LockInv'
    BY <1>3 DEF MailboxInv, MailboxType, LockInv, EventTasks, Holding
  <2>4. InHand' = InHand
    BY <1>3 DEF MailboxInv, MailboxType, InHand, EventTasks
  <2>5. OrderInv'
    BY <1>3, <2>4 DEF MailboxInv, MailboxType, OrderInv
  <2> QED
    BY <2>2, <2>3, <2>5 DEF MailboxInv
<1>4. ASSUME NEW t \in EventTasks, PostWrites(t) PROVE MailboxInv'
  <2>1. /\ mailbox.count < C /\ at[t] = "posting"
        /\ at' = [at EXCEPT ![t] = "posted"] /\ UNCHANGED <<event, posts, accepted>>
        /\ mailbox' = [mailbox EXCEPT !.queue = [mailbox.queue EXCEPT ![mailbox.tail] = event[t]]]
    BY <1>4 DEF PostWrites, Goes
  <2>2. MailboxType'
    BY <2>1, <1>0 DEF MailboxInv, MailboxType, EventTasks, Holding
  <2>3. LockInv'
    BY <2>1, <1>0 DEF MailboxInv, MailboxType, LockInv, EventTasks, Holding
  <2>4. InHand' = InHand
    BY <2>1 DEF MailboxInv, MailboxType, InHand, EventTasks
  <2>5. \A k \in 0..mailbox.count - 1 :
          /\ Place(mailbox.head, k) # mailbox.tail
          /\ Place(mailbox.head, k) \in 0..C - 1
    <3>1. mailbox.count \in 0..C - 1 /\ mailbox.tail = Place(mailbox.head, mailbox.count)
      BY <2>1, <1>0 DEF MailboxInv, LockInv
    <3>2. \A k \in 0..mailbox.count - 1 : Place(mailbox.head, k) # Place(mailbox.head, mailbox.count)
      BY <3>1, <1>0, Places, Zenon
    <3>3. \A k \in 0..C : Place(mailbox.head, k) \in 0..C - 1
      BY <1>0, Wrapped
    <3>4. \A k \in 0..mailbox.count - 1 : k \in 0..C
      BY <3>1, <1>0
    <3> QED
      BY <3>1, <3>2, <3>3, <3>4
  <2>6. \A k \in 0..mailbox.count - 1 :
          mailbox'.queue[Place(mailbox.head, k)] = mailbox.queue[Place(mailbox.head, k)]
    BY <2>1, <2>5, <1>0 DEF MailboxInv, MailboxType
  <2>7. mailbox'.count = mailbox.count /\ mailbox'.head = mailbox.head
    BY <2>1 DEF MailboxInv, MailboxType
  <2>8. OrderInv'
    BY <2>1, <2>4, <2>6, <2>7 DEF MailboxInv, OrderInv
  <2> QED
    BY <2>2, <2>3, <2>8 DEF MailboxInv
<1>5. ASSUME NEW t \in EventTasks, PostReturns(t) PROVE MailboxInv'
  <2>1. /\ at[t] = "posted" /\ mailbox.count < C /\ mailbox.queue[mailbox.tail] = event[t]
        /\ mailbox.tail = Place(mailbox.head, mailbox.count)
        /\ at' = [at EXCEPT ![t] = "idle"] /\ UNCHANGED <<event, posts>>
        /\ accepted' = Append(accepted, event[t])
    BY <1>5 DEF PostReturns, Goes, MailboxInv, LockInv
  <2>2. mailbox' = [queue |-> mailbox.queue, head |-> mailbox.head, tail |-> After(mailbox.tail),
                    count |-> mailbox.count + 1, lock |-> "free"]
    BY <1>5 DEF PostReturns, Unlocked, MailboxInv, MailboxType
  <2>3. /\ After(mailbox.tail) \in 0..C - 1
        /\ After(mailbox.tail) = Place(mailbox.head, mailbox.count + 1)
    <3>1. mailbox.count \in 0..C - 1
      BY <2>1, <1>0
    <3>2. /\ After(Place(mailbox.head, mailbox.count)) = Place(mailbox.head, mailbox.count + 1)
          /\ After(mailbox.tail) \in 0..C - 1
      BY <3>1, <1>0, Places, Successor, Zenon
    <3> QED
      BY <2>1, <3>2
  <2>4. event[t] \in Nat /\ event \in [EventTasks -> Nat]
    BY DEF MailboxInv, MailboxType
  <2>5. MailboxType'
    <3>a. C \in Nat /\ mailbox.count \in 0..C /\ mailbox.count < C /\ accepted \in Seq(Nat)
      BY <2>1, <1>0 DEF MailboxInv, MailboxType
    <3>1. mailbox.count + 1 \in 0..C /\ Append(accepted, event[t]) \in Seq(Nat)
      BY <2>4, <3>a
    <3> QED
      BY <2>1, <2>2, <2>3, <2>4, <3>1, <1>0 DEF MailboxInv, MailboxType, EventTasks, Holding
  <2>6. LockInv'
    <3>1. mailbox'.tail = Place(mailbox'.head, mailbox'.count)
      BY <2>2, <2>3
    <3>2. mailbox'.lock = "free" /\ \A u \in EventTasks : at'[u] \notin Holding
      BY <2>1, <2>2 DEF MailboxInv, MailboxType, LockInv, EventTasks, Holding
    <3> QED
      BY <2>1, <3>1, <3>2 DEF MailboxInv, MailboxType, LockInv, EventTasks, Holding
  <2>7. InHand' = InHand
    BY <2>1 DEF MailboxInv, MailboxType, InHand, EventTasks
  <2>8. /\ Len(accepted') = Len(accepted) + 1
        /\ \A i \in 1..Len(accepted) : accepted'[i] = accepted[i]
        /\ accepted'[Len(accepted) + 1] = event[t]
    BY <2>1, <2>4, <1>0
  <2>9. \A k \in 0..mailbox.count :
          accepted'[InHand + k + 1] = mailbox.queue[Place(mailbox.head, k)]
    <3> SUFFICES ASSUME NEW k \in 0..mailbox.count
                 PROVE  accepted'[InHand + k + 1] = mailbox.queue[Place(mailbox.head, k)]
      OBVIOUS
    <3>1. CASE k = mailbox.count
      BY <3>1, <2>1, <2>8, <1>0 DEF MailboxInv, OrderInv
    <3>2. CASE k # mailbox.count
      <4>1. /\ k \in 0..mailbox.count - 1 /\ InHand + k + 1 \in 1..Len(accepted)
        BY <3>2, <1>0 DEF MailboxInv, OrderInv
      <4>2. accepted[InHand + k + 1] = mailbox.queue[Place(mailbox.head, k)]
        BY <4>1 DEF MailboxInv, OrderInv
      <4> QED
        BY <4>1, <4>2, <2>8
    <3> QED
      BY <3>1, <3>2
  <2>10. OrderInv'
    <3>1. Len(accepted') = InHand' + mailbox'.count
      BY <2>2, <2>7, <2>8, <1>0 DEF MailboxInv, OrderInv
    <3>2. InHand' = 1 => accepted'[1] = event'["ui"]
      BY <2>1, <2>7, <2>8, <1>0 DEF MailboxInv, OrderInv
    <3>3. 0..mailbox'.count - 1 = 0..mailbox.count
      BY <2>2, <1>0
    <3>4. mailbox'.queue = mailbox.queue /\ mailbox'.head = mailbox.head
      BY <2>2
    <3>5. \A k \in 0..mailbox'.count - 1 :
            accepted'[InHand' + k + 1] = mailbox'.queue[Place(mailbox'.head, k)]
      BY <2>7, <2>9, <3>3, <3>4
    <3> QED
      BY <3>1, <3>2, <3>5 DEF OrderInv, Place
  <2> QED
    BY <2>5, <2>6, <2>10 DEF MailboxInv
<1>6. CASE RelayCalled
  BY <1>6 DEF RelayCalled, Goes, MailboxInv, MailboxType, LockInv, OrderInv, InHand, Holding,
              EventTasks
<1>7. CASE PopReads
  <2>1. /\ at["ui"] = "popping" /\ mailbox.count > 0
        /\ at' = [at EXCEPT !["ui"] = "popped"] /\ UNCHANGED <<mailbox, posts, accepted>>
        /\ event' = [event EXCEPT !["ui"] = mailbox.queue[mailbox.head]]
    BY <1>7 DEF PopReads, Goes
  <2>2. MailboxType'
    BY <2>1, <1>0 DEF MailboxInv, MailboxType, EventTasks, Holding
  <2>3. LockInv'
    BY <2>1, <1>0 DEF MailboxInv, MailboxType, LockInv, EventTasks, Holding
  <2>4. OrderInv'
    BY <2>1 DEF MailboxInv, MailboxType, OrderInv, InHand, EventTasks
  <2> QED
    BY <2>2, <2>3, <2>4 DEF MailboxInv
<1>8. CASE PopReturns
  <2>1. /\ at["ui"] = "popped" /\ mailbox.count > 0 /\ mailbox.queue[mailbox.head] = event["ui"]
        /\ at' = [at EXCEPT !["ui"] = "publish"] /\ UNCHANGED <<event, posts, accepted>>
    BY <1>8 DEF PopReturns, Goes, MailboxInv, LockInv, EventTasks
  <2>2. mailbox' = [queue |-> mailbox.queue, head |-> After(mailbox.head), tail |-> mailbox.tail,
                    count |-> mailbox.count - 1, lock |-> "free"]
    BY <1>8 DEF PopReturns, Unlocked, MailboxInv, MailboxType
  <2>3. /\ After(mailbox.head) \in 0..C - 1 /\ mailbox.count - 1 \in 0..C - 1
        /\ \A k \in 0..C - 1 : Place(After(mailbox.head), k) = Place(mailbox.head, k + 1)
        /\ Place(mailbox.head, 0) = mailbox.head
    <3>a. C \in Nat \ {0} /\ mailbox.count \in 0..C /\ mailbox.count > 0
      BY <2>1, <1>0
    <3>1. 0 \in 0..C - 1 /\ mailbox.count - 1 \in 0..C - 1
      BY <3>a
    <3>2. /\ After(mailbox.head) \in 0..C - 1
          /\ \A k \in 0..C - 1 : Place(After(mailbox.head), k) = Place(mailbox.head, k + 1)
          /\ Place(mailbox.head, 0) = mailbox.head
      BY <3>1, <1>0, Places, Successor, Zenon
    <3> QED
      BY <3>1, <3>2
  <2>4. MailboxType'
    <3>1. mailbox.count - 1 \in 0..C
      BY <2>3, <1>0
    <3>2. mailbox' \in [queue : [0..C - 1 -> Nat], head : 0..C - 1, tail : 0..C - 1,
                        count : 0..C, lock : EventTasks \cup {"free"}]
      BY <2>2, <2>3, <3>1, <1>0
    <3> QED
      BY <2>1, <3>2 DEF MailboxInv, MailboxType, EventTasks, Holding
  <2>5. LockInv'
    <3>1. mailbox'.tail = Place(mailbox'.head, mailbox'.count)
      BY <2>2, <2>3, <1>0 DEF MailboxInv, LockInv
    <3>2. mailbox'.lock = "free" /\ \A u \in EventTasks : at'[u] \notin Holding
      BY <2>1, <2>2 DEF MailboxInv, MailboxType, LockInv, EventTasks, Holding
    <3> QED
      BY <2>1, <3>1, <3>2 DEF MailboxInv, MailboxType, LockInv, EventTasks, Holding
  <2>6. InHand = 0 /\ InHand' = 1
    BY <2>1 DEF MailboxInv, MailboxType, InHand, EventTasks
  <2>7. accepted[1] = event["ui"]
    <3>1. accepted[InHand + 0 + 1] = mailbox.queue[Place(mailbox.head, 0)]
      BY <2>1, <1>0 DEF MailboxInv, OrderInv
    <3> QED
      BY <3>1, <2>1, <2>3, <2>6
  <2>8. \A k \in 0..mailbox.count - 2 :
          accepted[1 + k + 1] = mailbox.queue[Place(After(mailbox.head), k)]
    <3> SUFFICES ASSUME NEW k \in 0..mailbox.count - 2
                 PROVE  accepted[1 + k + 1] = mailbox.queue[Place(After(mailbox.head), k)]
      OBVIOUS
    <3>1. k + 1 \in 0..mailbox.count - 1 /\ k \in 0..C - 1
      BY <1>0
    <3>2. accepted[InHand + (k + 1) + 1] = mailbox.queue[Place(mailbox.head, k + 1)]
      BY <3>1 DEF MailboxInv, OrderInv
    <3> QED
      BY <3>1, <3>2, <2>3, <2>6
  <2>9. OrderInv'
    <3>1. Len(accepted') = InHand' + mailbox'.count
      BY <2>1, <2>2, <2>6, <1>0 DEF MailboxInv, OrderInv
    <3> QED
      BY <2>1, <2>2, <2>6, <2>7, <2>8, <3>1, <1>0 DEF OrderInv
  <2> QED
    BY <2>4, <2>5, <2>9 DEF MailboxInv
<1>9. CASE Publish
  <2>1. /\ at["ui"] = "publish" /\ mailbox' = mailbox /\ UNCHANGED <<event, posts>>
        /\ at' = [at EXCEPT !["ui"] = "pop"] /\ accepted' = Tail(accepted)
    BY <1>9 DEF Publish, Goes
  <2>2. InHand = 1 /\ InHand' = 0
    BY <2>1 DEF MailboxInv, MailboxType, InHand, EventTasks
  <2>3. accepted # <<>>
    BY <2>2, <1>0 DEF MailboxInv, OrderInv
  <2>4. /\ Tail(accepted) \in Seq(Nat) /\ Len(Tail(accepted)) = Len(accepted) - 1
        /\ \A i \in 1..Len(accepted) - 1 : Tail(accepted)[i] = accepted[i + 1]
    BY <2>3, <1>0
  <2>5. MailboxType'
    BY <2>1, <2>4 DEF MailboxInv, MailboxType, EventTasks, Holding
  <2>6. LockInv'
    BY <2>1 DEF MailboxInv, MailboxType, LockInv, EventTasks, Holding
  <2>7. \A k \in 0..mailbox.count - 1 :
          accepted'[k + 1] = mailbox.queue[Place(mailbox.head, k)]
    <3> SUFFICES ASSUME NEW k \in 0..mailbox.count - 1
                 PROVE  accepted'[k + 1] = mailbox.queue[Place(mailbox.head, k)]
      OBVIOUS
    <3>1. Len(accepted) = 1 + mailbox.count
      BY <2>2 DEF MailboxInv, OrderInv
    <3>2. k + 1 \in 1..Len(accepted) - 1 /\ 1 + k + 1 = k + 1 + 1
      BY <3>1, <1>0
    <3>3. accepted[1 + k + 1] = mailbox.queue[Place(mailbox.head, k)]
      BY <2>2 DEF MailboxInv, OrderInv
    <3> QED
      BY <3>2, <3>3, <2>1, <2>4
  <2>8. OrderInv'
    <3>1. Len(accepted) = 1 + mailbox.count
      BY <2>2 DEF MailboxInv, OrderInv
    <3>2. Len(accepted') = InHand' + mailbox'.count
      BY <3>1, <2>1, <2>2, <2>4, <1>0
    <3>3. \A k \in 0..mailbox.count - 1 : InHand' + k + 1 = k + 1
      BY <2>2, <1>0
    <3>4. \A k \in 0..mailbox'.count - 1 :
            accepted'[InHand' + k + 1] = mailbox'.queue[Place(mailbox'.head, k)]
      BY <2>1, <2>7, <3>3
    <3>5. ~(InHand' = 1)
      BY <2>2
    <3> QED
      BY <3>2, <3>4, <3>5 DEF OrderInv, Place
  <2> QED
    BY <2>5, <2>6, <2>8 DEF MailboxInv
<1>10. CASE UNCHANGED eventVars
  BY <1>10 DEF eventVars, MailboxInv, MailboxType, LockInv, OrderInv, InHand
<1>11. ASSUME NEW t \in EventTasks, Posts(t) PROVE MailboxInv'
  <2>1. CASE Locked(t, "post", "posting")
    BY <2>1, <1>2
  <2>2. CASE PostRefused(t)
    BY <2>2, <1>3 DEF PostRefused, Goes, Unlocked
  <2> QED
    BY <1>11, <2>1, <2>2, <1>4, <1>5 DEF Posts
<1>12. CASE Relays
  <2>1. CASE Locked("ui", "pop", "popping")
    BY <2>1, <1>2 DEF EventTasks
  <2> QED
    BY <1>12, <2>1, <1>7, <1>8, <1>9 DEF Relays
<1>13. CASE RelayEmpty
  BY <1>13, <1>3 DEF RelayEmpty, Goes, Unlocked, EventTasks
<1> QED
  BY <1>1, <1>6, <1>10, <1>11, <1>12, <1>13 DEF EventStep

LEMMA MailboxOrdered == MailboxInv => EventsInOrder
<1> SUFFICES ASSUME MailboxInv PROVE EventsInOrder
  OBVIOUS
<1> DEFINE InFlight == IF at["ui"] = "publish" THEN <<event["ui"]>> ELSE <<>>
           All == InFlight \o Contents
<1>0. /\ MailboxCapacity \in Nat \ {0} /\ mailbox.head \in 0..MailboxCapacity - 1
      /\ mailbox.count \in 0..MailboxCapacity
      /\ mailbox.queue \in [0..MailboxCapacity - 1 -> Nat]
      /\ accepted \in Seq(Nat) /\ event["ui"] \in Nat
  BY MailboxAssumption DEF MailboxInv, MailboxType, EventTasks
<1>1. \A i \in 1..mailbox.count :
        /\ Contents[i] = mailbox.queue[Place(mailbox.head, i - 1)]
        /\ Contents[i] \in Nat
  <2> SUFFICES ASSUME NEW i \in 1..mailbox.count
               PROVE  /\ Contents[i] = mailbox.queue[Place(mailbox.head, i - 1)]
                      /\ Contents[i] \in Nat
    OBVIOUS
  <2>1. i - 1 \in 0..MailboxCapacity /\ mailbox.head + i - 1 = mailbox.head + (i - 1)
    BY <1>0
  <2>2. /\ (mailbox.head + (i - 1)) % MailboxCapacity = Place(mailbox.head, i - 1)
        /\ Place(mailbox.head, i - 1) \in 0..MailboxCapacity - 1
    BY <2>1, <1>0, Wrapped
  <2>3. Contents[i] = mailbox.queue[(mailbox.head + i - 1) % MailboxCapacity]
    BY DEF Contents
  <2> QED
    BY <2>1, <2>2, <2>3, <1>0
<1>2. Contents \in Seq(Nat) /\ Len(Contents) = mailbox.count
  <2>0. /\ mailbox.count \in Nat
        /\ Contents = [i \in 1..mailbox.count |->
                         mailbox.queue[(mailbox.head + i - 1) % MailboxCapacity]]
    BY <1>0 DEF Contents
  <2>1. mailbox.count \in Nat /\ Contents \in [1..mailbox.count -> Nat]
    BY <2>0, <1>1, Zenon
  <2> QED
    BY <2>1, SeqDef, LenProperties
<1>3. InFlight \in Seq(Nat) /\ Len(InFlight) = InHand
  BY <1>0 DEF InHand
<1>4. All \in Seq(Nat) /\ Len(All) = Len(accepted)
  BY <1>2, <1>3, <1>0 DEF MailboxInv, OrderInv
<1>5. \A i \in 1..Len(accepted) : accepted[i] = All[i]
  <2> SUFFICES ASSUME NEW i \in 1..Len(accepted) PROVE accepted[i] = All[i]
    OBVIOUS
  <2>1. InHand \in {0, 1} /\ Len(accepted) = InHand + mailbox.count
    BY DEF InHand, MailboxInv, OrderInv
  <2>2. CASE i <= InHand
    <3>1. i = 1 /\ InHand = 1 /\ at["ui"] = "publish"
      BY <2>1, <2>2, <1>0 DEF InHand
    <3>2. All[1] = event["ui"]
      BY <3>1, <1>2, <1>0
    <3> QED
      BY <3>1, <3>2 DEF MailboxInv, OrderInv
  <2>3. CASE i > InHand
    <3> DEFINE k == i - InHand - 1
    <3>a. i \in Nat /\ InHand \in Nat /\ mailbox.count \in Nat /\ i <= InHand + mailbox.count
      BY <2>1, <1>0
    <3>1. /\ k \in 0..mailbox.count - 1 /\ i - InHand \in 1..mailbox.count
          /\ InHand + k + 1 = i /\ i - InHand - 1 = k
      <4> HIDE DEF InFlight, All
      <4> QED
        BY <2>3, <3>a
    <3>2. accepted[i] = mailbox.queue[Place(mailbox.head, k)]
      BY <3>1 DEF MailboxInv, OrderInv
    <3>3. All[i] = Contents[i - InHand]
      <4>1. i \in 1..Len(InFlight) + Len(Contents)
        BY <1>2, <1>3, <2>1, <3>1, <1>0
      <4>2. ~(i <= Len(InFlight)) /\ i - Len(InFlight) = i - InHand
        BY <1>3, <2>1, <2>3
      <4> QED
        BY <4>1, <4>2, <1>2, <1>3, ConcatProperties
    <3>4. Contents[i - InHand] = mailbox.queue[Place(mailbox.head, i - InHand - 1)]
      BY <3>1, <1>1
    <3> QED
      BY <3>1, <3>2, <3>3, <3>4
  <2>4. i <= InHand \/ i > InHand
    BY <2>1, <1>0
  <2> QED
    BY <2>2, <2>3, <2>4
<1>6. accepted = All
  BY <1>0, <1>4, <1>5, SeqEqual
<1> QED
  BY <1>6 DEF EventsInOrder

(***************************************************************************)
(* No event is lost, doubled or overtaken between the Wi-Fi event task and *)
(* the bus, for a mailbox of any capacity, preempted anywhere.             *)
(***************************************************************************)
THEOREM MailboxKeepsOrder == EventsSpec => []EventsInOrder
<1>1. EventsInit => MailboxInv
  <2>1. EventsInit => Emptied
    BY DEF EventsInit, Emptied
  <2> QED
    BY <2>1, MailboxEmptied
<1>2. MailboxInv /\ [EventsNext]_eventVars => MailboxInv'
  <2>1. [EventsNext]_eventVars => [EventStep]_eventVars
    BY DEF EventsNext, EventStep, EventTasks
  <2> QED
    BY <2>1, MailboxStep
<1> QED
  BY <1>1, <1>2, MailboxOrdered, PTL DEF EventsSpec

-----------------------------------------------------------------------------
(* The service manager reaches what runs                                    *)

ManagerStep ==
  \/ \E catalog \in Catalogs : Register(catalog)
  \/ StartAll \/ BeginService \/ ServiceStarted \/ ServiceDegraded \/ ServiceFailed
  \/ AllStarted \/ StopAll \/ StopService \/ AllStopped \/ Clear

\* A manager without services, as boot and a restart find it
Bare ==
  /\ lifecycle = "stopped" /\ services = <<>> /\ health = <<>> /\ started = 0
  /\ index = 0 /\ phase = "None" /\ running = {} /\ critical \in Criticals

LEMMA ManagerBare == Bare => ManagerInv
<1> SUFFICES ASSUME Bare PROVE ManagerInv
  OBVIOUS
<1>1. TypeOK
  BY ServicesAssumption DEF Bare, TypeOK, LifecycleState
<1>2. PhaseInv /\ ReachInv
  BY DEF Bare, PhaseInv, ReachInv
<1> QED
  BY <1>1, <1>2 DEF ManagerInv

LEMMA ManagerKeeps == ManagerInv /\ [ManagerStep]_vars => ManagerInv'
<1> SUFFICES ASSUME ManagerInv, [ManagerStep]_vars PROVE ManagerInv'
  OBVIOUS
<1>0. /\ Capacity \in Nat /\ services \in Seq(Services) /\ health \in Seq(Health)
      /\ Len(services) \in Nat /\ Len(services) <= Capacity
      /\ Len(health) = Len(services) /\ started \in 0..Len(services)
      /\ index \in 0..Capacity + 1 /\ lifecycle \in LifecycleState
      /\ phase \in {"None", "Start", "Rollback", "Stop"}
      /\ running \subseteq Services /\ critical \in Criticals
  BY ServicesAssumption DEF ManagerInv, TypeOK
<1>1. ASSUME NEW catalog \in Catalogs, Register(catalog) PROVE ManagerInv'
  <2>1. /\ lifecycle = "stopped" /\ started = 0 /\ phase \notin {"Stop", "Rollback"}
        /\ Reached = 0 /\ catalog \in Seq(Services)
        /\ UNCHANGED <<lifecycle, started, index, phase, running, critical>>
        /\ Len(services) + Len(catalog) <= Capacity
        /\ services' = services \o catalog
    BY <1>1, RuntimeAssumption DEF Register, ManagerInv, PhaseInv, Reached
  <2> DEFINE new == [i \in 1..Len(catalog) |-> "unknown"]
  <2>2. /\ Len(catalog) \in Nat /\ new \in [1..Len(catalog) -> Health]
    BY <2>1 DEF Health
  <2>3. new \in Seq(Health) /\ Len(new) = Len(catalog)
    BY <2>2, SeqDef, LenProperties
  <2>4. /\ services' \in Seq(Services) /\ Len(services') = Len(services) + Len(catalog)
    BY <2>1, <1>0, ConcatProperties
  <2>5. /\ health' = health \o new
        /\ health' \in Seq(Health) /\ Len(health') = Len(health) + Len(new)
        /\ \A i \in 1..Len(health) + Len(new) :
             health'[i] = IF i <= Len(health) THEN health[i] ELSE new[i - Len(health)]
    <3>1. health' = health \o new
      BY <1>1 DEF Register
    <3> QED
      BY <3>1, <2>3, <1>0, ConcatProperties
  <2>6. TypeOK'
    BY <2>1, <2>2, <2>3, <2>4, <2>5, <1>0 DEF TypeOK
  <2>7. PhaseInv'
    BY <2>1, <1>0 DEF ManagerInv, PhaseInv
  <2>8. running = {}
    BY <2>1 DEF ManagerInv, ReachInv
  <2>9. \A i \in 1..Len(services') : health'[i] \notin Served
    <3> SUFFICES ASSUME NEW i \in 1..Len(services') PROVE health'[i] \notin Served
      OBVIOUS
    <3>1. CASE i <= Len(health)
      <4>1. i \in 1..Len(services) /\ ~(i <= 0) /\ health'[i] = health[i]
        BY <3>1, <2>2, <2>3, <2>4, <2>5, <1>0
      <4> QED
        BY <4>1, <2>1 DEF ManagerInv, ReachInv
    <3>2. CASE ~(i <= Len(health))
      <4>1. i - Len(health) \in 1..Len(catalog) /\ health'[i] = new[i - Len(health)]
        BY <3>2, <2>2, <2>3, <2>4, <2>5, <1>0
      <4> QED
        BY <4>1 DEF Served
    <3> QED
      BY <3>1, <3>2
  <2>10. ReachInv'
    <3>1. Reached' = 0 /\ running' = {}
      BY <2>1, <2>8 DEF Reached
    <3>2. \A i \in 1..Len(services') : ~(i <= 0)
      BY <2>2, <2>4, <1>0
    <3> QED
      BY <3>1, <3>2, <2>9 DEF ReachInv
  <2> QED
    BY <2>6, <2>7, <2>10 DEF ManagerInv
<1>2. ASSUME NEW i \in 1..Len(services), NEW h \in Health, health' = [health EXCEPT ![i] = h]
      PROVE  /\ health' \in Seq(Health) /\ Len(health') = Len(health)
             /\ health'[i] = h
             /\ \A j \in 1..Len(services) : j # i => health'[j] = health[j]
  BY <1>2, <1>0
<1>3. CASE StartAll
  <2>1. /\ lifecycle = "stopped" /\ lifecycle' = "starting" /\ phase' = "Start"
        /\ started = 0 /\ started' = 0 /\ index' = 1 /\ Reached = 0 /\ Reached' = 0
        /\ UNCHANGED <<services, health, running, critical>>
    BY <1>3 DEF StartAll, BeginStart, ManagerInv, PhaseInv, Reached
  <2>2. TypeOK'
    BY <2>1, <1>0 DEF TypeOK, LifecycleState
  <2> QED
    BY <2>1, <2>2, <1>0 DEF ManagerInv, PhaseInv, ReachInv
<1>4. ASSUME AtService
      PROVE  /\ phase = "Start" /\ lifecycle = "starting" /\ index = started + 1
             /\ index \in 1..Len(services) /\ services[index] \in Services
             /\ Reached = started /\ started + 1 \in 0..Len(services)
             /\ index + 1 \in 0..Capacity + 1
  BY <1>4, <1>0 DEF AtService, ManagerInv, PhaseInv, Reached
<1>5. CASE BeginService
  <2>1. /\ AtService /\ health' = [health EXCEPT ![index] = "starting"]
        /\ UNCHANGED <<lifecycle, services, started, index, phase, running, critical>>
    BY <1>5 DEF BeginService, SetHealth
  <2>2. "starting" \in Health /\ "starting" \notin Served
    BY DEF Health, Served
  <2>3. /\ health' \in Seq(Health) /\ Len(health') = Len(health) /\ health'[index] = "starting"
        /\ \A j \in 1..Len(services) : j # index => health'[j] = health[j]
    BY <2>1, <2>2, <1>2, <1>4
  <2>4. TypeOK' /\ PhaseInv'
    BY <2>1, <2>3, <1>0 DEF ManagerInv, TypeOK, PhaseInv
  <2>5. ReachInv'
    <3>1. Reached' = Reached /\ ~(index <= Reached)
      BY <2>1, <1>4, <1>0 DEF Reached
    <3> QED
      BY <2>1, <2>2, <2>3, <3>1 DEF ManagerInv, ReachInv
  <2> QED
    BY <2>4, <2>5 DEF ManagerInv
<1>6. ASSUME AtService, NEW h \in Served, SetHealth(index, h), NEW held \in SUBSET {services[index]},
             running' = running \cup held, started' = started + 1, index' = index + 1,
             UNCHANGED <<lifecycle, services, phase, critical>>
      PROVE  ManagerInv'
  <2>1. h \in Health
    BY DEF Served, Health
  <2>2. /\ health' \in Seq(Health) /\ Len(health') = Len(health) /\ health'[index] = h
        /\ \A j \in 1..Len(services) : j # index => health'[j] = health[j]
    BY <1>6, <2>1, <1>2, <1>4 DEF SetHealth
  <2>3. TypeOK'
    BY <1>6, <2>2, <1>4, <1>0 DEF TypeOK
  <2>4. PhaseInv'
    BY <1>6, <1>4, <1>0 DEF PhaseInv
  <2>5. Reached' = index /\ Reached = index - 1
    BY <1>6, <1>4, <1>0 DEF Reached
  <2>6. running' \subseteq {services'[i] : i \in 1..Reached'}
    <3>1. \A i \in 1..Reached : i \in 1..index
      BY <2>5, <1>4, <1>0
    <3>2. index \in 1..index
      BY <1>6, <1>4, <1>0
    <3> QED
      BY <1>6, <2>5, <3>1, <3>2 DEF ManagerInv, ReachInv
  <2>7. \A i \in 1..Len(services') : health'[i] \in Served <=> i <= Reached'
    <3>1. \A i \in 1..Len(services) : i # index => (i <= index - 1 <=> i <= index)
      BY <1>6, <1>4, <1>0
    <3>2. index <= index
      BY <1>6, <1>4
    <3> QED
      BY <1>6, <2>2, <2>5, <3>1, <3>2 DEF ManagerInv, ReachInv
  <2> QED
    BY <2>3, <2>4, <2>6, <2>7 DEF ManagerInv, ReachInv
<1>7. CASE ServiceStarted
  <2>1. {services[index]} \in SUBSET {services[index]} /\ "healthy" \in Served
    BY DEF Served
  <2> QED
    BY <1>7, <2>1, <1>6 DEF ServiceStarted
<1>8. CASE ServiceDegraded
  <2>1. "degraded" \in Served
    BY DEF Served
  <2> QED
    BY <1>8, <2>1, <1>6 DEF ServiceDegraded
<1>9. CASE ServiceFailed
  <2>1. /\ AtService /\ health' = [health EXCEPT ![index] = "failed"]
        /\ phase' = "Rollback" /\ index' = started
        /\ UNCHANGED <<lifecycle, services, started, running, critical>>
    BY <1>9 DEF ServiceFailed, SetHealth
  <2>2. "failed" \in Health /\ "failed" \notin Served
    BY DEF Health, Served
  <2>3. /\ health' \in Seq(Health) /\ Len(health') = Len(health) /\ health'[index] = "failed"
        /\ \A j \in 1..Len(services) : j # index => health'[j] = health[j]
    BY <2>1, <2>2, <1>2, <1>4
  <2>4. started \in 0..Capacity + 1
    BY <1>0
  <2>5. TypeOK' /\ PhaseInv'
    BY <2>1, <2>3, <2>4, <1>4, <1>0 DEF TypeOK, PhaseInv
  <2>6. ReachInv'
    <3>1. Reached' = Reached /\ ~(index <= Reached)
      BY <2>1, <1>4, <1>0 DEF Reached
    <3> QED
      BY <2>1, <2>2, <2>3, <3>1 DEF ManagerInv, ReachInv
  <2> QED
    BY <2>5, <2>6 DEF ManagerInv
<1>10. CASE AllStarted
  <2>1. /\ phase = "Start" /\ lifecycle' = "running" /\ phase' = "None"
        /\ UNCHANGED <<services, health, started, index, running, critical>>
        /\ started = Len(services)
    BY <1>10, <1>0 DEF AllStarted, ManagerInv, PhaseInv
  <2>2. TypeOK' /\ PhaseInv'
    BY <2>1, <1>0 DEF TypeOK, PhaseInv, LifecycleState
  <2>3. Reached' = Reached
    BY <2>1 DEF Reached
  <2> QED
    BY <2>1, <2>2, <2>3 DEF ManagerInv, ReachInv
<1>11. CASE StopAll
  <2>1. /\ phase = "None" /\ lifecycle' = "stopping" /\ phase' = "Stop" /\ index' = started
        /\ UNCHANGED <<services, health, started, running, critical>>
    BY <1>11 DEF StopAll
  <2>2. TypeOK' /\ PhaseInv'
    BY <2>1, <1>0 DEF TypeOK, PhaseInv, LifecycleState
  <2>3. Reached' = Reached
    BY <2>1 DEF Reached
  <2> QED
    BY <2>1, <2>2, <2>3 DEF ManagerInv, ReachInv
<1>12. CASE StopService
  <2>1. /\ phase \in {"Stop", "Rollback"} /\ index > 0 /\ index <= started
        /\ running' = running \ {services[index]}
        /\ health' = [health EXCEPT ![index] = "stopped"] /\ index' = index - 1
        /\ UNCHANGED <<lifecycle, services, started, phase, critical>>
    BY <1>12 DEF StopService, SetHealth, ManagerInv, PhaseInv
  <2>2. /\ index \in 1..Len(services) /\ index - 1 \in 0..Capacity + 1 /\ index - 1 <= started
        /\ Reached = index /\ Reached' = index - 1
    BY <2>1, <1>0 DEF Reached
  <2>3. "stopped" \in Health /\ "stopped" \notin Served
    BY DEF Health, Served
  <2>4. /\ health' \in Seq(Health) /\ Len(health') = Len(health) /\ health'[index] = "stopped"
        /\ \A j \in 1..Len(services) : j # index => health'[j] = health[j]
    BY <2>1, <2>2, <2>3, <1>2
  <2>5. TypeOK'
    BY <2>1, <2>2, <2>4, <1>0 DEF TypeOK
  <2>6. PhaseInv'
    BY <2>1, <2>2 DEF ManagerInv, PhaseInv
  <2>7. running' \subseteq {services'[i] : i \in 1..Reached'}
    <3>1. \A i \in 1..index : i = index \/ i \in 1..index - 1
      BY <2>2, <1>0
    <3> QED
      BY <2>1, <2>2, <3>1 DEF ManagerInv, ReachInv
  <2>8. \A i \in 1..Len(services') : health'[i] \in Served <=> i <= Reached'
    <3>1. \A i \in 1..Len(services) : i # index => (i <= index - 1 <=> i <= index)
      BY <2>2, <1>0
    <3>2. ~(index <= index - 1)
      BY <2>2
    <3> QED
      BY <2>1, <2>2, <2>3, <2>4, <3>1, <3>2 DEF ManagerInv, ReachInv
  <2> QED
    BY <2>5, <2>6, <2>7, <2>8 DEF ManagerInv, ReachInv
<1>13. CASE AllStopped
  <2>1. /\ phase \in {"Stop", "Rollback"} /\ index = 0 /\ started' = 0
        /\ lifecycle' = "stopped" /\ phase' = "None"
        /\ UNCHANGED <<services, health, index, running, critical>>
    BY <1>13 DEF AllStopped
  <2>2. TypeOK' /\ PhaseInv'
    BY <2>1, <1>0 DEF TypeOK, PhaseInv, LifecycleState
  <2>3. Reached' = Reached
    BY <2>1 DEF Reached
  <2> QED
    BY <2>1, <2>2, <2>3 DEF ManagerInv, ReachInv
<1>14. CASE Clear
  <2>1. /\ phase = "None" /\ lifecycle = "stopped" /\ started = 0
        /\ services' = <<>> /\ health' = <<>> /\ Reached = 0 /\ Reached' = 0
        /\ UNCHANGED <<lifecycle, started, index, phase, running, critical>>
    BY <1>14 DEF Clear, ManagerInv, PhaseInv, Reached
  <2>2. TypeOK'
    BY <2>1, <1>0 DEF TypeOK
  <2>3. PhaseInv'
    BY <2>1 DEF PhaseInv
  <2>4. ReachInv'
    BY <2>1 DEF ManagerInv, ReachInv
  <2> QED
    BY <2>2, <2>3, <2>4 DEF ManagerInv
<1>15. CASE UNCHANGED vars
  BY <1>15 DEF vars, ManagerInv, TypeOK, PhaseInv, ReachInv, Reached
<1> QED
  BY <1>1, <1>3, <1>5, <1>7, <1>8, <1>9, <1>10, <1>11, <1>12, <1>13, <1>14, <1>15 DEF ManagerStep

LEMMA ManagerReaches == ManagerInv => StopReachesRunning /\ HealthIsHonest
<1> SUFFICES ASSUME ManagerInv PROVE StopReachesRunning /\ HealthIsHonest
  OBVIOUS
<1>0. /\ Len(services) \in Nat /\ started \in 0..Len(services) /\ Len(health) = Len(services)
      /\ lifecycle \in LifecycleState /\ health \in Seq(Health)
  BY DEF ManagerInv, TypeOK
<1>1. Reached <= started /\ Reached \in Int
  BY <1>0, ServicesAssumption DEF ManagerInv, PhaseInv, TypeOK, Reached
<1>2. running \subseteq Prefix
  <2>1. \A i \in 1..Reached : i \in 1..started
    BY <1>0, <1>1
  <2> QED
    BY <2>1 DEF ManagerInv, ReachInv, Prefix
<1>3. lifecycle = "stopped" => running = {}
  BY <1>1, <1>2 DEF ManagerInv, PhaseInv, Prefix
<1>4. ASSUME phase = "None", NEW i \in DOMAIN health
      PROVE  health[i] \in {"healthy", "degraded"} <=> lifecycle = "running"
  <2>1. /\ i \in 1..Len(services) /\ Reached = started
        /\ lifecycle \in {"stopped", "running"}
    BY <1>0, <1>4 DEF Reached, ManagerInv, PhaseInv
  <2>2. lifecycle = "running" <=> i <= started
    BY <2>1, <1>0 DEF ManagerInv, PhaseInv
  <2> QED
    BY <2>1, <2>2 DEF ManagerInv, ReachInv, Served
<1> QED
  BY <1>2, <1>3, <1>4 DEF StopReachesRunning, HealthIsHonest

-----------------------------------------------------------------------------
(* The credentials                                                          *)

\* What a running save does, and what may happen to the store around it
SaveStep ==
  \/ SettingsStart \/ SettingsStop \/ SaveSteps \/ NvsErased \/ SettingsPowerLoss
  \/ \E network \in Submitted : SaveBegins(network)

LEMMA NothingSaved == SettingsInit => SaveInv
  BY DEF SettingsInit, SaveInv, NoSave, Whole

LEMMA SaveKeeps == SaveInv /\ [SaveStep]_settingsVars => SaveInv'
<1> SUFFICES ASSUME SaveInv, [SaveStep]_settingsVars PROVE SaveInv'
  OBVIOUS
<1> USE NetworksAssumption
<1>0. /\ store \in [wifi_ssid : Networks \cup {NoValue}, wifi_pass : Networks \cup {NoValue}]
      /\ save \in [at : {"idle", "ssid", "password", "rollback"},
                   new : Networks \cup {NoValue}, previous : Networks \cup {NoValue}]
      /\ NoSave.at = "idle"
      /\ NoSave \in [at : {"idle", "ssid", "password", "rollback"},
                     new : Networks \cup {NoValue}, previous : Networks \cup {NoValue}]
  BY DEF SaveInv, NoSave
<1>1. ASSUME UNCHANGED <<store, save, torn>> PROVE SaveInv'
  BY <1>1 DEF SaveInv, Whole
<1>2. ASSUME NEW network \in Networks, SaveBegins(network) PROVE SaveInv'
  <2>1. PICK previous \in Previous :
          save' = [at |-> "ssid", new |-> network, previous |-> previous]
    BY <1>2 DEF SaveBegins
  <2>2. /\ previous \in Networks \cup {NoValue}
        /\ previous # NoValue => store.wifi_ssid = previous /\ store.wifi_pass # NoValue
    BY <2>1, <1>0 DEF Previous, Readable
  <2> QED
    BY <1>2, <2>1, <2>2, <1>0 DEF SaveBegins, SaveInv, Whole
<1>3. CASE SsidWritten
  <2>1. /\ save.at = "ssid" /\ UNCHANGED torn
        /\ store' = [wifi_ssid |-> save.new, wifi_pass |-> store.wifi_pass]
        /\ save' = [at |-> "password", new |-> save.new, previous |-> save.previous]
    BY <1>3, <1>0 DEF SsidWritten, Write
  <2> QED
    BY <2>1, <1>0 DEF SaveInv, Whole
<1>4. CASE SsidFails
  <2>1. /\ save.at = "ssid" /\ save' = NoSave /\ torn' = (torn \/ store' # store)
        /\ store' \in {store, [wifi_ssid |-> save.new, wifi_pass |-> store.wifi_pass]}
    BY <1>4, <1>0 DEF SsidFails, WriteFails
  <2>2. store' # store => torn'
    BY <2>1
  <2>3. CASE store' = store
    BY <2>1, <2>3, <1>0 DEF SaveInv, Whole
  <2>4. CASE store' # store
    BY <2>1, <2>2, <2>4, <1>0 DEF SaveInv, Whole
  <2> QED
    BY <2>3, <2>4
<1>5. CASE PasswordWritten
  <2>1. /\ save.at = "password" /\ save' = NoSave
        /\ store' = [wifi_ssid |-> store.wifi_ssid, wifi_pass |-> save.new]
    BY <1>5, <1>0 DEF PasswordWritten, Write
  <2> QED
    BY <2>1, <1>0 DEF SaveInv, Whole
<1>6. CASE PasswordFails
  <2>1. /\ save.at = "password" /\ torn' = (torn \/ store' # store)
        /\ save' = [at |-> "rollback", new |-> save.new, previous |-> save.previous]
        /\ store' \in {store, [wifi_ssid |-> store.wifi_ssid, wifi_pass |-> save.new]}
    BY <1>6, <1>0 DEF PasswordFails, WriteFails
  <2>2. store' # store => torn'
    BY <2>1
  <2>3. CASE store' = store
    BY <2>1, <2>3, <1>0 DEF SaveInv, Whole
  <2>4. CASE store' # store
    BY <2>1, <2>2, <2>4, <1>0 DEF SaveInv, Whole
  <2> QED
    BY <2>3, <2>4
<1>7. CASE RolledBack
  <2>1. /\ save.at = "rollback" /\ save' = NoSave /\ UNCHANGED torn
        /\ store' = [wifi_ssid |-> save.previous, wifi_pass |-> store.wifi_pass]
    BY <1>7, <1>0 DEF RolledBack, Write
  <2> QED
    BY <2>1, <1>0 DEF SaveInv, Whole
<1>8. CASE RollbackFails
  <2>1. /\ save' = NoSave /\ torn' = TRUE
        /\ store' \in {store, [wifi_ssid |-> save.previous, wifi_pass |-> store.wifi_pass]}
    BY <1>8, <1>0 DEF RollbackFails, WriteFails
  <2> QED
    BY <2>1, <1>0 DEF SaveInv, Whole
<1>9. CASE NvsErased
  <2>1. /\ save = NoSave /\ save' = NoSave
        /\ store' = [wifi_ssid |-> NoValue, wifi_pass |-> NoValue]
    BY <1>9 DEF NvsErased
  <2> QED
    BY <2>1, <1>0 DEF SaveInv, Whole
<1>10. CASE SettingsPowerLoss
  <2>1. /\ save' = NoSave /\ UNCHANGED store
        /\ torn' = (torn \/ save.at \in {"password", "rollback"})
    BY <1>10 DEF SettingsPowerLoss
  <2> QED
    BY <2>1, <1>0 DEF SaveInv, Whole
<1> QED
  BY <1>1, <1>2, <1>3, <1>4, <1>5, <1>6, <1>7, <1>8, <1>9, <1>10
  DEF SaveStep, SaveSteps, SettingsStart, SettingsStop, settingsVars, Submitted

-----------------------------------------------------------------------------
(* Together                                                                 *)

\* Every step of the runtime is one of the managers, of the mailbox or of the
\* store, or power is lost.
LEMMA RuntimeSteps ==
  [RuntimeNext]_runtimeVars /\ ~PowerLoss
    => [ManagerStep]_vars /\ [EventStep]_eventVars /\ [SaveStep]_settingsVars
<1> SUFFICES ASSUME [RuntimeNext]_runtimeVars, ~PowerLoss
             PROVE  [ManagerStep]_vars /\ [EventStep]_eventVars /\ [SaveStep]_settingsVars
  OBVIOUS
<1>1. [ManagerStep]_vars
  BY DEF RuntimeNext, runtimeVars, ManagerStep, RegisterCatalog, StartServices, StartsService,
         FailsService, StopsService, TakesDown, ManagerSteps, BootCompletes, TickServices,
         RelayDone, TickShell, UiEvents, WifiEvents, Provisions, FlashErased
<1>2. [EventStep]_eventVars
  BY DEF RuntimeNext, runtimeVars, EventStep, EventTasks, Quiet,
         RegisterCatalog, StartServices, StartsService,
         FailsService, StopsService, TakesDown, ManagerSteps, BootCompletes, TickServices,
         RelayDone, TickShell, UiEvents, WifiEvents, Provisions, FlashErased
<1>3. [SaveStep]_settingsVars
  BY DEF RuntimeNext, runtimeVars, SaveStep, Quiet,
         RegisterCatalog, StartServices, StartsService,
         FailsService, StopsService, TakesDown, ManagerSteps, BootCompletes, TickServices,
         RelayDone, TickShell, UiEvents, WifiEvents, Provisions, FlashErased
<1> QED
  BY <1>1, <1>2, <1>3

LEMMA BootState == RuntimeInit => RuntimeInv
<1> SUFFICES ASSUME RuntimeInit PROVE RuntimeInv
  OBVIOUS
<1>1. ManagerInv
  BY ManagerBare DEF RuntimeInit, Init, Bare
<1>2. MailboxInv
  BY MailboxEmptied DEF RuntimeInit, EventsInit, Emptied
<1>3. SaveInv
  BY NothingSaved DEF RuntimeInit
<1>4. SaveServed
  BY DEF RuntimeInit, SettingsInit, NoSave, SaveServed
<1> QED
  BY <1>1, <1>2, <1>3, <1>4 DEF RuntimeInv

\* A restart keeps only the flash.
LEMMA Restarted == RuntimeInv /\ PowerLoss => RuntimeInv'
<1>1. RuntimeInv /\ PowerLoss => Bare'
  BY DEF RuntimeInv, ManagerInv, TypeOK, PowerLoss, Bare
<1>2. RuntimeInv /\ PowerLoss => Emptied'
  BY DEF RuntimeInv, MailboxInv, MailboxType, PowerLoss, Emptied
<1>3. RuntimeInv /\ PowerLoss => SaveInv'
  BY SaveKeeps DEF RuntimeInv, PowerLoss, SaveStep
<1>4. RuntimeInv /\ PowerLoss => SaveServed'
  BY DEF PowerLoss, SettingsPowerLoss, NoSave, SaveServed
<1>5. (Bare => ManagerInv)' /\ (Emptied => MailboxInv)'
  BY ManagerBare, MailboxEmptied, PTL
<1> QED
  BY <1>1, <1>2, <1>3, <1>4, <1>5 DEF RuntimeInv

\* Only a step of the save begins one, and only with the network running.
LEMMA SaveStaysServed == RuntimeInv /\ [RuntimeNext]_runtimeVars => SaveServed'
<1> SUFFICES ASSUME RuntimeInv, [RuntimeNext]_runtimeVars PROVE SaveServed'
  OBVIOUS
<1>0. SaveServed
  BY DEF RuntimeInv
<1>1. ASSUME save' = save, running \subseteq running' PROVE SaveServed'
  BY <1>0, <1>1 DEF SaveServed
<1>2. CASE RegisterCatalog \/ StartServices \/ TakesDown \/ ManagerSteps
  BY <1>1, <1>2 DEF RegisterCatalog, StartServices, TakesDown, ManagerSteps, Quiet, settingsVars,
     Register, StartAll, StopAll, Clear, BeginService, AllStarted, AllStopped
<1>3. CASE StartsService
  BY <1>1, <1>3 DEF StartsService, ServiceStarted, SettingsStart, settingsVars
<1>4. CASE FailsService
  BY <1>1, <1>4 DEF FailsService, ServiceDegraded, ServiceFailed, Quiet, settingsVars
<1>5. CASE StopsService
  <2>1. /\ save' = save /\ (NetworkId \in running \ running' => save.at = "idle")
    BY <1>5 DEF StopsService, SettingsStop, settingsVars
  <2> QED
    BY <1>0, <2>1 DEF SaveServed
<1>6. CASE BootCompletes \/ TickServices \/ RelayDone \/ TickShell \/ UiEvents \/ WifiEvents
  BY <1>1, <1>6 DEF BootCompletes, TickServices, RelayDone, TickShell, UiEvents, WifiEvents,
     settingsVars, vars
<1>7. CASE Provisions
  <2>1. running' = running
    BY <1>7 DEF Provisions, vars
  <2>2. CASE NetworkRuns
    BY <2>1, <2>2 DEF NetworkRuns, SaveServed
  <2>3. CASE SaveSteps
    <3>1. save.at # "idle"
      BY <2>3 DEF SaveSteps, SsidWritten, SsidFails, PasswordWritten, PasswordFails, RolledBack,
                  RollbackFails
    <3> QED
      BY <1>0, <2>1, <3>1 DEF SaveServed
  <2> QED
    BY <1>7, <2>2, <2>3 DEF Provisions
<1>8. CASE PowerLoss
  BY <1>8 DEF PowerLoss, SettingsPowerLoss, NoSave, SaveServed
<1>9. CASE FlashErased \/ UNCHANGED runtimeVars
  BY <1>1, <1>9 DEF FlashErased, NvsErased, runtimeVars, settingsVars, vars
<1> QED
  BY <1>2, <1>3, <1>4, <1>5, <1>6, <1>7, <1>8, <1>9 DEF RuntimeNext

(***************************************************************************)
(* The manager, the mailbox, the open save and the store keep their parts  *)
(* of the invariant through starts, failures, stops and losses of power.   *)
(***************************************************************************)
THEOREM RuntimeInvariant == RuntimeSpec => []RuntimeInv
<1>1. RuntimeInv /\ [RuntimeNext]_runtimeVars => RuntimeInv'
  <2> SUFFICES ASSUME RuntimeInv, [RuntimeNext]_runtimeVars PROVE RuntimeInv'
    OBVIOUS
  <2>1. CASE PowerLoss
    BY <2>1, Restarted
  <2>2. CASE ~PowerLoss
    BY <2>2, RuntimeSteps, ManagerKeeps, MailboxStep, SaveKeeps, SaveStaysServed DEF RuntimeInv
  <2> QED
    BY <2>1, <2>2
<1> QED
  BY <1>1, BootState, PTL DEF RuntimeSpec

(***************************************************************************)
(* For any catalog, criticality and outcome of each start: what holds      *)
(* resources is in the prefix that a stop will reach.                      *)
(***************************************************************************)
THEOREM StopReaches == RuntimeSpec => []StopReachesRunning
<1>1. RuntimeInv => StopReachesRunning
  BY ManagerReaches DEF RuntimeInv
<1> QED
  BY <1>1, RuntimeInvariant, PTL

(***************************************************************************)
(* Health records between calls of the manager: all of them show a service *)
(* that takes part when the manager runs, and none when it is stopped.     *)
(***************************************************************************)
THEOREM HealthHonest == RuntimeSpec => []HealthIsHonest
<1>1. RuntimeInv => HealthIsHonest
  BY ManagerReaches DEF RuntimeInv
<1> QED
  BY <1>1, RuntimeInvariant, PTL

(***************************************************************************)
(* The credentials outside a save are whole but for the three faults that  *)
(* cannot be undone, whatever networks there are.                          *)
(***************************************************************************)
THEOREM WifiPairStaysWhole == RuntimeSpec => []WifiPairWhole
<1>1. RuntimeInv => WifiPairWhole
  BY DEF RuntimeInv, SaveInv, Whole, WifiPairWhole
<1> QED
  BY <1>1, RuntimeInvariant, PTL

(***************************************************************************)
(* Relayed events come in order while services start, fail and stop and    *)
(* power is lost.                                                          *)
(***************************************************************************)
THEOREM RuntimeKeepsOrder == RuntimeSpec => []EventsInOrder
<1>1. RuntimeInv => EventsInOrder
  BY MailboxOrdered DEF RuntimeInv
<1> QED
  BY <1>1, RuntimeInvariant, PTL

(***************************************************************************)
(* The namespace closes under no save: the services that still run when    *)
(* settings is stopped were started before it, so network, registered      *)
(* after it, is not among them, and only a network that runs serves one.   *)
(***************************************************************************)
THEOREM SavesKeepTheStore == RuntimeSpec => SavesMeetOpenStore
<1> DEFINE Met == settings.open /\ ~settings'.open /\ services # <<>> /\ services' # <<>>
                    /\ SettingsFirst => save.at = "idle"
<1>1. RuntimeInv /\ [RuntimeNext]_runtimeVars => [Met]_runtimeVars
  <2> SUFFICES ASSUME RuntimeInv, RuntimeNext, settings.open, ~settings'.open,
                      services # <<>>, services' # <<>>, SettingsFirst
               PROVE  save.at = "idle"
    OBVIOUS
  <2>1. settings' # settings
    OBVIOUS
  <2>2. ~SettingsStart
    BY DEF SettingsStart
  <2>3. ~PowerLoss /\ ~Provisions /\ ~FlashErased
    BY <2>1 DEF PowerLoss, Provisions, SaveSteps, SaveBegins, SsidWritten, SsidFails,
       PasswordWritten, PasswordFails, RolledBack, RollbackFails, FlashErased, NvsErased
  <2>4. StopsService /\ SettingsId \in running \ running'
    BY <2>1, <2>2, <2>3
    DEF RuntimeNext, RegisterCatalog, StartServices, StartsService, FailsService, TakesDown,
        ManagerSteps, Quiet, BootCompletes, TickServices, RelayDone, TickShell, UiEvents,
        WifiEvents, settingsVars, StopsService
  <2>5. /\ index \in Nat /\ index > 0 /\ index <= started /\ started \in 0..Len(services)
        /\ Reached = index /\ services[index] = SettingsId /\ services \in Seq(Services)
    BY <2>4, ServicesAssumption
    DEF StopsService, StopService, RuntimeInv, ManagerInv, TypeOK, PhaseInv, Reached
  <2>6. ASSUME NetworkId \in running PROVE FALSE
    <3>1. PICK j \in 1..index : services[j] = NetworkId
      BY <2>5, <2>6 DEF RuntimeInv, ManagerInv, ReachInv
    <3>2. index \in DOMAIN services /\ j \in DOMAIN services /\ ~(index < j)
      BY <2>5
    <3> QED
      BY <2>5, <3>1, <3>2 DEF SettingsFirst
  <2> QED
    BY <2>6 DEF RuntimeInv, SaveServed
<1> QED
  BY <1>1, RuntimeInvariant, PTL DEF RuntimeSpec, SavesMeetOpenStore

=============================================================================
