------------------------------- MODULE Events -------------------------------
(***************************************************************************)
(* core::EventMailbox between the Wi-Fi event task and the UI task, and    *)
(* the EventRelay that drains it onto the EventBus.  The ring is guarded   *)
(* by a spin lock; a task that holds it can be preempted at any step.      *)
(***************************************************************************)
EXTENDS Naturals, Sequences

CONSTANTS MailboxCapacity,  \* 32
          MaxPosts,         \* bound: events that are ever posted
          SameCore          \* the event task outranks the UI task on one core

ASSUME MailboxAssumption ==
  /\ MailboxCapacity \in Nat \ {0} /\ MaxPosts \in Nat
  /\ SameCore \in BOOLEAN

EventTasks == {"ui", "wifi"}
NoEvent == 0

VARIABLES
  mailbox,   \* queue_, head_, tail_, count_ and, in lock, the holder
  at,        \* where each task is in post, try_pop and EventRelay::tick
  event,     \* the event each task has in hand; they are numbered
  posts,     \* how many there were
  accepted   \* what post took and the relay has not published, in order

eventVars == <<mailbox, at, event, posts, accepted>>

EventsInit ==
  /\ mailbox = [queue |-> [i \in 0..MailboxCapacity - 1 |-> NoEvent],
                head |-> 0, tail |-> 0, count |-> 0, lock |-> "free"]
  /\ at = [t \in EventTasks |-> "idle"]
  /\ event = [t \in EventTasks |-> NoEvent]
  /\ posts = 0 /\ accepted = <<>>

\* On one core the UI task runs when the event task has nothing to do.
MayRun(t) == t = "ui" /\ SameCore => at["wifi"] = "idle"

Goes(t, from, to) == MayRun(t) /\ at[t] = from /\ at' = [at EXCEPT ![t] = to]
After(i) == (i + 1) % MailboxCapacity
Unlocked(box) == [box EXCEPT !.lock = "free"]

PostCalled(t) ==
  /\ Goes(t, "idle", "post")
  /\ posts < MaxPosts /\ posts' = posts + 1
  /\ event' = [event EXCEPT ![t] = posts']
  /\ UNCHANGED <<mailbox, accepted>>

\* Mutant: the guard does not wait.
LockedAtOnce(t, from, to) ==
  /\ Goes(t, from, to)
  /\ mailbox' = [mailbox EXCEPT !.lock = t]
  /\ UNCHANGED <<event, posts, accepted>>

\* Guard: spins until the lock is free
Locked(t, from, to) ==
  /\ Goes(t, from, to)
  /\ mailbox.lock = "free"
  /\ mailbox' = [mailbox EXCEPT !.lock = t]
  /\ UNCHANGED <<event, posts, accepted>>

\* The result of a refused post is ignored.
PostRefused(t) ==
  /\ Goes(t, "posting", "idle")
  /\ mailbox.count = MailboxCapacity
  /\ mailbox' = Unlocked(mailbox)
  /\ UNCHANGED <<event, posts, accepted>>

PostWrites(t) ==
  /\ Goes(t, "posting", "posted")
  /\ mailbox.count < MailboxCapacity
  /\ mailbox' = [mailbox EXCEPT !.queue[mailbox.tail] = event[t]]
  /\ UNCHANGED <<event, posts, accepted>>

PostReturns(t) ==
  /\ Goes(t, "posted", "idle")
  /\ mailbox' = Unlocked([mailbox EXCEPT !.tail = After(mailbox.tail), !.count = mailbox.count + 1])
  /\ accepted' = Append(accepted, event[t])
  /\ UNCHANGED <<event, posts>>

Posts(t) == Locked(t, "post", "posting") \/ PostRefused(t) \/ PostWrites(t) \/ PostReturns(t)

-----------------------------------------------------------------------------
(* EventRelay::tick on the UI task                                          *)

RelayCalled == Goes("ui", "idle", "pop") /\ UNCHANGED <<mailbox, event, posts, accepted>>

RelayEmpty ==
  /\ Goes("ui", "popping", "idle")
  /\ mailbox.count = 0
  /\ mailbox' = Unlocked(mailbox)
  /\ UNCHANGED <<event, posts, accepted>>

PopReads ==
  /\ Goes("ui", "popping", "popped")
  /\ mailbox.count > 0
  /\ event' = [event EXCEPT !["ui"] = mailbox.queue[mailbox.head]]
  /\ UNCHANGED <<mailbox, posts, accepted>>

PopReturns ==
  /\ Goes("ui", "popped", "publish")
  /\ mailbox' = Unlocked([mailbox EXCEPT !.head = After(mailbox.head), !.count = mailbox.count - 1])
  /\ UNCHANGED <<event, posts, accepted>>

Publish ==
  /\ Goes("ui", "publish", "pop")
  /\ accepted' = Tail(accepted)
  /\ UNCHANGED <<mailbox, event, posts>>

Relays == Locked("ui", "pop", "popping") \/ PopReads \/ PopReturns \/ Publish

-----------------------------------------------------------------------------
\* The mailbox by itself: events arrive and the UI loop relays them.
EventsNext ==
  \/ PostCalled("wifi") \/ RelayCalled \/ RelayEmpty \/ Relays
  \/ \E t \in EventTasks : Posts(t)

\* The scheduler runs what may run; a free lock is not missed for ever.
EventsSpec ==
  /\ EventsInit /\ [][EventsNext]_eventVars
  /\ WF_eventVars(RelayEmpty \/ Relays) /\ WF_eventVars(Posts("ui"))
  /\ SF_eventVars(Posts("wifi"))

-----------------------------------------------------------------------------
(* Properties *)

(***************************************************************************)
(* Whenever the lock is free, the ring holds what post accepted and the    *)
(* relay has not published, in the order of acceptance: no event is lost,  *)
(* doubled or overtaken, in whatever order the two tasks come.             *)
(***************************************************************************)
Contents == [i \in 1..mailbox.count |-> mailbox.queue[(mailbox.head + i - 1) % MailboxCapacity]]

EventsInOrder ==
  mailbox.lock = "free" =>
    accepted = (IF at["ui"] = "publish" THEN <<event["ui"]>> ELSE <<>>) \o Contents

(***************************************************************************)
(* The mailbox is "safe between FreeRTOS tasks": a post of the event task  *)
(* returns.                                                                *)
(***************************************************************************)
PostsReturn == at["wifi"] = "post" ~> at["wifi"] = "idle"

=============================================================================
