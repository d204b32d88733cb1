---------------------------- MODULE ExternalApps ----------------------------
(***************************************************************************)
(* Applications from the card: LuaSdAppFactory hands out its slots one     *)
(* after the other, SdAppLoader registers what it got from them or gives   *)
(* the slots back, and ExternalApplication runs a Lua state behind each.   *)
(***************************************************************************)
EXTENDS Naturals, Sequences, Lifecycle

CONSTANTS External,     \* the factory's slots, a sequence of applications
          MaxButtons    \* callbacks of a LuaUiBridge

ASSUME ExternalAssumption == MaxButtons \in Nat

VARIABLES created, checkpoint, found, slot
(* created            the factory's count_                                  *)
(* checkpoint, found  locals of a discovery: the count it began with and    *)
(*                    the candidates it has got from the factory            *)
(* slot[i].lifecycle  ExternalApplication's lifecycle_                      *)
(* slot[i].open       its runtime has a Lua state                           *)
(* slot[i].buttons    callbacks_ in use, each with a button on the surface  *)

Slots == DOMAIN External
SlotIdle == [lifecycle |-> "stopped", open |-> FALSE, buttons |-> 0]

discovery == <<checkpoint, found>>
NoDiscovery == checkpoint = 0 /\ found = {}

ExternalInit == created = 0 /\ NoDiscovery /\ slot = [i \in Slots |-> SlotIdle]

Created == {External[i] : i \in 1..created}

BeginDiscovery == checkpoint' = created /\ found' = {} /\ UNCHANGED <<created, slot>>

\* visit of a Lua script the next slot can be configured for; a file that is
\* none, that cannot be inspected or finds no slot left changes nothing
Create ==
  /\ created < Len(External)
  /\ created' = created + 1
  /\ found' = found \cup {External[created + 1]}
  /\ UNCHANGED <<checkpoint, slot>>

Restored == IF checkpoint <= created THEN checkpoint ELSE created
DiscoveryReturns == checkpoint' = 0 /\ found' = {} /\ UNCHANGED slot

\* Mutant: the slots of a refused batch are not given back.
GiveBackNothing == DiscoveryReturns /\ UNCHANGED created

GiveBack == DiscoveryReturns /\ created' = Restored

ExternalReset == created' = 0 /\ UNCHANGED <<discovery, slot>>

-----------------------------------------------------------------------------
\* The bridge forgets the widgets and callbacks there were.
Installed == [lifecycle |-> "running", open |-> TRUE, buttons |-> 0]

\* What a script does to its widgets: only the buttons are limited.
Buttons(from) == from..MaxButtons

\* The script runs and its build function; one button too many fails it.
LuaStarts(i) ==
  /\ BeginStart(slot[i].lifecycle).acquire
  /\ \E n \in Buttons(0) : slot' = [slot EXCEPT ![i] = [Installed EXCEPT !.buttons = n]]
  /\ UNCHANGED <<created, discovery>>

\* Mutant: the runtime of a failed script is not stopped.
LuaFailsOpen(i) ==
  /\ BeginStart(slot[i].lifecycle).acquire
  /\ slot' = [slot EXCEPT ![i] = [Installed EXCEPT !.lifecycle = "stopped"]]
  /\ UNCHANGED <<created, discovery>>

LuaFails(i) ==
  /\ BeginStart(slot[i].lifecycle).acquire
  /\ slot' = [slot EXCEPT ![i] = SlotIdle]
  /\ UNCHANGED <<created, discovery>>

\* button_callback: the script's function may make more buttons
LuaInvokes(i) ==
  /\ slot[i].buttons > 0 /\ slot[i].open
  /\ \E n \in Buttons(slot[i].buttons) : slot' = [slot EXCEPT ![i].buttons = n]
  /\ UNCHANGED <<created, discovery>>

ExternalStop(i) ==
  /\ slot' = [slot EXCEPT ![i] = IF BeginStop(slot[i].lifecycle).release THEN SlotIdle ELSE slot[i]]
  /\ UNCHANGED <<created, discovery>>

=============================================================================
