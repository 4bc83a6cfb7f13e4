------------------------------ MODULE DsEventBus ------------------------------
(***************************************************************************)
(* The publish/subscribe bus of src/src/ds_event.c.                        *)
(*                                                                         *)
(* ds_event_publish calls the matching handlers synchronously, inside its  *)
(* loop over the subscriber pool.  A handler may subscribe, unsubscribe,   *)
(* reset the bus or publish again, so a publish is a frame on a stack of   *)
(* activations and one loop iteration is one step.                         *)
(*                                                                         *)
(* A call that only returns an error (DS_ERR_EXISTS, DS_ERR_FULL,          *)
(* DS_ERR_NOTFOUND) changes nothing and is a stuttering step.  user_data   *)
(* and the published data are passed through unread and are left out.      *)
(***************************************************************************)
EXTENDS Integers, Sequences, FiniteSets

CONSTANTS
  BusCapacity, \* bus->capacity
  Events,      \* event ids in use
  Handlers,    \* handler functions
  NoHandler,   \* the NULL handler of a free slot
  NoEvent,     \* DS_EVENT_ID_INVALID
  HandlerMay,  \* calls handlers make: subset of the names in BusMay
  MaxDepth     \* bound: ds_event_publish activations on the call stack

ASSUME BusCapacityAssumption == BusCapacity \in Nat \ {0}
ASSUME HandlerAssumption == NoHandler \notin Handlers
ASSUME BoundAssumption ==
  /\ MaxDepth \in Nat \ {0}
  /\ HandlerMay \subseteq {"subscribe", "unsubscribe", "reset", "publish"}

VARIABLES
  subs,          \* the pool: one ds_event_sub_t per slot
  active_count,  \* bus->active_count
  frames         \* activations of ds_event_publish, the innermost one last

busVars == <<subs, active_count, frames>>

-----------------------------------------------------------------------------
BusSlot == 0 .. BusCapacity - 1

Sub == [active : BOOLEAN, event : Events \cup {NoEvent},
        handler : Handlers \cup {NoHandler}]

\* slot is the loop index i.  The last two fields are history: the handlers
\* subscribed ever since the publish began and not called yet, and those
\* called and subscribed ever since.
Frame == [event : Events, slot : 0 .. BusCapacity, calling : BOOLEAN,
          owed : SUBSET Handlers, called : SUBSET Handlers]

FreeSub == [active |-> FALSE, event |-> NoEvent, handler |-> NoHandler]

BusInit ==
  /\ subs = [s \in BusSlot |-> FreeSub]
  /\ active_count = 0
  /\ frames = <<>>

Top == frames[Len(frames)]
Idle == frames = <<>>

\* The application between publishes, or the handler that is running.
BusMay(op) == Idle \/ (~Idle /\ Top.calling /\ op \in HandlerMay)

\* The test of the three loops that look for a subscription.
Holds(s, e, h) == subs[s].active /\ subs[s].event = e /\ subs[s].handler = h
Active == {s \in BusSlot : subs[s].active}
Subscribers(e) == {h \in Handlers : \E s \in BusSlot : Holds(s, e, h)}

-----------------------------------------------------------------------------
(* ds_event_subscribe, ds_event_unsubscribe, ds_event_bus_reset            *)

IsFirstFree(s) == ~subs[s].active /\ \A r \in 0 .. s - 1 : subs[r].active

\* Mutant: the duplicate check is missing.
SubscribeTwice(e, h) ==
  /\ BusMay("subscribe")
  /\ \E s \in BusSlot :
       /\ IsFirstFree(s)
       /\ subs' = [subs EXCEPT ![s] = [active |-> TRUE, event |-> e,
                                       handler |-> h]]
  /\ active_count' = active_count + 1
  /\ UNCHANGED frames

Subscribe(e, h) ==
  /\ BusMay("subscribe")
  /\ \A s \in BusSlot : ~Holds(s, e, h)
  /\ \E s \in BusSlot :
       /\ IsFirstFree(s)
       /\ subs' = [subs EXCEPT ![s] = [active |-> TRUE, event |-> e,
                                       handler |-> h]]
  /\ active_count' = active_count + 1
  /\ UNCHANGED frames

\* History: these subscriptions have ended.
Forget(hs, es) ==
  frames' = [k \in DOMAIN frames |->
    IF frames[k].event \in es
    THEN [frames[k] EXCEPT !.owed = @ \ hs, !.called = @ \ hs]
    ELSE frames[k]]

\* Mutant: the counter goes down although nothing was found.
UnsubscribeAlwaysCounts(e, h) ==
  /\ BusMay("unsubscribe")
  /\ subs' = [s \in BusSlot |-> IF Holds(s, e, h) THEN FreeSub ELSE subs[s]]
  /\ active_count' = active_count - 1
  /\ Forget({h}, {e})

\* Mutant: the last slot in use is moved into the hole, to keep the pool dense.
UnsubscribeCompacts(e, h) ==
  /\ BusMay("unsubscribe")
  /\ \E s \in BusSlot :
       LET last == CHOOSE r \in Active : \A q \in Active : q <= r IN
       /\ Holds(s, e, h)
       /\ subs' = [subs EXCEPT ![s] = subs[last], ![last] = FreeSub]
  /\ active_count' = active_count - 1
  /\ Forget({h}, {e})

Unsubscribe(e, h) ==
  /\ BusMay("unsubscribe")
  /\ \E s \in BusSlot :
       /\ Holds(s, e, h)
       /\ \A r \in 0 .. s - 1 : ~Holds(r, e, h)
       /\ subs' = [subs EXCEPT ![s] = FreeSub]
  /\ active_count' = active_count - 1
  /\ Forget({h}, {e})

\* Mutant: the pool is cleared and the counter is not.
ResetKeepsCount ==
  /\ BusMay("reset")
  /\ subs' = [s \in BusSlot |-> FreeSub]
  /\ UNCHANGED active_count
  /\ Forget(Handlers, Events)

BusReset ==
  /\ BusMay("reset")
  /\ subs' = [s \in BusSlot |-> FreeSub]
  /\ active_count' = 0
  /\ Forget(Handlers, Events)

-----------------------------------------------------------------------------
(* ds_event_publish                                                        *)

PublishBegin(e) ==
  /\ BusMay("publish")
  /\ Len(frames) < MaxDepth
  /\ frames' = Append(frames, [event |-> e, slot |-> 0, calling |-> FALSE,
                               owed |-> Subscribers(e), called |-> {}])
  /\ UNCHANGED <<subs, active_count>>

SetTop(f) == frames' = [frames EXCEPT ![Len(frames)] = f]
Scanning(s) == ~Idle /\ ~Top.calling /\ Top.slot = s

PublishSkip(s) ==
  /\ Scanning(s)
  /\ ~(subs[s].active /\ subs[s].event = Top.event)
  /\ SetTop([Top EXCEPT !.slot = @ + 1])
  /\ UNCHANGED <<subs, active_count>>

PublishCall(s) ==
  /\ Scanning(s)
  /\ subs[s].active /\ subs[s].event = Top.event
  /\ SetTop([Top EXCEPT !.calling = TRUE,
                        !.owed = @ \ {subs[s].handler},
                        !.called = @ \cup {subs[s].handler}])
  /\ UNCHANGED <<subs, active_count>>

\* Mutant: the loop starts over after a handler, in case the pool changed.
HandlerReturnRestarts ==
  /\ ~Idle /\ Top.calling
  /\ SetTop([Top EXCEPT !.slot = 0, !.calling = FALSE])
  /\ UNCHANGED <<subs, active_count>>

HandlerReturn ==
  /\ ~Idle /\ Top.calling
  /\ SetTop([Top EXCEPT !.slot = @ + 1, !.calling = FALSE])
  /\ UNCHANGED <<subs, active_count>>

PublishEnd ==
  /\ ~Idle /\ ~Top.calling /\ Top.slot = BusCapacity
  /\ frames' = SubSeq(frames, 1, Len(frames) - 1)
  /\ UNCHANGED <<subs, active_count>>

PublishStep ==
  \/ \E s \in BusSlot : PublishSkip(s) \/ PublishCall(s)
  \/ PublishEnd

BusNext ==
  \/ \E e \in Events, h \in Handlers : Subscribe(e, h) \/ Unsubscribe(e, h)
  \/ BusReset
  \/ \E e \in Events : PublishBegin(e)
  \/ PublishStep
  \/ HandlerReturn

BusSpec == BusInit /\ [][BusNext]_busVars

\* The loop runs on and every handler returns.  A handler that publishes can
\* return only in between its publishes: strong fairness at its own depth of
\* the stack says that it makes finitely many calls.
BusFairness ==
  /\ WF_busVars(PublishStep)
  /\ \A d \in 1 .. MaxDepth : SF_busVars(HandlerReturn /\ Len(frames) = d)

FairBusSpec == BusSpec /\ BusFairness

-----------------------------------------------------------------------------
(* Properties                                                              *)

\* Type invariant of the pool and the activation stack.
BusTypeOK ==
  /\ subs \in [BusSlot -> Sub]
  /\ active_count \in 0 .. BusCapacity
  /\ frames \in Seq(Frame)

\* ds_event_sub_count reports the number of subscriptions in the pool, and
\* the unsigned counter never wraps below 0.
CountMatches == active_count = Cardinality(Active)

\* A handler is subscribed to an event at most once, and a slot in use has a
\* handler to call and an event: the NULL test in publish never hides one.
NoDuplicates ==
  /\ \A s \in Active : subs[s].event \in Events /\ subs[s].handler \in Handlers
  /\ \A r, s \in Active :
       subs[r].event = subs[s].event /\ subs[r].handler = subs[s].handler => r = s

\* A handler subscribed during the whole of a publish is called by it,
\* whatever the other handlers do to the pool meanwhile.
AtLeastOnce ==
  \A k \in DOMAIN frames : frames[k].slot = BusCapacity => frames[k].owed = {}

\* A publish does not call a handler again that has stayed subscribed since
\* the publish called it.
AtMostOnce ==
  [][\A s \in BusSlot : Scanning(s) /\ PublishCall(s)
       => subs[s].handler \notin Top.called]_busVars

\* ds_event_publish returns, although handlers change the pool it walks.
PublishReturns == ~Idle ~> Idle
=============================================================================
