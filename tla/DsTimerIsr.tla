------------------------------ MODULE DsTimerIsr ------------------------------
(***************************************************************************)
(* The timer pool of DsTimer with ds_timer_tick called from an interrupt,  *)
(* which ds_timer.h offers beside the main loop.                           *)
(*                                                                         *)
(* The interrupt may be entered between any two stores of the API call     *)
(* that the main loop is making, and has run to its end before the call    *)
(* goes on.  A call is the sequence of its stores to the timer.  That they *)
(* are made in program order is an assumption about the build: the fields  *)
(* are not volatile.  The stores to callback, user_data and name go with   *)
(* those of id.  The callbacks of the interrupt leave the pool alone       *)
(* (CallbackMay is empty in the runs).                                     *)
(***************************************************************************)
EXTENDS DsTimer

CONSTANT
  StartMasked  \* the application masks the interrupt around ds_timer_start

StartMaskedAssumption == StartMasked \in BOOLEAN

VARIABLE
  stores  \* what the main loop's call has yet to store, in program order

isrVars == <<vars, stores>>

-----------------------------------------------------------------------------
Store(s, field, value) == [slot |-> s, field |-> field, value |-> value]

Stored(pool, st) == [pool EXCEPT ![st.slot][st.field] = st.value]

\* The pool once the stores of a call have been made: they are to different fields.
AllStored(pool, sts) ==
  LET To(s, f) == {i \in DOMAIN sts : sts[i].slot = s /\ sts[i].field = f}
  IN [s \in Slot |-> [f \in DOMAIN pool[s] |->
        IF To(s, f) = {} THEN pool[s][f] ELSE sts[CHOOSE i \in To(s, f) : TRUE].value]]

IsrInit == Init /\ stores = <<>>

\* The main loop runs: no tick is in progress.  Its call makes the first of
\* its stores; what it promises from then on is history.
CallBegin(s, sts, promise) ==
  /\ Idle /\ stores = <<>>
  /\ timers' = Stored(timers, Head(sts))
  /\ stores' = Tail(sts)
  /\ armed' = [armed EXCEPT ![s] = promise]
  /\ UNCHANGED frames

NextStore ==
  /\ Idle /\ stores # <<>>
  /\ timers' = Stored(timers, Head(stores))
  /\ stores' = Tail(stores)
  /\ UNCHANGED <<next_id, frames, armed>>

-----------------------------------------------------------------------------
(* The calls of the main loop                                              *)

CreateCall(p, periodic) ==
  \E s \in Slot :
    /\ IsFirstFree(s)
    /\ next_id # IdLimit
    /\ LET period == IF p > 0 THEN p ELSE 1
       IN CallBegin(s, <<Store(s, "id", next_id),
                         Store(s, "period", period),
                         Store(s, "remaining", period),
                         Store(s, "repeat", 0),
                         Store(s, "executed", 0),
                         Store(s, "periodic", periodic),
                         Store(s, "state", "STOPPED")>>, "no")
    /\ next_id' = NextId(next_id)

SetRepeatCall(s, n) ==
  /\ Live(s) /\ timers[s].state = "STOPPED" /\ timers[s].executed = 0
  /\ CallBegin(s, <<Store(s, "repeat", n)>>, armed[s])
  /\ UNCHANGED next_id

StartStores(s) == <<Store(s, "state", "RUNNING"),
                    Store(s, "remaining", timers[s].period)>>

\* A timer that is not running cannot become so between the test and the
\* first store: the interrupt starts no timer.
StartCall(s) ==
  /\ Live(s)
  /\ \/ /\ timers[s].state = "RUNNING"
        /\ Idle /\ stores = <<>>
        /\ armed' = [armed EXCEPT ![s] = "yes"]
        /\ UNCHANGED <<timers, frames, stores>>
     \/ /\ timers[s].state # "RUNNING" /\ ~StartMasked
        /\ CallBegin(s, StartStores(s), "yes")
     \/ /\ timers[s].state # "RUNNING" /\ StartMasked
        /\ Idle /\ stores = <<>>
        /\ timers' = AllStored(timers, StartStores(s))
        /\ armed' = [armed EXCEPT ![s] = "yes"]
        /\ UNCHANGED <<frames, stores>>
  /\ UNCHANGED next_id

StopCall(s) ==
  /\ Live(s)
  /\ CallBegin(s, <<Store(s, "state", "STOPPED")>>, "no")
  /\ UNCHANGED next_id

DeleteCall(s) ==
  /\ Live(s)
  /\ CallBegin(s, <<Store(s, "state", "STOPPED"),
                    Store(s, "id", DS_TIMER_ID_INVALID)>>, "no")
  /\ UNCHANGED next_id

\* Mutant: the timer is stopped when its countdown and count are reset.
ResetStopLast(s) ==
  /\ Live(s)
  /\ CallBegin(s, <<Store(s, "remaining", timers[s].period),
                    Store(s, "executed", 0),
                    Store(s, "state", "STOPPED")>>, "no")
  /\ UNCHANGED next_id

ResetCall(s) ==
  /\ Live(s)
  /\ CallBegin(s, <<Store(s, "state", "STOPPED"),
                    Store(s, "remaining", timers[s].period),
                    Store(s, "executed", 0)>>, "no")
  /\ UNCHANGED next_id

MainLoop ==
  \/ \E p \in Periods, periodic \in BOOLEAN : CreateCall(p, periodic)
  \/ \E s \in Slot :
       \/ \E n \in Repeats : SetRepeatCall(s, n)
       \/ StartCall(s) \/ StopCall(s) \/ DeleteCall(s) \/ ResetCall(s)
  \/ NextStore

\* The tick of DsTimer, over the pool as the stores made so far have left it.
Interrupt ==
  /\ \/ \E e \in Elapses : TickBegin(e)
     \/ TickStep
     \/ CallbackReturn
  /\ UNCHANGED stores

IsrNext == MainLoop \/ Interrupt

IsrSpec == IsrInit /\ [][IsrNext]_isrVars

-----------------------------------------------------------------------------
(* Properties                                                              *)

\* A call takes effect at its first store: the pool without calls in progress.
Atomic == INSTANCE DsTimer WITH timers <- AllStored(timers, stores)

\* To the interrupt every call of the main loop is a single step: a tick that
\* comes in the middle of ds_timer_create, _stop, _delete or _reset (and of
\* ds_timer_start, if it is masked) does what it would do before or after the
\* call, and all that holds of DsTimer holds with an interrupt-driven tick.
CallsAtomic == Atomic!Spec

\* A tick that interrupts ds_timer_start calls the timer back only if it covers
\* a whole period: the call begins a new period, whenever it is interrupted.
StartBeginsPeriod ==
  [][\A s \in Slot :
       /\ Scanning(s) /\ timers'[s].executed # timers[s].executed
       /\ \E i \in DOMAIN stores : stores[i].slot = s
       => Top.elapsed >= timers[s].period]_isrVars
=============================================================================
