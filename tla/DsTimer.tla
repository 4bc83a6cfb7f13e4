------------------------------- MODULE DsTimer -------------------------------
(***************************************************************************)
(* The software timer pool of src/src/ds_timer.c.                          *)
(*                                                                         *)
(* ds_timer_tick walks the pool and calls an expired timer's callback      *)
(* synchronously, in the middle of its loop body.  The callback may call   *)
(* the timer API again, so a tick is not atomic: it is a frame on a stack  *)
(* of activations, and one loop iteration is one step.  The API calls are  *)
(* open to the application between ticks and to the running callback.      *)
(*                                                                         *)
(* A call that only returns an error changes nothing: it is a stuttering   *)
(* step.  name, free_list and tick_count are never read by the library,    *)
(* user_data is only handed to the callback; they are left out.  callback  *)
(* is non-NULL exactly while the id is valid (ds_timer_create refuses      *)
(* NULL, ds_timer_delete clears both), but for a timer that got the id 0   *)
(* when next_id came round: the pool takes its slot for free, and the      *)
(* application's calls on such a timer are left out.                       *)
(***************************************************************************)
EXTENDS Integers, Sequences, FiniteSets

CONSTANTS
  Capacity,    \* mgr->capacity
  Word,        \* the range of uint32_t: 2^32 in the code
  Periods,     \* periods the application asks for (0 is legal)
  Elapses,     \* the elapsed argument of ds_timer_tick (0 returns at once)
  Repeats,     \* values the application stores in the field repeat_count
  IdLimit,     \* bound: no creation while next_id is this (Word: no bound)
  MaxDepth,    \* bound: ds_timer_tick activations on the call stack
  CallbackMay  \* what callbacks do: subset of {"other", "self", "tick"}

ASSUME CapacityAssumption == Capacity \in Nat \ {0}
ASSUME WordAssumption == Word \in Nat /\ Word > 2
ASSUME InputAssumption ==
  /\ Periods \subseteq 0 .. Word - 1
  /\ Elapses \subseteq 1 .. Word - 1
  /\ Repeats \subseteq 0 .. Word - 1
ASSUME BoundAssumption ==
  /\ IdLimit \in 0 .. Word
  /\ MaxDepth \in Nat \ {0}
  /\ CallbackMay \subseteq {"other", "self", "tick"}

VARIABLES
  timers,   \* the pool: one ds_timer_t per slot
  next_id,  \* mgr->next_id
  frames,   \* activations of ds_timer_tick, the innermost one last
  armed     \* history: what ds_timer_start has promised, see Promise

vars == <<timers, next_id, frames, armed>>

-----------------------------------------------------------------------------
Slot == 0 .. Capacity - 1
DS_TIMER_ID_INVALID == 0
TimerState == {"STOPPED", "RUNNING", "EXPIRED"}

\* "yes" from a ds_timer_start that returned DS_OK until the timer has fired for
\* the last time or is stopped, deleted or reset; "again" if it was the timer's own
\* last callback that started it.
Promise == {"no", "yes", "again"}

Timer == [id : 0 .. Word - 1, period : 0 .. Word - 1,
          remaining : 0 .. Word - 1, repeat : 0 .. Word - 1,
          executed : 0 .. Word - 1, periodic : BOOLEAN, state : TimerState]

\* slot is the loop index i, id the argument of the running callback.  The
\* last two fields are history: the timers whose deadline lay within elapsed
\* when the tick began and that are yet to be called back, and those that an
\* API call or a nested tick has touched since.
Frame == [slot : 0 .. Capacity, elapsed : 1 .. Word - 1,
          calling : BOOLEAN, id : 0 .. Word - 1,
          owed : SUBSET Slot, touched : SUBSET Slot]

\* The memset in ds_timer_manager_init.
ZeroTimer == [id |-> DS_TIMER_ID_INVALID, period |-> 0, remaining |-> 0,
              repeat |-> 0, executed |-> 0, periodic |-> FALSE,
              state |-> "STOPPED"]

Init ==
  /\ timers = [s \in Slot |-> ZeroTimer]
  /\ next_id = 1
  /\ frames = <<>>
  /\ armed = [s \in Slot |-> "no"]

-----------------------------------------------------------------------------
(* Who may call the API, and on which timer.                               *)

Top == frames[Len(frames)]
Idle == frames = <<>>
InCallback(s) == \E k \in DOMAIN frames : frames[k].calling /\ frames[k].slot = s

MayTouch(s) ==
  \/ Idle
  \/ /\ ~Idle
     /\ Top.calling
     /\ (IF InCallback(s) THEN "self" ELSE "other") \in CallbackMay

Live(s) == timers[s].id # DS_TIMER_ID_INVALID

\* History: the ticks in progress make no claim about slot s any more.
Touch(s) ==
  frames' = [k \in DOMAIN frames |->
    [frames[k] EXCEPT !.owed = @ \ {s}, !.touched = @ \cup {s}]]

\* find_free_timer: the lowest slot whose id is invalid.
IsFirstFree(s) == ~Live(s) /\ \A r \in 0 .. s - 1 : Live(r)

-----------------------------------------------------------------------------
(* ds_timer_create .. ds_timer_reset                                       *)

\* Mutant: next_id is read without being advanced.
NextIdStuck(id) == id

\* The post-increment of mgr->next_id, an unsigned 32-bit counter.
NextId(id) == (id + 1) % Word

Create(p, periodic) ==
  \E s \in Slot :
    /\ IsFirstFree(s)
    /\ MayTouch(s)
    /\ next_id # IdLimit
    /\ LET period == IF p > 0 THEN p ELSE 1
       IN timers' = [timers EXCEPT ![s] =
            [id |-> next_id, period |-> period, remaining |-> period,
             repeat |-> 0, executed |-> 0, periodic |-> periodic,
             state |-> "STOPPED"]]
    /\ next_id' = NextId(next_id)
    /\ armed' = [armed EXCEPT ![s] = "no"]
    /\ Touch(s)

\* The application fills in the public field repeat_count of a new timer:
\* no function of the library sets it to anything but 0.
SetRepeat(s, n) ==
  /\ Live(s) /\ MayTouch(s)
  /\ timers[s].state = "STOPPED" /\ timers[s].executed = 0
  /\ timers' = [timers EXCEPT ![s].repeat = n]
  /\ UNCHANGED <<next_id, frames, armed>>

\* Mutant: a repeat count of 0 is not read as "no limit".
FinishedNoForever(t) == ~t.periodic \/ t.executed >= t.repeat

\* A one-shot timer, or one that has reached its repeat count.
Finished(t) == ~t.periodic \/ (t.repeat > 0 /\ t.executed >= t.repeat)

\* A running timer is left alone: the call still returns DS_OK.
Start(s) ==
  /\ Live(s) /\ MayTouch(s)
  /\ armed' = [armed EXCEPT
       ![s] = IF InCallback(s) /\ Finished(timers[s]) THEN "again" ELSE "yes"]
  /\ \/ /\ timers[s].state = "RUNNING"
        /\ UNCHANGED <<timers, frames>>
     \/ /\ timers[s].state # "RUNNING"
        /\ timers' = [timers EXCEPT ![s].state = "RUNNING",
                                    ![s].remaining = timers[s].period]
        /\ Touch(s)
  /\ UNCHANGED next_id

\* Stop, delete and reset take the timer out of service.
Retire(s, t) ==
  /\ Live(s) /\ MayTouch(s)
  /\ timers' = [timers EXCEPT ![s] = t]
  /\ armed' = [armed EXCEPT ![s] = "no"]
  /\ Touch(s)
  /\ UNCHANGED next_id

Stop(s) == Retire(s, [timers[s] EXCEPT !.state = "STOPPED"])

Delete(s) == Retire(s, [timers[s] EXCEPT !.state = "STOPPED",
                                         !.id = DS_TIMER_ID_INVALID])

Reset(s) == Retire(s, [timers[s] EXCEPT !.state = "STOPPED",
                                        !.remaining = timers[s].period,
                                        !.executed = 0])

-----------------------------------------------------------------------------
(* ds_timer_tick                                                           *)

\* Mutant: > for >= in the test for more than one period.
NextRemainingOffByOne(period, overflow) ==
  IF overflow > period THEN period - (overflow % period)
  ELSE IF overflow > 0 THEN period - overflow ELSE period

\* Mutant: the overflow of a late tick is forgotten.
NextRemainingDrifts(period, overflow) == period

\* The countdown after an expiry that came overflow ticks late.
NextRemaining(period, overflow) ==
  IF overflow > 0 /\ overflow >= period
  THEN LET r == period - (overflow % period)
       IN IF r = 0 THEN period ELSE r
  ELSE IF overflow > 0 THEN period - overflow ELSE period

\* History: the timers that a tick of e has to call back.
DueWithin(e) ==
  {s \in Slot : /\ Live(s) /\ timers[s].state = "RUNNING"
                /\ timers[s].remaining <= e
                /\ ~(InCallback(s) /\ Finished(timers[s]))}

\* A nested tick moves time on for every timer an outer one has yet to see.
TickBegin(e) ==
  /\ Len(frames) < MaxDepth
  /\ Idle \/ (~Idle /\ Top.calling /\ "tick" \in CallbackMay)
  /\ frames' =
       Append([k \in DOMAIN frames |-> [frames[k] EXCEPT !.touched = Slot]],
              [slot |-> 0, elapsed |-> e, calling |-> FALSE,
               id |-> DS_TIMER_ID_INVALID, owed |-> DueWithin(e), touched |-> {}])
  /\ UNCHANGED <<timers, next_id, armed>>

SetTop(f) == frames' = [frames EXCEPT ![Len(frames)] = f]

\* Mutant: continue without the increment of the loop index.
NextSlotStuck == SetTop([Top EXCEPT !.calling = FALSE, !.id = DS_TIMER_ID_INVALID])

NextSlot == SetTop([Top EXCEPT !.slot = @ + 1, !.calling = FALSE,
                               !.id = DS_TIMER_ID_INVALID])

\* The loop looks at slot s.
Scanning(s) == ~Idle /\ ~Top.calling /\ Top.slot = s

\* Mutants of the comparison: a tick early, a tick late, not past the deadline.
ExpiresEarly(s) == Top.elapsed + 1 >= timers[s].remaining
ExpiresLate(s) == Top.elapsed > timers[s].remaining
ExpiresExactly(s) == Top.elapsed = timers[s].remaining

Expires(s) == Top.elapsed >= timers[s].remaining

TickSkip(s) ==
  /\ Scanning(s)
  /\ ~Live(s) \/ timers[s].state # "RUNNING"
  /\ NextSlot
  /\ UNCHANGED <<timers, next_id, armed>>

\* Mutant: the countdown is not stored.
TickCountdownLost(s) ==
  /\ Scanning(s)
  /\ Live(s) /\ timers[s].state = "RUNNING"
  /\ ~Expires(s)
  /\ NextSlot
  /\ UNCHANGED <<timers, next_id, armed>>

TickCountdown(s) ==
  /\ Scanning(s)
  /\ Live(s) /\ timers[s].state = "RUNNING"
  /\ ~Expires(s)
  /\ timers' = [timers EXCEPT ![s].remaining = @ - Top.elapsed]
  /\ NextSlot
  /\ UNCHANGED <<next_id, armed>>

\* Expiry, up to the call of the callback.
TickExpire(s) ==
  /\ Scanning(s)
  /\ Live(s) /\ timers[s].state = "RUNNING"
  /\ Expires(s)
  /\ LET t == [timers[s] EXCEPT
                 !.remaining = NextRemaining(timers[s].period,
                                             Top.elapsed - timers[s].remaining),
                 !.executed = (@ + 1) % Word]
     IN /\ timers' = [timers EXCEPT ![s] = t]
        /\ armed' = [armed EXCEPT ![s] = IF Finished(t) THEN "no" ELSE @]
        /\ frames' = [k \in DOMAIN frames |->
             IF k < Len(frames) THEN [frames[k] EXCEPT !.owed = @ \ {s}]
             ELSE [Top EXCEPT !.calling = TRUE, !.id = t.id, !.owed = @ \ {s}]]
  /\ UNCHANGED next_id

\* Mutant: a repeat count of 0 is not read as "no limit".
CallbackReturnNoForever ==
  /\ ~Idle /\ Top.calling
  /\ timers' = IF Finished([timers[Top.slot] EXCEPT !.repeat = 1])
               THEN [timers EXCEPT ![Top.slot].state = "EXPIRED"]
               ELSE timers
  /\ NextSlot
  /\ UNCHANGED <<next_id, armed>>

\* The callback returns: whatever now occupies the slot is examined.
CallbackReturn ==
  /\ ~Idle /\ Top.calling
  /\ timers' = IF Finished(timers[Top.slot])
               THEN [timers EXCEPT ![Top.slot].state = "EXPIRED"]
               ELSE timers
  /\ NextSlot
  /\ UNCHANGED <<next_id, armed>>

TickEnd ==
  /\ ~Idle /\ ~Top.calling /\ Top.slot = Capacity
  /\ frames' = SubSeq(frames, 1, Len(frames) - 1)
  /\ UNCHANGED <<timers, next_id, armed>>

TickStep ==
  \/ \E s \in Slot : TickSkip(s) \/ TickCountdown(s) \/ TickExpire(s)
  \/ TickEnd

Call ==
  \/ \E p \in Periods, periodic \in BOOLEAN : Create(p, periodic)
  \/ \E s \in Slot :
       \/ \E n \in Repeats : SetRepeat(s, n)
       \/ Start(s) \/ Stop(s) \/ Delete(s) \/ Reset(s)

Next ==
  \/ Call
  \/ \E e \in Elapses : TickBegin(e)
  \/ TickStep
  \/ CallbackReturn

Spec == Init /\ [][Next]_vars

\* "ds_timer_tick() must be called periodically" (ds_timer.h), its loop runs
\* on, and callbacks return.
FairSpec ==
  /\ Spec
  /\ WF_vars(Idle /\ \E e \in Elapses : TickBegin(e))
  /\ WF_vars(TickStep)
  /\ WF_vars(CallbackReturn)

-----------------------------------------------------------------------------
(* Properties                                                              *)

\* Type invariant of the pool, the activation stack and the history.
TypeOK ==
  /\ timers \in [Slot -> Timer]
  /\ next_id \in 0 .. Word - 1
  /\ frames \in Seq(Frame)
  /\ armed \in [Slot -> Promise]

\* The countdown of a timer in use is never 0 and never exceeds its period,
\* whatever overflow a late tick left: the unsigned subtractions of
\* ds_timer_tick stay in range and no timer expires on a stale 0.
DeadlineArmed ==
  \A s \in Slot : Live(s) => timers[s].remaining \in 1 .. timers[s].period

\* "Unique" ids (ds_timer.h): no two timers in use share one, although slots are
\* reused and callbacks create and delete timers during a tick.  It holds until
\* next_id has come round (IdLimit # Word).
LiveIdsDistinct ==
  \A r, s \in Slot : (Live(r) /\ Live(s) /\ timers[r].id = timers[s].id) => r = s

Running(s) == Live(s) /\ timers[s].state = "RUNNING"

\* A timer whose start returned DS_OK runs until it has fired for the last time or
\* is stopped, deleted or reset; ticks in progress and callbacks that start their
\* own timers included, but not the start from a timer's own last callback.
ArmedRuns == \A s \in Slot : armed[s] = "yes" => Running(s)

\* "Starts the timer, DS_OK success" (ds_timer.h): a timer that its own last
\* callback starts again runs as well.
RestartedRuns == \A s \in Slot : armed[s] = "again" => Running(s)

\* The write after a callback hits the slot whatever is in it by then.  The timer
\* that becomes EXPIRED is the one whose callback was made, or one that took over
\* its slot in the course of that callback: and of these none that goes on for ever
\* or has yet to fire for the first time, but for a one-shot timer.
ExpiresTheTimerThatFired ==
  [][\A s \in Slot :
       (timers[s].state # "EXPIRED" /\ timers'[s].state = "EXPIRED")
         => /\ s = Top.slot
            /\ timers[s].id = Top.id \/ s \in Top.touched
            /\ timers[s].periodic => timers[s].repeat > 0 /\ timers[s].executed > 0]_vars

\* An expiry moves the next deadline by a whole number of periods: a late or
\* coarse tick never shifts the phase of a periodic timer.
PhaseKept ==
  [][\A s \in Slot :
       Scanning(s) /\ timers'[s].executed # timers[s].executed
         => (timers'[s].remaining - timers[s].remaining + Top.elapsed)
               % timers[s].period = 0]_vars

\* When ds_timer_tick returns, every timer that was running as it began, with
\* a deadline no later than the elapsed time, has been called back or has been
\* touched by a callback.
DueTimersFired ==
  \A k \in DOMAIN frames : frames[k].slot = Capacity => frames[k].owed = {}

\* A tick calls a timer back at most once and never before its deadline,
\* unless a callback has touched the timer since the tick began.
FiresOnlyWhenDue ==
  [][\A s \in Slot :
       Scanning(s) /\ timers'[s].executed # timers[s].executed
         => s \in Top.owed \cup Top.touched]_vars

\* "Every 10 ms ... advancing 30 ms shall fire 3 times" (test_all.c): a tick
\* makes one callback for each period of a periodic timer that it covers.
CatchesUp ==
  [][\A s \in Slot :
       /\ Scanning(s) /\ timers'[s].executed # timers[s].executed
       /\ timers[s].periodic /\ timers[s].repeat = 0
       => timers'[s].executed =
            (timers[s].executed + 1
               + ((Top.elapsed - timers[s].remaining) \div timers[s].period)) % Word]_vars

\* A running timer eventually has its callback made, or leaves the running
\* state by some other call, as long as time goes on.
RunningFires ==
  \A s \in Slot :
    (Live(s) /\ timers[s].state = "RUNNING")
      ~> (InCallback(s) \/ timers[s].state # "RUNNING")

\* ds_timer_tick returns, whatever the callbacks do to other timers.
TickReturns == ~Idle ~> Idle
=============================================================================
