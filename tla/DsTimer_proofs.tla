---------------------------- MODULE DsTimer_proofs ----------------------------
(***************************************************************************)
(* What DsTimer guarantees for every capacity, word size, period, tick and *)
(* depth of nested ticks, proved with TLAPS.                               *)
(***************************************************************************)
EXTENDS DsTimer, SequenceTheorems, TLAPS

-----------------------------------------------------------------------------
(* Lemmas about the operators of the model.                                *)

\* A sequence changed element by element is a sequence of the same length.
LEMMA MappedSeq ==
  ASSUME NEW S, NEW f \in Seq(S), NEW g,
         g = [k \in DOMAIN f |-> g[k]],
         \A k \in DOMAIN f : g[k] \in S
  PROVE  g \in Seq(S) /\ Len(g) = Len(f) /\ DOMAIN g = DOMAIN f
<1>1. Len(f) \in Nat /\ DOMAIN f = 1 .. Len(f)
  BY LenProperties
<1>2. g \in [1 .. Len(f) -> S]
  BY <1>1
<1>3. g \in Seq(S)
  BY <1>1, <1>2, SeqDef
<1> QED
  BY <1>1, <1>2, <1>3, LenProperties

\* The unsigned remainder stays below its divisor.
LEMMA ModBounds ==
  ASSUME NEW a \in Int, NEW b \in Nat \ {0}
  PROVE  a % b \in 0 .. b - 1
OBVIOUS

\* Late or early, the next countdown lies within one period.
LEMMA NextRemainingBounds ==
  ASSUME NEW p \in Nat \ {0}, NEW o \in Nat
  PROVE  NextRemaining(p, o) \in 1 .. p
<1>1. o % p \in 0 .. p - 1
  BY ModBounds
<1>2. CASE o > 0 /\ o >= p
  BY <1>1, <1>2 DEF NextRemaining
<1>3. CASE ~(o > 0 /\ o >= p)
  BY <1>3 DEF NextRemaining
<1> QED
  BY <1>2, <1>3

\* A timer stays a timer when the library writes its fields: one at a time.
LEMMA TimerFields ==
  ASSUME NEW t \in Timer, NEW st \in TimerState,
         NEW i \in 0 .. Word - 1, NEW r \in 0 .. Word - 1, NEW n \in 0 .. Word - 1
  PROVE  /\ [t EXCEPT !.state = st] \in Timer
         /\ [t EXCEPT !.state = st, !.id = i] \in Timer
         /\ [t EXCEPT !.state = st, !.remaining = r] \in Timer
         /\ [t EXCEPT !.state = st, !.remaining = r, !.executed = n] \in Timer
         /\ [t EXCEPT !.remaining = r, !.executed = n] \in Timer
<1>1. \A u \in Timer : /\ [u EXCEPT !.state = st] \in Timer
                       /\ [u EXCEPT !.id = i] \in Timer
                       /\ [u EXCEPT !.remaining = r] \in Timer
                       /\ [u EXCEPT !.executed = n] \in Timer
  BY DEF Timer
<1> DEFINE u == [t EXCEPT !.state = st]
           v == [u EXCEPT !.remaining = r]
           w == [t EXCEPT !.remaining = r]
<1>2. u \in Timer /\ v \in Timer /\ w \in Timer
  BY <1>1
<1>3. /\ [t EXCEPT !.state = st, !.id = i] = [u EXCEPT !.id = i]
      /\ [t EXCEPT !.state = st, !.remaining = r] = v
      /\ [t EXCEPT !.state = st, !.remaining = r, !.executed = n]
           = [v EXCEPT !.executed = n]
      /\ [t EXCEPT !.remaining = r, !.executed = n] = [w EXCEPT !.executed = n]
  BY DEF Timer
<1> HIDE DEF u, v, w
<1> QED
  BY <1>1, <1>2, <1>3

-----------------------------------------------------------------------------
(* The pool and the stack of ticks.                                        *)

\* A callback runs for a slot of the pool, never past its end.
CallingInLoop ==
  \A k \in DOMAIN frames : frames[k].calling => frames[k].slot \in Slot

PoolInv == TypeOK /\ DeadlineArmed /\ CallingInLoop

\* The running tick is the last element of the stack.
LEMMA TopFrame ==
  ASSUME TypeOK, ~Idle
  PROVE  /\ Len(frames) \in Nat \ {0}
         /\ DOMAIN frames = 1 .. Len(frames)
         /\ Len(frames) \in DOMAIN frames
         /\ Top \in Frame
<1>1. frames \in Seq(Frame) /\ frames # <<>>
  BY DEF TypeOK, Idle
<1>2. Len(frames) \in Nat \ {0} /\ DOMAIN frames = 1 .. Len(frames)
  BY <1>1, EmptySeq, LenProperties
<1> QED
  BY <1>1, <1>2, ElementOfSeq DEF Top

LEMMA FrameTypes ==
  ASSUME TypeOK, NEW k \in DOMAIN frames
  PROVE  /\ frames[k] \in Frame
         /\ frames[k].slot \in 0 .. Capacity
         /\ frames[k].calling \in BOOLEAN
         /\ frames[k].elapsed \in 1 .. Word - 1
         /\ frames[k].owed \subseteq Slot
<1>1. frames \in Seq(Frame) /\ k \in 1 .. Len(frames)
  BY LenProperties DEF TypeOK
<1>2. frames[k] \in Frame
  BY <1>1, ElementOfSeq
<1> QED
  BY <1>2 DEF Frame

\* Withdrawing the claims about a slot leaves the loops where they are.
LEMMA TouchFrames ==
  ASSUME TypeOK, NEW s \in Slot, Touch(s)
  PROVE  /\ frames' \in Seq(Frame)
         /\ Len(frames') = Len(frames)
         /\ DOMAIN frames' = DOMAIN frames
         /\ \A k \in DOMAIN frames :
              /\ frames'[k].slot = frames[k].slot
              /\ frames'[k].calling = frames[k].calling
              /\ frames'[k].id = frames[k].id
              /\ frames'[k].elapsed = frames[k].elapsed
              /\ frames'[k].owed = frames[k].owed \ {s}
              /\ frames'[k].touched = frames[k].touched \cup {s}
<1>1. frames \in Seq(Frame) /\ DOMAIN frames = 1 .. Len(frames)
  BY LenProperties DEF TypeOK
<1>2. \A k \in DOMAIN frames : frames[k] \in Frame
  BY <1>1, ElementOfSeq
<1>3. frames' = [k \in DOMAIN frames |-> frames'[k]]
  BY DEF Touch
<1>4. \A k \in DOMAIN frames :
        /\ frames'[k] \in Frame
        /\ frames'[k].slot = frames[k].slot
        /\ frames'[k].calling = frames[k].calling
        /\ frames'[k].id = frames[k].id
        /\ frames'[k].elapsed = frames[k].elapsed
        /\ frames'[k].owed = frames[k].owed \ {s}
        /\ frames'[k].touched = frames[k].touched \cup {s}
  <2> TAKE k \in DOMAIN frames
  <2> DEFINE g == [frames[k] EXCEPT !.owed = @ \ {s}]
  <2>1. g \in Frame
    BY <1>2 DEF Frame
  <2>2. frames'[k] = [g EXCEPT !.touched = @ \cup {s}]
    BY <1>2 DEF Touch, Frame
  <2>3. /\ g.slot = frames[k].slot /\ g.calling = frames[k].calling
        /\ g.id = frames[k].id /\ g.elapsed = frames[k].elapsed
        /\ g.owed = frames[k].owed \ {s} /\ g.touched = frames[k].touched
    BY <1>2 DEF Frame
  <2> HIDE DEF g
  <2> QED
    BY <2>1, <2>2, <2>3 DEF Frame
<1> QED
  BY <1>1, <1>3, <1>4, MappedSeq

\* A step of the running tick changes the last element only.
LEMMA SetTopFrames ==
  ASSUME TypeOK, ~Idle, NEW f \in Frame, SetTop(f)
  PROVE  /\ frames' \in Seq(Frame)
         /\ Len(frames') = Len(frames)
         /\ DOMAIN frames' = DOMAIN frames
         /\ frames'[Len(frames)] = f
         /\ \A k \in DOMAIN frames : k # Len(frames) => frames'[k] = frames[k]
<1>1. frames \in Seq(Frame) /\ Len(frames) \in 1 .. Len(frames)
      /\ DOMAIN frames = 1 .. Len(frames)
  BY TopFrame DEF TypeOK
<1> QED
  BY <1>1, ExceptSeq, LenProperties DEF SetTop

\* A timer in use has a period of at least one tick.
LEMMA LiveTimer ==
  ASSUME PoolInv, NEW s \in Slot, Live(s)
  PROVE  /\ timers[s] \in Timer
         /\ timers[s].remaining \in 1 .. timers[s].period
         /\ timers[s].period \in 1 .. Word - 1
<1>1. timers[s] \in Timer /\ timers[s].remaining \in 1 .. timers[s].period
  BY DEF PoolInv, TypeOK, DeadlineArmed
<1>2. timers[s].period \in 0 .. Word - 1
  BY <1>1 DEF Timer
<1> QED
  BY <1>1, <1>2, WordAssumption

\* A call that changes one timer keeps the pool well formed.
LEMMA PoolUpdate ==
  ASSUME TypeOK, DeadlineArmed, NEW s \in Slot, NEW t \in Timer,
         t.id # DS_TIMER_ID_INVALID => t.remaining \in 1 .. t.period,
         timers' = [timers EXCEPT ![s] = t]
  PROVE  timers' \in [Slot -> Timer] /\ DeadlineArmed'
BY DEF TypeOK, DeadlineArmed, Live

-----------------------------------------------------------------------------
(* PoolInv is inductive.                                                   *)

LEMMA PoolInit == Init => PoolInv
<1> SUFFICES ASSUME Init PROVE PoolInv
  OBVIOUS
<1>1. timers \in [Slot -> Timer] /\ next_id \in 0 .. Word - 1
  BY WordAssumption DEF Init, ZeroTimer, Timer, TimerState, DS_TIMER_ID_INVALID
<1>2. frames \in Seq(Frame) /\ DOMAIN frames = {}
  BY EmptySeq DEF Init
<1>3. DeadlineArmed
  BY DEF Init, DeadlineArmed, Live, ZeroTimer
<1> QED
  BY <1>1, <1>2, <1>3 DEF Init, PoolInv, TypeOK, CallingInLoop, Promise

\* A creation fills the first free slot.
LEMMA CreateEffect ==
  ASSUME PoolInv, NEW p \in Periods, NEW periodic \in BOOLEAN, Create(p, periodic)
  PROVE  \E s \in Slot, t \in Timer :
           /\ IsFirstFree(s) /\ MayTouch(s)
           /\ next_id # IdLimit
           /\ timers' = [timers EXCEPT ![s] = t]
           /\ t.id = next_id /\ t.state = "STOPPED"
           /\ t.remaining \in 1 .. t.period
           /\ next_id' = NextId(next_id)
           /\ armed' = [armed EXCEPT ![s] = "no"]
           /\ Touch(s)
<1> DEFINE t == [id |-> next_id, period |-> IF p > 0 THEN p ELSE 1,
                 remaining |-> IF p > 0 THEN p ELSE 1, repeat |-> 0, executed |-> 0,
                 periodic |-> periodic, state |-> "STOPPED"]
<1>1. PICK s \in Slot :
        /\ IsFirstFree(s) /\ MayTouch(s)
        /\ next_id # IdLimit
        /\ timers' = [timers EXCEPT ![s] = t]
        /\ next_id' = NextId(next_id)
        /\ armed' = [armed EXCEPT ![s] = "no"]
        /\ Touch(s)
  BY DEF Create
<1>2. /\ t \in Timer /\ t.id = next_id /\ t.state = "STOPPED"
      /\ t.remaining \in 1 .. t.period
  BY WordAssumption, InputAssumption DEF PoolInv, TypeOK, Timer, TimerState
<1> HIDE DEF t
<1> QED
  BY <1>1, <1>2

LEMMA PoolCreate ==
  ASSUME PoolInv, NEW p \in Periods, NEW periodic \in BOOLEAN, Create(p, periodic)
  PROVE  PoolInv'
<1> PICK s \in Slot, t \in Timer :
      /\ timers' = [timers EXCEPT ![s] = t]
      /\ t.remaining \in 1 .. t.period
      /\ next_id' = NextId(next_id)
      /\ armed' = [armed EXCEPT ![s] = "no"]
      /\ Touch(s)
  BY CreateEffect
<1>1. timers' \in [Slot -> Timer] /\ DeadlineArmed'
  BY PoolUpdate DEF PoolInv
<1>2. next_id' \in 0 .. Word - 1
  BY ModBounds, WordAssumption DEF PoolInv, TypeOK, NextId
<1>3. frames' \in Seq(Frame) /\ CallingInLoop'
  BY TouchFrames DEF PoolInv, CallingInLoop
<1> QED
  BY <1>1, <1>2, <1>3 DEF PoolInv, TypeOK, Promise

\* Start, stop, delete, reset and a new repeat count share this argument.
LEMMA PoolCall ==
  ASSUME PoolInv, NEW s \in Slot, Live(s), NEW t \in Timer,
         t.id # DS_TIMER_ID_INVALID => t.remaining \in 1 .. t.period,
         timers' = [timers EXCEPT ![s] = t], armed' \in [Slot -> Promise],
         UNCHANGED next_id, Touch(s) \/ UNCHANGED frames
  PROVE  PoolInv'
<1> USE DEF PoolInv
<1>1. timers' \in [Slot -> Timer] /\ DeadlineArmed'
  BY PoolUpdate
<1>2. frames' \in Seq(Frame) /\ CallingInLoop'
  <2>1. CASE Touch(s)
    BY <2>1, TouchFrames DEF CallingInLoop
  <2>2. CASE UNCHANGED frames
    BY <2>2 DEF CallingInLoop, TypeOK
  <2> QED
    BY <2>1, <2>2
<1> QED
  BY <1>1, <1>2 DEF TypeOK

\* What the calls other than create do to the timer t they return with.
Rewritten(s, t) ==
  /\ t.state = "STOPPED" /\ timers[s].state = "STOPPED"
  /\ t.id = timers[s].id
  /\ UNCHANGED <<frames, armed>>

Started(s, t) ==
  /\ t.state = "RUNNING" /\ t.id = timers[s].id
  /\ t.periodic = timers[s].periodic /\ t.repeat = timers[s].repeat
  /\ t.executed = timers[s].executed
  /\ armed' = [armed EXCEPT
       ![s] = IF InCallback(s) /\ Finished(timers[s]) THEN "again" ELSE "yes"]
  /\ Touch(s) \/ (UNCHANGED frames /\ t = timers[s])

Retired(s, t) ==
  /\ t.state = "STOPPED" /\ t.id \in {timers[s].id, DS_TIMER_ID_INVALID}
  /\ armed' = [armed EXCEPT ![s] = "no"]
  /\ Touch(s)

CallOn(s, t) ==
  /\ Live(s) /\ MayTouch(s)
  /\ timers' = [timers EXCEPT ![s] = t]
  /\ next_id' = next_id
  /\ t.id # DS_TIMER_ID_INVALID => t.remaining \in 1 .. t.period
  /\ Rewritten(s, t) \/ Started(s, t) \/ Retired(s, t)

LEMMA SetRepeatEffect ==
  ASSUME PoolInv, NEW s \in Slot, NEW n \in Repeats, SetRepeat(s, n)
  PROVE  \E t \in Timer : CallOn(s, t)
<1> DEFINE t == [timers[s] EXCEPT !.repeat = n]
<1>1. t \in Timer /\ (t.id # DS_TIMER_ID_INVALID => t.remaining \in 1 .. t.period)
  BY InputAssumption DEF SetRepeat, PoolInv, TypeOK, Timer, DeadlineArmed, Live
<1>2. timers' = [timers EXCEPT ![s] = t]
  BY DEF SetRepeat, PoolInv, TypeOK, Timer
<1>3. t.state = timers[s].state /\ t.id = timers[s].id
  BY DEF PoolInv, TypeOK, Timer
<1> HIDE DEF t
<1>4. CallOn(s, t)
  BY <1>1, <1>2, <1>3 DEF SetRepeat, CallOn, Rewritten
<1> QED
  BY <1>1, <1>4

LEMMA StartEffect ==
  ASSUME PoolInv, NEW s \in Slot, Start(s)
  PROVE  \E t \in Timer : CallOn(s, t)
<1>1. /\ timers[s] \in Timer
      /\ timers[s].remaining \in 1 .. timers[s].period
      /\ timers[s].period \in 1 .. Word - 1
  BY LiveTimer DEF Start
<1>2. CASE timers[s].state = "RUNNING"
  <2>1. timers' = [timers EXCEPT ![s] = timers[s]] /\ UNCHANGED frames
    BY <1>2 DEF Start, PoolInv, TypeOK
  <2>2. CallOn(s, timers[s])
    BY <1>1, <1>2, <2>1 DEF Start, CallOn, Started
  <2> QED
    BY <1>1, <2>2
<1>3. CASE timers[s].state # "RUNNING"
  <2> DEFINE t == [timers[s] EXCEPT !.state = "RUNNING",
                                    !.remaining = timers[s].period]
  <2>1. t \in Timer
    <3>1. "RUNNING" \in TimerState /\ timers[s].period \in 0 .. Word - 1
          /\ 0 \in 0 .. Word - 1
      BY <1>1, WordAssumption DEF TimerState
    <3> QED
      BY <1>1, <3>1, TimerFields
  <2>2. /\ t.id = timers[s].id /\ t.state = "RUNNING"
        /\ t.periodic = timers[s].periodic /\ t.repeat = timers[s].repeat
        /\ t.executed = timers[s].executed
        /\ t.remaining = timers[s].period /\ t.period = timers[s].period
    BY <1>1 DEF Timer
  <2>3. timers' = [timers EXCEPT ![s] = t] /\ Touch(s)
    BY <1>1, <1>3 DEF Start, PoolInv, TypeOK, Timer
  <2> HIDE DEF t
  <2>4. CallOn(s, t)
    BY <1>1, <2>2, <2>3, WordAssumption DEF Start, CallOn, Started
  <2> QED
    BY <2>1, <2>4
<1> QED
  BY <1>2, <1>3

LEMMA RetireEffect ==
  ASSUME PoolInv, NEW s \in Slot, Stop(s) \/ Delete(s) \/ Reset(s)
  PROVE  \E t \in Timer : CallOn(s, t)
<1> DEFINE stopped == [timers[s] EXCEPT !.state = "STOPPED"]
           deleted == [timers[s] EXCEPT !.state = "STOPPED",
                                        !.id = DS_TIMER_ID_INVALID]
           reset == [timers[s] EXCEPT !.state = "STOPPED",
                                      !.remaining = timers[s].period,
                                      !.executed = 0]
<1>1. PICK t \in {stopped, deleted, reset} : Retire(s, t)
  BY DEF Stop, Delete, Reset
<1>2. /\ timers[s] \in Timer
      /\ timers[s].remaining \in 1 .. timers[s].period
      /\ timers[s].period \in 1 .. Word - 1
  BY <1>1, LiveTimer DEF Retire
<1>3. stopped \in Timer /\ deleted \in Timer /\ reset \in Timer
  <2>1. "STOPPED" \in TimerState /\ DS_TIMER_ID_INVALID \in 0 .. Word - 1
        /\ 0 \in 0 .. Word - 1 /\ timers[s].period \in 0 .. Word - 1
    BY <1>2, WordAssumption DEF TimerState, DS_TIMER_ID_INVALID
  <2> QED
    BY <1>2, <2>1, TimerFields
<1>4. /\ stopped.state = "STOPPED" /\ stopped.id = timers[s].id
      /\ stopped.remaining \in 1 .. stopped.period
      /\ deleted.state = "STOPPED" /\ deleted.id = DS_TIMER_ID_INVALID
      /\ reset.state = "STOPPED" /\ reset.id = timers[s].id
      /\ reset.remaining \in 1 .. reset.period
  BY <1>2 DEF Timer
<1> HIDE DEF stopped, deleted, reset
<1>5. t \in Timer /\ CallOn(s, t)
  BY <1>1, <1>3, <1>4 DEF Retire, CallOn, Retired
<1> QED
  BY <1>5

LEMMA CallEffect ==
  ASSUME PoolInv, Call
  PROVE  \/ \E p \in Periods, periodic \in BOOLEAN : Create(p, periodic)
         \/ \E s \in Slot, t \in Timer : CallOn(s, t)
BY SetRepeatEffect, StartEffect, RetireEffect DEF Call

LEMMA PoolApi ==
  ASSUME PoolInv, Call
  PROVE  PoolInv'
<1>1. CASE \E p \in Periods, periodic \in BOOLEAN : Create(p, periodic)
  BY <1>1, PoolCreate
<1>2. CASE \E s \in Slot, t \in Timer : CallOn(s, t)
  <2> PICK s \in Slot, t \in Timer : CallOn(s, t)
    BY <1>2
  <2>1. armed' \in [Slot -> Promise] /\ (Touch(s) \/ UNCHANGED frames)
    BY DEF CallOn, Rewritten, Started, Retired, PoolInv, TypeOK, Promise
  <2> QED
    BY <2>1, PoolCall DEF CallOn
<1> QED
  BY <1>1, <1>2, CallEffect

\* A nested tick leaves the loops of the outer ones where they are.
LEMMA TickBeginFrames ==
  ASSUME PoolInv, NEW e \in Elapses, TickBegin(e)
  PROVE  LET n == Len(frames) IN
         /\ frames' \in Seq(Frame)
         /\ n \in Nat /\ DOMAIN frames = 1 .. n
         /\ DOMAIN frames' = 1 .. n + 1
         /\ \A k \in 1 .. n :
              /\ frames'[k].slot = frames[k].slot
              /\ frames'[k].calling = frames[k].calling
              /\ frames'[k].id = frames[k].id
              /\ frames'[k].elapsed = frames[k].elapsed
              /\ frames'[k].owed = frames[k].owed
              /\ frames'[k].touched = Slot
         /\ frames'[n + 1].slot = 0
         /\ frames'[n + 1].calling = FALSE
         /\ frames'[n + 1].elapsed = e
         /\ frames'[n + 1].owed = DueWithin(e)
         /\ frames'[n + 1].touched = {}
<1> USE DEF PoolInv
<1> DEFINE n == Len(frames)
           outer == [k \in DOMAIN frames |-> [frames[k] EXCEPT !.touched = Slot]]
           f == [slot |-> 0, elapsed |-> e, calling |-> FALSE,
                 id |-> DS_TIMER_ID_INVALID, owed |-> DueWithin(e), touched |-> {}]
<1>1. frames \in Seq(Frame) /\ n \in Nat /\ DOMAIN frames = 1 .. n
  BY LenProperties DEF TypeOK
<1>2. \A k \in DOMAIN frames : frames[k] \in Frame
  BY <1>1, ElementOfSeq
<1>3. \A k \in DOMAIN frames :
        /\ outer[k] \in Frame
        /\ outer[k].slot = frames[k].slot
        /\ outer[k].calling = frames[k].calling
        /\ outer[k].id = frames[k].id
        /\ outer[k].elapsed = frames[k].elapsed
        /\ outer[k].owed = frames[k].owed
        /\ outer[k].touched = Slot
  BY <1>2 DEF Frame
<1>4. outer = [k \in DOMAIN frames |-> outer[k]]
  OBVIOUS
<1>5. f \in Frame
  <2>1. DueWithin(e) \subseteq Slot
    BY DEF DueWithin
  <2>2. e \in 1 .. Word - 1 /\ 0 \in 0 .. Capacity /\ 0 \in 0 .. Word - 1
    BY InputAssumption, CapacityAssumption, WordAssumption
  <2> QED
    BY <2>1, <2>2 DEF Frame, DS_TIMER_ID_INVALID
<1>6. frames' = Append(outer, f)
  BY DEF TickBegin
<1>9. /\ f.slot = 0 /\ f.calling = FALSE /\ f.elapsed = e
      /\ f.owed = DueWithin(e) /\ f.touched = {}
  OBVIOUS
<1> HIDE DEF outer, f
<1>7. outer \in Seq(Frame) /\ Len(outer) = n /\ DOMAIN outer = DOMAIN frames
  BY <1>1, <1>3, <1>4, MappedSeq
<1> HIDE DEF n
<1>8. /\ frames' \in Seq(Frame)
      /\ DOMAIN frames' = 1 .. n + 1
      /\ \A k \in 1 .. n : frames'[k] = outer[k]
      /\ frames'[n + 1] = f
  BY <1>1, <1>5, <1>6, <1>7, AppendProperties, LenProperties
<1> QED
  BY <1>1, <1>3, <1>8, <1>9 DEF n

LEMMA PoolTickBegin ==
  ASSUME PoolInv, NEW e \in Elapses, TickBegin(e)
  PROVE  PoolInv'
<1> DEFINE n == Len(frames)
<1>1. /\ frames' \in Seq(Frame)
      /\ n \in Nat /\ DOMAIN frames = 1 .. n /\ DOMAIN frames' = 1 .. n + 1
      /\ \A k \in 1 .. n : /\ frames'[k].slot = frames[k].slot
                           /\ frames'[k].calling = frames[k].calling
      /\ frames'[n + 1].calling = FALSE
  BY TickBeginFrames
<1> HIDE DEF n
<1>2. CallingInLoop'
  BY <1>1 DEF CallingInLoop, PoolInv
<1> QED
  BY <1>1, <1>2 DEF TickBegin, PoolInv, TypeOK, DeadlineArmed, Live

\* The loop index moves on: the callback, if one was running, has returned.
LEMMA NextSlotFrames ==
  ASSUME PoolInv, ~Idle, Top.slot \in Slot, NextSlot
  PROVE  /\ frames' \in Seq(Frame)
         /\ Len(frames') = Len(frames)
         /\ DOMAIN frames' = DOMAIN frames
         /\ frames'[Len(frames)].slot = Top.slot + 1
         /\ frames'[Len(frames)].calling = FALSE
         /\ frames'[Len(frames)].elapsed = Top.elapsed
         /\ frames'[Len(frames)].owed = Top.owed
         /\ frames'[Len(frames)].touched = Top.touched
         /\ \A k \in DOMAIN frames : k # Len(frames) => frames'[k] = frames[k]
         /\ CallingInLoop'
<1> DEFINE f == [Top EXCEPT !.slot = @ + 1, !.calling = FALSE,
                            !.id = DS_TIMER_ID_INVALID]
<1>1. Top \in Frame
  BY TopFrame DEF PoolInv
<1>2. Top.slot + 1 \in 0 .. Capacity /\ DS_TIMER_ID_INVALID \in 0 .. Word - 1
  BY CapacityAssumption, WordAssumption DEF Slot, DS_TIMER_ID_INVALID
<1>3. /\ f \in Frame /\ f.slot = Top.slot + 1 /\ f.calling = FALSE
      /\ f.elapsed = Top.elapsed /\ f.owed = Top.owed /\ f.touched = Top.touched
  <2> DEFINE g == [Top EXCEPT !.slot = @ + 1]
             h == [g EXCEPT !.calling = FALSE]
  <2>1. /\ g \in Frame /\ g.slot = Top.slot + 1
        /\ g.elapsed = Top.elapsed /\ g.owed = Top.owed /\ g.touched = Top.touched
    BY <1>1, <1>2 DEF Frame
  <2>2. f = [h EXCEPT !.id = DS_TIMER_ID_INVALID]
    BY <1>1 DEF Frame
  <2> HIDE DEF f, g
  <2>3. /\ h \in Frame /\ h.slot = g.slot /\ h.calling = FALSE
        /\ h.elapsed = g.elapsed /\ h.owed = g.owed /\ h.touched = g.touched
    BY <2>1 DEF Frame
  <2> HIDE DEF h
  <2> QED
    BY <1>2, <2>1, <2>2, <2>3 DEF Frame
<1>4. SetTop(f)
  BY DEF NextSlot
<1> HIDE DEF f
<1>5. /\ frames' \in Seq(Frame)
      /\ Len(frames') = Len(frames)
      /\ DOMAIN frames' = DOMAIN frames
      /\ frames'[Len(frames)] = f
      /\ \A k \in DOMAIN frames : k # Len(frames) => frames'[k] = frames[k]
  BY <1>3, <1>4, SetTopFrames DEF PoolInv
<1>6. CallingInLoop'
  BY <1>3, <1>5 DEF CallingInLoop, PoolInv
<1> QED
  BY <1>3, <1>5, <1>6

LEMMA PoolTickSkip ==
  ASSUME PoolInv, NEW s \in Slot, TickSkip(s)
  PROVE  PoolInv'
<1>1. frames' \in Seq(Frame) /\ CallingInLoop'
  BY NextSlotFrames DEF TickSkip, Scanning
<1> QED
  BY <1>1 DEF TickSkip, PoolInv, TypeOK, DeadlineArmed, Live

\* A timer that is not due yet comes closer to its deadline.
LEMMA CountdownEffect ==
  ASSUME PoolInv, NEW s \in Slot, TickCountdown(s)
  PROVE  \E t \in Timer :
           /\ timers' = [timers EXCEPT ![s] = t]
           /\ t = [timers[s] EXCEPT !.remaining = t.remaining]
           /\ t.remaining = timers[s].remaining - Top.elapsed
           /\ t.remaining \in 1 .. t.period
           /\ t.remaining < timers[s].remaining
<1>1. /\ timers[s] \in Timer
      /\ timers[s].remaining \in 1 .. timers[s].period
      /\ timers[s].period \in 1 .. Word - 1
  BY LiveTimer DEF TickCountdown
<1>2. Top.elapsed \in 1 .. Word - 1 /\ ~(Top.elapsed >= timers[s].remaining)
  BY TopFrame DEF TickCountdown, Scanning, Expires, PoolInv, Frame
<1> DEFINE r == timers[s].remaining - Top.elapsed
           t == [timers[s] EXCEPT !.remaining = r]
<1>3. r \in 1 .. timers[s].period /\ r \in 0 .. Word - 1 /\ r < timers[s].remaining
  BY <1>1, <1>2, WordAssumption
<1>4. timers' = [timers EXCEPT ![s] = t]
  BY DEF TickCountdown, PoolInv, TypeOK
<1>5. t.remaining = r
  BY <1>1 DEF Timer
<1>6. r = timers[s].remaining - Top.elapsed
  OBVIOUS
<1> HIDE DEF r
<1>7. t \in Timer /\ t.remaining \in 1 .. t.period
  BY <1>1, <1>3 DEF Timer
<1>8. t = [timers[s] EXCEPT !.remaining = t.remaining]
  BY <1>5
<1> HIDE DEF t
<1> QED
  BY <1>3, <1>4, <1>5, <1>6, <1>7, <1>8

LEMMA PoolTickCountdown ==
  ASSUME PoolInv, NEW s \in Slot, TickCountdown(s)
  PROVE  PoolInv'
<1>1. frames' \in Seq(Frame) /\ CallingInLoop'
  BY NextSlotFrames DEF TickCountdown, Scanning
<1>2. timers' \in [Slot -> Timer] /\ DeadlineArmed'
  BY CountdownEffect, PoolUpdate DEF PoolInv
<1> QED
  BY <1>1, <1>2 DEF TickCountdown, PoolInv, TypeOK

\* An expiry marks the running tick as being inside its callback.
LEMMA ExpireFrames ==
  ASSUME PoolInv, NEW s \in Slot, TickExpire(s)
  PROVE  /\ frames' \in Seq(Frame)
         /\ Len(frames') = Len(frames)
         /\ DOMAIN frames' = DOMAIN frames
         /\ \A k \in DOMAIN frames :
              /\ frames'[k].slot = frames[k].slot
              /\ frames'[k].calling = (frames[k].calling \/ k = Len(frames))
              /\ frames'[k].id = IF k = Len(frames) THEN timers[s].id
                                 ELSE frames[k].id
              /\ frames'[k].elapsed = frames[k].elapsed
              /\ frames'[k].owed = frames[k].owed \ {s}
              /\ frames'[k].touched = frames[k].touched
<1> DEFINE n == Len(frames)
<1>1. /\ n \in Nat \ {0} /\ DOMAIN frames = 1 .. n /\ n \in DOMAIN frames
      /\ Top \in Frame /\ Top = frames[n]
  BY TopFrame DEF TickExpire, Scanning, PoolInv, Top
<1>2. frames \in Seq(Frame)
  BY DEF PoolInv, TypeOK
<1>3. timers[s] \in Timer /\ timers[s].id \in 0 .. Word - 1
  BY LiveTimer DEF TickExpire, Timer
<1>4. frames' = [k \in DOMAIN frames |->
        IF k < n THEN [frames[k] EXCEPT !.owed = @ \ {s}]
        ELSE [Top EXCEPT !.calling = TRUE, !.id = timers[s].id, !.owed = @ \ {s}]]
  BY <1>3 DEF TickExpire, Timer
<1>5. \A k \in DOMAIN frames : frames[k] \in Frame /\ frames[k].calling \in BOOLEAN
  <2>1. \A k \in DOMAIN frames : frames[k] \in Frame
    BY <1>1, <1>2, ElementOfSeq
  <2> QED
    BY <2>1 DEF Frame
<1> DEFINE Same(k) == /\ frames'[k] \in Frame
                      /\ frames'[k].slot = frames[k].slot
                      /\ frames'[k].elapsed = frames[k].elapsed
                      /\ frames'[k].owed = frames[k].owed \ {s}
                      /\ frames'[k].touched = frames[k].touched
<1>6. ASSUME NEW k \in DOMAIN frames, k < n
      PROVE  /\ Same(k)
             /\ frames'[k].calling = frames[k].calling
             /\ frames'[k].id = frames[k].id
  BY <1>4, <1>5, <1>6 DEF Frame
<1>7. Same(n) /\ frames'[n].calling = TRUE /\ frames'[n].id = timers[s].id
  <2> DEFINE g == [Top EXCEPT !.calling = TRUE]
             h == [g EXCEPT !.id = timers[s].id]
  <2>1. /\ g \in Frame /\ g.slot = Top.slot /\ g.calling = TRUE
        /\ g.elapsed = Top.elapsed /\ g.owed = Top.owed /\ g.touched = Top.touched
    BY <1>1 DEF Frame
  <2>2. frames'[n] = [h EXCEPT !.owed = @ \ {s}]
    BY <1>1, <1>4 DEF Frame
  <2> HIDE DEF g
  <2>3. /\ h \in Frame /\ h.slot = Top.slot /\ h.calling = TRUE /\ h.id = timers[s].id
        /\ h.elapsed = Top.elapsed /\ h.owed = Top.owed /\ h.touched = Top.touched
    BY <1>3, <2>1 DEF Frame
  <2> HIDE DEF h
  <2> QED
    BY <1>1, <2>2, <2>3 DEF Frame
<1>8. \A k \in DOMAIN frames : k < n \/ k = n
  BY <1>1
<1>9. frames' = [k \in DOMAIN frames |-> frames'[k]]
  BY <1>4
<1>10. \A k \in DOMAIN frames : k < n => k # n
  BY <1>1
<1>11. Len(frames) = n
  OBVIOUS
<1> HIDE DEF n
<1>12. \A k \in DOMAIN frames :
         /\ Same(k)
         /\ frames'[k].calling = (frames[k].calling \/ k = n)
         /\ frames'[k].id = IF k = n THEN timers[s].id ELSE frames[k].id
  <2> TAKE k \in DOMAIN frames
  <2> HIDE DEF Same
  <2>1. CASE k < n
    BY <1>5, <1>6, <1>10, <2>1
  <2>2. CASE k = n
    BY <1>7, <2>2
  <2> QED
    BY <1>8, <2>1, <2>2
<1>13. frames' \in Seq(Frame) /\ Len(frames') = Len(frames) /\ DOMAIN frames' = DOMAIN frames
  BY <1>2, <1>9, <1>12, MappedSeq
<1> QED
  BY <1>11, <1>12, <1>13

\* An expiry counts the execution and arms the next deadline.
LEMMA ExpireEffect ==
  ASSUME PoolInv, NEW s \in Slot, TickExpire(s)
  PROVE  \E t \in Timer :
           /\ timers' = [timers EXCEPT ![s] = t]
           /\ armed' = [armed EXCEPT ![s] = IF Finished(t) THEN "no" ELSE @]
           /\ t.id = timers[s].id /\ t.state = timers[s].state
           /\ t.period = timers[s].period
           /\ t.remaining = NextRemaining(timers[s].period,
                                          Top.elapsed - timers[s].remaining)
           /\ t.remaining \in 1 .. t.period
<1>1. /\ timers[s] \in Timer
      /\ timers[s].remaining \in 1 .. timers[s].period
      /\ timers[s].period \in 1 .. Word - 1
      /\ timers[s].executed \in 0 .. Word - 1
  BY LiveTimer DEF TickExpire, Timer
<1>2. Top.elapsed \in 1 .. Word - 1 /\ Top.elapsed >= timers[s].remaining
  BY TopFrame DEF TickExpire, Scanning, Expires, PoolInv, Frame
<1> DEFINE r == NextRemaining(timers[s].period, Top.elapsed - timers[s].remaining)
           n == (timers[s].executed + 1) % Word
           t == [timers[s] EXCEPT !.remaining = r, !.executed = n]
<1>3. Top.elapsed - timers[s].remaining \in Nat /\ timers[s].period \in Nat \ {0}
  BY <1>1, <1>2, WordAssumption
<1>4. r \in 1 .. timers[s].period
  BY <1>3, NextRemainingBounds
<1>5. n \in 0 .. Word - 1
  <2>1. timers[s].executed + 1 \in Int /\ Word \in Nat \ {0}
    BY <1>1, WordAssumption
  <2> QED
    BY <2>1, ModBounds
<1>6. timers' = [timers EXCEPT ![s] = t] /\ armed' = [armed EXCEPT ![s] = IF Finished(t) THEN "no" ELSE @]
  <2>1. t = [timers[s] EXCEPT
               !.remaining = NextRemaining(timers[s].period,
                                           Top.elapsed - timers[s].remaining),
               !.executed = (@ + 1) % Word]
    BY <1>1 DEF Timer
  <2> QED
    BY <2>1, Zenon DEF TickExpire
<1>7. r = NextRemaining(timers[s].period, Top.elapsed - timers[s].remaining)
  OBVIOUS
<1> HIDE DEF r, n
<1>8. r \in 0 .. Word - 1
  BY <1>1, <1>4, WordAssumption
<1>9. t \in Timer
  BY <1>1, <1>5, <1>8, TimerFields DEF TimerState
<1>10. /\ t.remaining = r /\ t.period = timers[s].period
       /\ t.id = timers[s].id /\ t.state = timers[s].state
  BY <1>1 DEF Timer
<1> HIDE DEF t
<1> QED
  BY <1>4, <1>6, <1>7, <1>9, <1>10

LEMMA PoolTickExpire ==
  ASSUME PoolInv, NEW s \in Slot, TickExpire(s)
  PROVE  PoolInv'
<1>1. frames' \in Seq(Frame) /\ CallingInLoop'
  <2>1. Top.slot = s /\ Top = frames[Len(frames)]
    BY DEF TickExpire, Scanning, Top
  <2> QED
    BY <2>1, ExpireFrames DEF CallingInLoop, PoolInv
<1> PICK t \in Timer : /\ timers' = [timers EXCEPT ![s] = t]
                       /\ armed' = [armed EXCEPT ![s] = IF Finished(t) THEN "no" ELSE @]
                       /\ t.remaining \in 1 .. t.period
  BY ExpireEffect
<1>2. timers' \in [Slot -> Timer] /\ DeadlineArmed'
  BY PoolUpdate DEF PoolInv
<1>3. armed' \in [Slot -> Promise] /\ next_id' = next_id
  BY DEF TickExpire, PoolInv, TypeOK, Promise
<1> QED
  BY <1>1, <1>2, <1>3 DEF PoolInv, TypeOK

LEMMA PoolCallbackReturn ==
  ASSUME PoolInv, CallbackReturn
  PROVE  PoolInv'
<1>1. Top.slot \in Slot
  BY TopFrame DEF CallbackReturn, PoolInv, CallingInLoop, Top
<1>2. frames' \in Seq(Frame) /\ CallingInLoop'
  BY <1>1, NextSlotFrames DEF CallbackReturn
<1> DEFINE t == [timers[Top.slot] EXCEPT !.state = "EXPIRED"]
<1>3. timers' \in [Slot -> Timer] /\ DeadlineArmed'
  <2>1. CASE timers' = timers
    BY <2>1 DEF PoolInv, TypeOK, DeadlineArmed, Live
  <2>2. CASE timers' = [timers EXCEPT ![Top.slot] = t]
    <3>1. timers[Top.slot] \in Timer
      BY <1>1 DEF PoolInv, TypeOK
    <3>2. t \in Timer /\ (t.id # DS_TIMER_ID_INVALID => t.remaining \in 1 .. t.period)
      BY <1>1, <3>1 DEF Timer, TimerState, PoolInv, DeadlineArmed, Live
    <3> HIDE DEF t
    <3> QED
      BY <1>1, <2>2, <3>2, PoolUpdate DEF PoolInv
  <2> QED
    BY <1>1, <2>1, <2>2 DEF CallbackReturn, PoolInv, TypeOK
<1> QED
  BY <1>2, <1>3 DEF CallbackReturn, PoolInv, TypeOK

\* The innermost tick leaves the stack, the others stay as they are.
LEMMA TickEndFrames ==
  ASSUME TypeOK, TickEnd
  PROVE  /\ frames' \in Seq(Frame)
         /\ DOMAIN frames' = 1 .. Len(frames) - 1
         /\ DOMAIN frames' \subseteq DOMAIN frames
         /\ \A k \in DOMAIN frames' : frames'[k] = frames[k]
<1>1. /\ frames \in Seq(Frame) /\ Len(frames) \in Nat \ {0}
      /\ DOMAIN frames = 1 .. Len(frames)
  BY TopFrame DEF TickEnd, TypeOK
<1>2. frames' = SubSeq(frames, 1, Len(frames) - 1)
  BY DEF TickEnd
<1>3. /\ frames' \in Seq(Frame) /\ Len(frames') = Len(frames) - 1
      /\ \A k \in 1 .. Len(frames) - 1 : frames'[k] = frames[k]
  BY <1>1, <1>2, SubSeqProperties
<1>4. DOMAIN frames' = 1 .. Len(frames) - 1
  BY <1>3, LenProperties
<1> QED
  BY <1>1, <1>3, <1>4

LEMMA PoolTickEnd ==
  ASSUME PoolInv, TickEnd
  PROVE  PoolInv'
<1>1. frames' \in Seq(Frame) /\ CallingInLoop'
  BY TickEndFrames DEF PoolInv, CallingInLoop
<1> QED
  BY <1>1 DEF TickEnd, PoolInv, TypeOK, DeadlineArmed, Live

LEMMA PoolNext == PoolInv /\ [Next]_vars => PoolInv'
<1> SUFFICES ASSUME PoolInv, [Next]_vars PROVE PoolInv'
  OBVIOUS
<1>1. CASE Call
  BY <1>1, PoolApi
<1>2. CASE \E e \in Elapses : TickBegin(e)
  BY <1>2, PoolTickBegin
<1>3. CASE TickStep
  BY <1>3, PoolTickSkip, PoolTickCountdown, PoolTickExpire, PoolTickEnd DEF TickStep
<1>4. CASE CallbackReturn
  BY <1>4, PoolCallbackReturn
<1>5. CASE UNCHANGED vars
  BY <1>5 DEF vars, PoolInv, TypeOK, DeadlineArmed, Live, CallingInLoop
<1> QED
  BY <1>1, <1>2, <1>3, <1>4, <1>5 DEF Next

LEMMA PoolAlways == Spec => []PoolInv
  BY PoolInit, PoolNext, PTL DEF Spec

\* The pool, the stack of ticks and the history keep their types: no field of
\* a timer leaves the range of uint32_t and no loop index passes the capacity.
THEOREM TypeCorrect == Spec => []TypeOK
<1>1. PoolInv => TypeOK
  BY DEF PoolInv
<1> QED
  BY <1>1, PoolAlways, PTL

\* The countdown of a timer in use always lies between 1 and its period, so
\* no subtraction of ds_timer_tick wraps, for any elapsed time, any callback
\* and any depth of nested ticks.
THEOREM DeadlineAlwaysArmed == Spec => []DeadlineArmed
<1>1. PoolInv => DeadlineArmed
  BY DEF PoolInv
<1> QED
  BY <1>1, PoolAlways, PTL

-----------------------------------------------------------------------------
(* Deadlines keep their phase.                                             *)

\* One period later, less the remainder, is again a multiple of the period.
LEMMA ModMultiples ==
  ASSUME NEW p \in Nat \ {0}, NEW o \in Int
  PROVE  (p + o - (o % p)) % p = 0
OBVIOUS

LEMMA ModSelf ==
  ASSUME NEW p \in Nat \ {0}
  PROVE  p % p = 0
OBVIOUS

\* The distance between two deadlines of a timer is a multiple of its period.
LEMMA PhaseArithmetic ==
  ASSUME NEW p \in Nat \ {0}, NEW o \in Nat
  PROVE  (NextRemaining(p, o) + o) % p = 0
<1>1. o % p \in 0 .. p - 1
  BY ModBounds
<1>2. CASE o > 0 /\ o >= p
  <2> DEFINE m == o % p
  <2>1. NextRemaining(p, o) = p - m /\ m \in Int
    BY <1>1, <1>2 DEF NextRemaining
  <2>2. (p + o - m) % p = 0
    BY ModMultiples
  <2> HIDE DEF m
  <2>3. NextRemaining(p, o) + o = p + o - m
    BY <2>1
  <2> QED
    BY <2>2, <2>3
<1>3. CASE ~(o > 0 /\ o >= p)
  <2>1. NextRemaining(p, o) = p - o
    BY <1>1, <1>3 DEF NextRemaining
  <2>2. NextRemaining(p, o) + o = p
    BY <2>1
  <2> QED
    BY <2>2, ModSelf
<1> QED
  BY <1>2, <1>3

\* While the loop looks at a slot, only the loop takes a step.
LEMMA ScanningSteps ==
  ASSUME PoolInv, [Next]_vars, NEW s \in Slot, Scanning(s)
  PROVE  \/ TickSkip(s) \/ TickCountdown(s) \/ TickExpire(s)
         \/ UNCHANGED timers
<1>1. ~Idle /\ ~Top.calling /\ Top.slot = s
  BY DEF Scanning
<1>2. \A r : ~MayTouch(r)
  BY <1>1 DEF MayTouch
<1>3. ~Call
  BY <1>2 DEF Call, Create, SetRepeat, Start, Stop, Delete, Reset, Retire
<1>4. CASE \E e \in Elapses : TickBegin(e)
  BY <1>4 DEF TickBegin
<1>5. CASE TickStep
  <2>1. \A r \in Slot : Scanning(r) => r = s
    BY <1>1 DEF Scanning
  <2> QED
    BY <1>5, <2>1 DEF TickStep, TickSkip, TickCountdown, TickExpire, TickEnd
<1>6. ~CallbackReturn
  BY <1>1 DEF CallbackReturn
<1> QED
  BY <1>3, <1>4, <1>5, <1>6 DEF Next, vars

\* A callback is made for a timer of the pool that was due, and nothing else
\* of it changes than its countdown and its count.
LEMMA ExecutedByExpire ==
  ASSUME PoolInv, [Next]_vars, NEW s \in Slot, Scanning(s),
         timers'[s].executed # timers[s].executed
  PROVE  TickExpire(s)
<1>1. CASE TickSkip(s) \/ UNCHANGED timers
  BY <1>1 DEF TickSkip
<1>2. CASE TickCountdown(s)
  <2> PICK t \in Timer : /\ timers' = [timers EXCEPT ![s] = t]
                         /\ t = [timers[s] EXCEPT !.remaining = t.remaining]
    BY <1>2, CountdownEffect
  <2>1. timers[s] \in Timer /\ timers'[s] = t
    BY DEF PoolInv, TypeOK
  <2>2. t.executed = timers[s].executed
    BY <2>1 DEF Timer
  <2> QED
    BY <2>1, <2>2
<1> QED
  BY <1>1, <1>2, ScanningSteps

\* Late and coarse ticks never shift the phase of a periodic timer.
THEOREM PhaseAlwaysKept == Spec => PhaseKept
<1>1. ASSUME PoolInv, [Next]_vars
      PROVE  \A s \in Slot :
               Scanning(s) /\ timers'[s].executed # timers[s].executed
                 => (timers'[s].remaining - timers[s].remaining + Top.elapsed)
                       % timers[s].period = 0
  <2> SUFFICES ASSUME NEW s \in Slot, Scanning(s),
                      timers'[s].executed # timers[s].executed
               PROVE  (timers'[s].remaining - timers[s].remaining + Top.elapsed)
                         % timers[s].period = 0
    OBVIOUS
  <2>1. TickExpire(s)
    BY <1>1, ExecutedByExpire
  <2> PICK t \in Timer :
        /\ timers' = [timers EXCEPT ![s] = t]
        /\ t.remaining = NextRemaining(timers[s].period,
                                       Top.elapsed - timers[s].remaining)
    BY <1>1, <2>1, ExpireEffect
  <2>2. timers'[s] = t
    BY <1>1 DEF PoolInv, TypeOK
  <2>3. /\ timers[s].period \in Nat \ {0} /\ timers[s].remaining \in Int
        /\ Top.elapsed \in Int /\ Top.elapsed >= timers[s].remaining
    <3>1. /\ timers[s].remaining \in 1 .. timers[s].period
          /\ timers[s].period \in 1 .. Word - 1
      BY <1>1, <2>1, LiveTimer DEF TickExpire
    <3>2. Top.elapsed \in 1 .. Word - 1 /\ Top.elapsed >= timers[s].remaining
      BY <1>1, <2>1, TopFrame DEF TickExpire, Scanning, Expires, PoolInv, Frame
    <3> QED
      BY <3>1, <3>2, WordAssumption
  <2> DEFINE o == Top.elapsed - timers[s].remaining
  <2>4. o \in Nat
    BY <2>3
  <2>5. t.remaining = NextRemaining(timers[s].period, o)
    OBVIOUS
  <2>6. t.remaining \in Int
    BY <2>3, <2>4, <2>5, NextRemainingBounds
  <2>7. t.remaining - timers[s].remaining + Top.elapsed = t.remaining + o
    BY <2>3, <2>6
  <2> HIDE DEF o
  <2>8. (t.remaining + o) % timers[s].period = 0
    BY <2>3, <2>4, <2>5, PhaseArithmetic
  <2> QED
    BY <2>2, <2>7, <2>8
<1>2. PoolInv /\ [Next]_vars =>
        [\A s \in Slot :
           Scanning(s) /\ timers'[s].executed # timers[s].executed
             => (timers'[s].remaining - timers[s].remaining + Top.elapsed)
                   % timers[s].period = 0]_vars
  BY <1>1
<1> QED
  BY <1>2, PoolAlways, PTL DEF Spec, PhaseKept

-----------------------------------------------------------------------------
(* Ids, as long as next_id has not wrapped.                                *)

IdsInv ==
  /\ LiveIdsDistinct
  /\ \/ next_id = IdLimit
     \/ /\ next_id > 0
        /\ IdLimit = 0 \/ next_id < IdLimit
        /\ \A s \in Slot : timers[s].id < next_id

\* What one step other than a creation does to the ids of the pool.
LEMMA IdsStep ==
  ASSUME PoolInv, [Next]_vars,
         ~\E p \in Periods, periodic \in BOOLEAN : Create(p, periodic)
  PROVE  /\ next_id' = next_id
         /\ \A s \in Slot : timers'[s].id \in {timers[s].id, DS_TIMER_ID_INVALID}
<1>1. CASE Call
  <2> PICK s \in Slot, t \in Timer : CallOn(s, t)
    BY <1>1, CallEffect
  <2> QED
    BY DEF CallOn, Rewritten, Started, Retired, PoolInv, TypeOK
<1>2. CASE \E s \in Slot : TickCountdown(s)
  <2> PICK s \in Slot : TickCountdown(s)
    BY <1>2
  <2> PICK t \in Timer : /\ timers' = [timers EXCEPT ![s] = t]
                         /\ t = [timers[s] EXCEPT !.remaining = t.remaining]
    BY CountdownEffect
  <2>1. timers[s] \in Timer
    BY DEF PoolInv, TypeOK
  <2>2. t.id = timers[s].id
    BY <2>1 DEF Timer
  <2> QED
    BY <2>2 DEF TickCountdown, PoolInv, TypeOK
<1>3. CASE \E s \in Slot : TickExpire(s)
  <2> PICK s \in Slot : TickExpire(s)
    BY <1>3
  <2> PICK t \in Timer : /\ timers' = [timers EXCEPT ![s] = t]
                         /\ t.id = timers[s].id
    BY ExpireEffect
  <2> QED
    BY DEF TickExpire, PoolInv, TypeOK
<1>4. CASE CallbackReturn
  <2>1. Top.slot \in Slot
    BY <1>4, TopFrame DEF CallbackReturn, PoolInv, CallingInLoop, Top
  <2>2. timers[Top.slot] \in Timer
    BY <2>1 DEF PoolInv, TypeOK
  <2> QED
    BY <1>4, <2>1, <2>2 DEF CallbackReturn, PoolInv, TypeOK, Timer
<1>5. CASE UNCHANGED <<timers, next_id>>
  BY <1>5
<1> QED
  BY <1>1, <1>2, <1>3, <1>4, <1>5
  DEF Next, vars, TickBegin, TickStep, TickSkip, TickEnd

LEMMA IdsNext ==
  ASSUME IdLimit # Word
  PROVE  PoolInv /\ IdsInv /\ [Next]_vars => IdsInv'
<1> SUFFICES ASSUME PoolInv, IdsInv, [Next]_vars PROVE IdsInv'
  OBVIOUS
<1>0. (\A s \in Slot : timers[s].id \in Nat) /\ next_id \in 0 .. Word - 1
  BY WordAssumption DEF PoolInv, TypeOK, Timer
<1>1. CASE \E p \in Periods, periodic \in BOOLEAN : Create(p, periodic)
  <2> PICK s \in Slot, t \in Timer :
         /\ next_id # IdLimit
         /\ t.id = next_id
         /\ timers' = [timers EXCEPT ![s] = t]
         /\ next_id' = NextId(next_id)
    BY <1>1, CreateEffect
  <2>1. /\ next_id > 0 /\ (IdLimit = 0 \/ next_id < IdLimit)
        /\ \A r \in Slot : timers[r].id < next_id
    BY DEF IdsInv
  <2>2. timers'[s] = t /\ \A r \in Slot : r # s => timers'[r] = timers[r]
    BY DEF PoolInv, TypeOK
  <2>3. LiveIdsDistinct'
    BY <1>0, <2>1, <2>2 DEF IdsInv, LiveIdsDistinct, Live
  <2>4. CASE next_id = Word - 1
    <3>1. IdLimit = 0 /\ next_id' = 0
      BY <1>0, <2>1, <2>4, BoundAssumption, WordAssumption DEF NextId
    <3> QED
      BY <3>1, <2>3 DEF IdsInv
  <2>5. CASE next_id # Word - 1
    <3>1. next_id + 1 \in 1 .. Word - 1
      BY <1>0, <2>1, <2>5, WordAssumption
    <3>2. next_id' = next_id + 1
      BY <3>1, WordAssumption DEF NextId
    <3>3. \A r \in Slot : timers'[r].id < next_id'
      BY <1>0, <2>1, <2>2, <3>2
    <3>4. next_id' = IdLimit \/ IdLimit = 0 \/ next_id' < IdLimit
      BY <1>0, <2>1, <3>2, BoundAssumption, WordAssumption
    <3> QED
      BY <1>0, <2>3, <3>2, <3>3, <3>4 DEF IdsInv
  <2> QED
    BY <2>4, <2>5
<1>2. CASE ~\E p \in Periods, periodic \in BOOLEAN : Create(p, periodic)
  <2>1. /\ next_id' = next_id
        /\ \A s \in Slot : timers'[s].id \in {timers[s].id, DS_TIMER_ID_INVALID}
    BY <1>2, IdsStep
  <2>2. LiveIdsDistinct'
    BY <2>1 DEF IdsInv, LiveIdsDistinct, Live
  <2>3. next_id > 0 /\ (\A s \in Slot : timers[s].id < next_id)
          => \A s \in Slot : timers'[s].id < next_id'
    BY <1>0, <2>1 DEF DS_TIMER_ID_INVALID
  <2> QED
    BY <2>1, <2>2, <2>3 DEF IdsInv
<1> QED
  BY <1>1, <1>2

\* No two timers in use share an id until next_id has come round, whatever slots
\* callbacks free and reuse during a tick: it is distinct for each of the first
\* 2^32 - 1 creations, if that is as many as there are.
THEOREM IdsUnique ==
  ASSUME IdLimit # Word
  PROVE  Spec => []LiveIdsDistinct
<1>1. Init => IdsInv
  BY BoundAssumption DEF Init, IdsInv, LiveIdsDistinct, Live, ZeroTimer,
                         DS_TIMER_ID_INVALID
<1>2. PoolInv /\ IdsInv /\ [Next]_vars => IdsInv'
  BY IdsNext
<1>3. IdsInv => LiveIdsDistinct
  BY DEF IdsInv
<1> QED
  BY <1>1, <1>2, <1>3, PoolAlways, PTL DEF Spec
=============================================================================
