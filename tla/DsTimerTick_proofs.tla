------------------------- MODULE DsTimerTick_proofs -------------------------
(***************************************************************************)
(* What ds_timer_tick guarantees although the callbacks it makes change    *)
(* the pool it walks, proved with TLAPS for every capacity, word size,     *)
(* period and tick, callbacks that stop, delete, reset, start and replace  *)
(* their own timers included.  The theorems about which timers a tick      *)
(* calls back say what they assume about nested ticks.                     *)
(* The last part is about DsTimerIsr: a tick from an interrupt, in the     *)
(* middle of a call, does what it would do before or after that call, so   *)
(* that the theorems about DsTimer hold for it as well.                    *)
(***************************************************************************)
EXTENDS DsTimer_proofs, DsTimerIsr

-----------------------------------------------------------------------------
(* The timer whose callback is running.                                    *)

\* It is still in its slot unless a call has touched that slot meanwhile, and its
\* run is over if it has fired for the last time.
CallbackOf(k) ==
  /\ timers[frames[k].slot].id = frames[k].id \/ frames[k].slot \in frames[k].touched
  /\ armed[frames[k].slot] = "yes" => ~Finished(timers[frames[k].slot])

CallbackInv ==
  /\ ArmedRuns
  /\ \A k \in DOMAIN frames : frames[k].calling => CallbackOf(k)

\* A call on a timer, be it that of a running callback or another, which runs
\* afterwards if its start has promised so.
LEMMA CallbackKept ==
  ASSUME PoolInv, CallbackInv, NEW s \in Slot,
         NEW t \in Timer, timers' = [timers EXCEPT ![s] = t],
         NEW b \in Promise, armed' = [armed EXCEPT ![s] = b],
         b = "yes" => t.id # DS_TIMER_ID_INVALID /\ t.state = "RUNNING",
         b = "yes" /\ InCallback(s) => ~Finished(t),
         DOMAIN frames' = DOMAIN frames,
         \A k \in DOMAIN frames : /\ frames'[k].slot = frames[k].slot
                                  /\ frames'[k].calling = frames[k].calling
                                  /\ frames'[k].id = frames[k].id
                                  /\ frames[k].touched \subseteq frames'[k].touched,
         \/ t.id = timers[s].id
         \/ \A k \in DOMAIN frames : s \in frames'[k].touched
  PROVE  CallbackInv'
<1>1. \A r \in Slot : r # s => timers'[r] = timers[r] /\ armed'[r] = armed[r]
  BY DEF PoolInv, TypeOK
<1>2. timers'[s] = t /\ armed'[s] = b
  BY DEF PoolInv, TypeOK
<1>3. ArmedRuns'
  BY <1>1, <1>2 DEF CallbackInv, ArmedRuns, Running, Live
<1>4. ASSUME NEW k \in DOMAIN frames', frames'[k].calling
      PROVE  CallbackOf(k)'
  <2>1. /\ k \in DOMAIN frames /\ frames[k].calling /\ frames'[k].slot = frames[k].slot
        /\ frames'[k].id = frames[k].id /\ frames[k].touched \subseteq frames'[k].touched
    BY <1>4
  <2>2. frames[k].slot \in Slot /\ CallbackOf(k)
    BY <2>1 DEF PoolInv, CallingInLoop, CallbackInv
  <2>3. CASE frames[k].slot = s
    <3>1. InCallback(s)
      BY <2>1, <2>3 DEF InCallback
    <3>2. t.id = frames'[k].id \/ s \in frames'[k].touched
      BY <2>1, <2>2, <2>3 DEF CallbackOf
    <3> QED
      BY <1>2, <2>1, <2>3, <3>1, <3>2 DEF CallbackOf
  <2>4. CASE frames[k].slot # s
    <3>1. /\ timers'[frames[k].slot] = timers[frames[k].slot]
          /\ armed'[frames[k].slot] = armed[frames[k].slot]
      BY <1>1, <2>2, <2>4
    <3> QED
      BY <2>1, <2>2, <3>1 DEF CallbackOf
  <2> QED
    BY <2>3, <2>4
<1> QED
  BY <1>3, <1>4 DEF CallbackInv

LEMMA CallbackCreate ==
  ASSUME PoolInv, CallbackInv,
         NEW p \in Periods, NEW periodic \in BOOLEAN, Create(p, periodic)
  PROVE  CallbackInv'
<1> PICK s \in Slot, t \in Timer :
      /\ timers' = [timers EXCEPT ![s] = t]
      /\ armed' = [armed EXCEPT ![s] = "no"]
      /\ Touch(s)
  BY CreateEffect
<1>1. "no" \in Promise
  BY DEF Promise
<1>2. /\ DOMAIN frames' = DOMAIN frames
      /\ \A k \in DOMAIN frames : /\ frames'[k].slot = frames[k].slot
                                  /\ frames'[k].calling = frames[k].calling
                                  /\ frames'[k].id = frames[k].id
                                  /\ frames[k].touched \subseteq frames'[k].touched
                                  /\ s \in frames'[k].touched
  BY TouchFrames DEF PoolInv
<1> QED
  BY <1>1, <1>2, CallbackKept

LEMMA CallbackCall ==
  ASSUME PoolInv, CallbackInv, NEW s \in Slot, NEW t \in Timer, CallOn(s, t)
  PROVE  CallbackInv'
<1>1. /\ DOMAIN frames' = DOMAIN frames
      /\ \A k \in DOMAIN frames : /\ frames'[k].slot = frames[k].slot
                                  /\ frames'[k].calling = frames[k].calling
                                  /\ frames'[k].id = frames[k].id
                                  /\ frames[k].touched \subseteq frames'[k].touched
      /\ \/ t.id = timers[s].id
         \/ \A k \in DOMAIN frames : s \in frames'[k].touched
  <2>1. CASE Touch(s)
    BY <2>1, TouchFrames DEF PoolInv
  <2>2. CASE UNCHANGED frames /\ t.id = timers[s].id
    BY <2>2
  <2> QED
    BY <2>1, <2>2 DEF CallOn, Rewritten, Started, Retired
<1>2. PICK b \in Promise :
        /\ armed' = [armed EXCEPT ![s] = b]
        /\ b = "yes" => t.id # DS_TIMER_ID_INVALID /\ t.state = "RUNNING"
        /\ b = "yes" /\ InCallback(s) => ~Finished(t)
  <2>1. CASE Rewritten(s, t)
    <3>1. armed[s] # "yes" /\ armed[s] \in Promise
      BY <2>1 DEF Rewritten, CallbackInv, ArmedRuns, Running, PoolInv, TypeOK
    <3>2. armed' = [armed EXCEPT ![s] = armed[s]]
      BY <2>1 DEF Rewritten, PoolInv, TypeOK
    <3> QED
      BY <3>1, <3>2
  <2>2. CASE Started(s, t)
    <3>1. t.id # DS_TIMER_ID_INVALID /\ t.state = "RUNNING"
      BY <2>2 DEF Started, CallOn, Live
    <3>2. Finished(t) = Finished(timers[s])
      BY <2>2 DEF Started, Finished
    <3>3. CASE InCallback(s) /\ Finished(timers[s])
      <4>1. armed' = [armed EXCEPT ![s] = "again"] /\ "again" \in Promise
        BY <2>2, <3>3 DEF Started, Promise
      <4> QED
        BY <4>1
    <3>4. CASE ~(InCallback(s) /\ Finished(timers[s]))
      <4>1. armed' = [armed EXCEPT ![s] = "yes"] /\ "yes" \in Promise
        BY <2>2, <3>4 DEF Started, Promise
      <4> QED
        BY <3>1, <3>2, <3>4, <4>1
    <3> QED
      BY <3>3, <3>4
  <2>3. CASE Retired(s, t)
    BY <2>3 DEF Retired, Promise
  <2> QED
    BY <2>1, <2>2, <2>3 DEF CallOn
<1> QED
  BY <1>1, <1>2, CallbackKept DEF CallOn

\* A step of a loop keeps the id and the end of the timer it looks at.
LEMMA CallbackTick ==
  ASSUME PoolInv, CallbackInv, ~Idle, Top.slot \in Slot, NextSlot,
         UNCHANGED armed,
         \A r \in Slot : /\ timers'[r].id = timers[r].id
                         /\ Finished(timers'[r]) = Finished(timers[r])
                         /\ armed[r] = "yes" => timers'[r].state = timers[r].state
  PROVE  CallbackInv'
<1>1. ArmedRuns'
  BY DEF CallbackInv, ArmedRuns, Running, Live
<1>2. /\ DOMAIN frames' = DOMAIN frames
      /\ frames'[Len(frames)].calling = FALSE
      /\ \A k \in DOMAIN frames : k # Len(frames) => frames'[k] = frames[k]
  BY NextSlotFrames
<1>3. ASSUME NEW k \in DOMAIN frames', frames'[k].calling
      PROVE  CallbackOf(k)'
  <2>1. k \in DOMAIN frames /\ frames'[k] = frames[k]
    BY <1>2, <1>3
  <2>2. frames[k].slot \in Slot
    BY <1>3, <2>1 DEF PoolInv, CallingInLoop
  <2>3. CallbackOf(k)
    BY <1>3, <2>1 DEF CallbackInv
  <2> QED
    BY <2>1, <2>2, <2>3 DEF CallbackOf
<1> QED
  BY <1>1, <1>3 DEF CallbackInv

LEMMA CallbackSkip ==
  ASSUME PoolInv, CallbackInv, NEW s \in Slot, TickSkip(s)
  PROVE  CallbackInv'
BY CallbackTick DEF TickSkip, Scanning

LEMMA CallbackCountdown ==
  ASSUME PoolInv, CallbackInv, NEW s \in Slot, TickCountdown(s)
  PROVE  CallbackInv'
<1> PICK t \in Timer : /\ timers' = [timers EXCEPT ![s] = t]
                       /\ t = [timers[s] EXCEPT !.remaining = t.remaining]
  BY CountdownEffect
<1>1. timers[s] \in Timer
  BY DEF PoolInv, TypeOK
<1>2. /\ t.id = timers[s].id /\ t.state = timers[s].state
      /\ t.periodic = timers[s].periodic /\ t.repeat = timers[s].repeat
      /\ t.executed = timers[s].executed
  BY <1>1 DEF Timer
<1>3. Finished(t) = Finished(timers[s])
  BY <1>2 DEF Finished
<1>4. \A r \in Slot : /\ timers'[r].id = timers[r].id
                      /\ Finished(timers'[r]) = Finished(timers[r])
                      /\ armed[r] = "yes" => timers'[r].state = timers[r].state
  <2>1. timers'[s] = t /\ \A r \in Slot : r # s => timers'[r] = timers[r]
    BY DEF PoolInv, TypeOK
  <2> QED
    BY <1>2, <1>3, <2>1
<1> QED
  BY <1>4, CallbackTick DEF TickCountdown, Scanning

LEMMA CallbackExpire ==
  ASSUME PoolInv, CallbackInv, NEW s \in Slot, TickExpire(s)
  PROVE  CallbackInv'
<1> PICK t \in Timer :
      /\ timers' = [timers EXCEPT ![s] = t]
      /\ armed' = [armed EXCEPT ![s] = IF Finished(t) THEN "no" ELSE @]
      /\ t.id = timers[s].id /\ t.state = timers[s].state
  BY ExpireEffect
<1>1. timers'[s] = t /\ \A r \in Slot : r # s => timers'[r] = timers[r]
  BY DEF PoolInv, TypeOK
<1>2. /\ armed'[s] = "yes" => armed[s] = "yes" /\ ~Finished(t)
      /\ \A r \in Slot : r # s => armed'[r] = armed[r]
  BY DEF PoolInv, TypeOK
<1>3. ArmedRuns'
  BY <1>1, <1>2 DEF CallbackInv, ArmedRuns, Running, Live
<1>4. /\ Len(frames) \in DOMAIN frames /\ Top = frames[Len(frames)]
      /\ Top.slot = s /\ Live(s)
  BY TopFrame DEF TickExpire, Scanning, PoolInv, Top
<1>5. ASSUME NEW k \in DOMAIN frames', frames'[k].calling
      PROVE  CallbackOf(k)'
  <2>1. /\ k \in DOMAIN frames /\ frames'[k].slot = frames[k].slot
        /\ frames'[k].touched = frames[k].touched
        /\ frames[k].calling \/ k = Len(frames)
        /\ frames'[k].id = IF k = Len(frames) THEN timers[s].id ELSE frames[k].id
    <3>1. k \in DOMAIN frames
      BY ExpireFrames
    <3>2. frames'[k].calling = (frames[k].calling \/ k = Len(frames))
      BY <3>1, ExpireFrames
    <3>3. frames[k].calling \/ k = Len(frames)
      BY <1>5, <3>2
    <3> QED
      BY <3>1, <3>3, ExpireFrames
  <2>2. CASE k = Len(frames)
    BY <1>1, <1>2, <1>4, <2>1, <2>2 DEF CallbackOf
  <2>3. CASE k # Len(frames)
    <3>1. frames[k].slot \in Slot /\ CallbackOf(k)
      BY <2>1, <2>3 DEF CallbackInv, PoolInv, CallingInLoop
    <3>2. CASE frames[k].slot = s
      BY <1>1, <1>2, <2>1, <2>3, <3>1, <3>2 DEF CallbackOf
    <3>3. CASE frames[k].slot # s
      BY <1>1, <1>2, <2>1, <2>3, <3>1, <3>3 DEF CallbackOf
    <3> QED
      BY <3>2, <3>3
  <2> QED
    BY <2>2, <2>3
<1> QED
  BY <1>3, <1>5 DEF CallbackInv

\* After a callback: what is marked EXPIRED is in the slot of that callback, it is
\* the timer that fired or has touched the slot since, and its run is over.
LEMMA CallbackEnds ==
  ASSUME PoolInv, CallbackInv, CallbackReturn
  PROVE  /\ CallbackInv'
         /\ \A s \in Slot :
              (timers[s].state # "EXPIRED" /\ timers'[s].state = "EXPIRED")
                => /\ s = Top.slot
                   /\ timers[s].id = Top.id \/ s \in Top.touched
                   /\ timers[s].periodic
                        => timers[s].repeat > 0 /\ timers[s].executed > 0
<1>1. /\ Len(frames) \in DOMAIN frames /\ Top = frames[Len(frames)]
      /\ ~Idle /\ Top.calling
  BY TopFrame DEF CallbackReturn, PoolInv, Top
<1> DEFINE s == Top.slot
           t == [timers[s] EXCEPT !.state = "EXPIRED"]
<1>2. /\ s \in Slot
      /\ timers[s].id = Top.id \/ s \in Top.touched
      /\ armed[s] = "yes" => ~Finished(timers[s])
  BY <1>1 DEF CallbackInv, CallbackOf, PoolInv, CallingInLoop
<1>3. timers[s] \in Timer
  BY <1>2 DEF PoolInv, TypeOK
<1>4. /\ t.id = timers[s].id /\ t.periodic = timers[s].periodic
      /\ t.repeat = timers[s].repeat /\ t.executed = timers[s].executed
  BY <1>3 DEF Timer
<1>5. Finished(t) = Finished(timers[s])
  BY <1>4 DEF Finished
<1>6. \/ timers' = timers
      \/ Finished(timers[s]) /\ timers' = [timers EXCEPT ![s] = t]
  BY <1>2 DEF CallbackReturn, PoolInv, TypeOK
<1> HIDE DEF t
<1>7. \A r \in Slot : r # s => timers'[r] = timers[r]
  BY <1>6 DEF PoolInv, TypeOK
<1>8. \/ timers'[s] = timers[s]
      \/ Finished(timers[s]) /\ timers'[s] = t
  BY <1>2, <1>6 DEF PoolInv, TypeOK
<1> HIDE DEF s
<1>9. \A r \in Slot : /\ timers'[r].id = timers[r].id
                      /\ Finished(timers'[r]) = Finished(timers[r])
                      /\ armed[r] = "yes" => timers'[r].state = timers[r].state
  BY <1>2, <1>4, <1>5, <1>7, <1>8
<1>10. CallbackInv'
  BY <1>1, <1>2, <1>9, CallbackTick DEF CallbackReturn, s
<1>11. Finished(timers[s]) /\ timers[s].periodic
          => timers[s].repeat > 0 /\ timers[s].executed > 0
  <2>1. timers[s].repeat \in Nat /\ timers[s].executed \in Nat
    BY <1>3, WordAssumption DEF Timer
  <2> QED
    BY <2>1 DEF Finished
<1>12. ASSUME NEW r \in Slot, timers[r].state # "EXPIRED", timers'[r].state = "EXPIRED"
       PROVE  r = s /\ Finished(timers[s])
  BY <1>7, <1>8, <1>12
<1> QED
  BY <1>2, <1>10, <1>11, <1>12 DEF s

\* Nothing else ends a run.
LEMMA ExpiresOnReturn ==
  ASSUME PoolInv, [Next]_vars, ~CallbackReturn, NEW s \in Slot,
         timers[s].state # "EXPIRED"
  PROVE  timers'[s].state # "EXPIRED"
<1>1. CASE Call
  <2>1. CASE \E p \in Periods, periodic \in BOOLEAN : Create(p, periodic)
    <3> PICK r \in Slot, t \in Timer :
          timers' = [timers EXCEPT ![r] = t] /\ t.state = "STOPPED"
      BY <2>1, CreateEffect
    <3> QED
      BY DEF PoolInv, TypeOK
  <2>2. CASE \E r \in Slot, t \in Timer : CallOn(r, t)
    <3> PICK r \in Slot, t \in Timer : CallOn(r, t)
      BY <2>2
    <3>1. timers' = [timers EXCEPT ![r] = t] /\ t.state \in {"STOPPED", "RUNNING"}
      BY DEF CallOn, Rewritten, Started, Retired
    <3> QED
      BY <3>1 DEF PoolInv, TypeOK
  <2> QED
    BY <1>1, <2>1, <2>2, CallEffect
<1>2. CASE \E r \in Slot : TickCountdown(r)
  <2> PICK r \in Slot : TickCountdown(r)
    BY <1>2
  <2> PICK t \in Timer : /\ timers' = [timers EXCEPT ![r] = t]
                         /\ t = [timers[r] EXCEPT !.remaining = t.remaining]
    BY CountdownEffect
  <2>1. timers[r] \in Timer
    BY DEF PoolInv, TypeOK
  <2>2. t.state = timers[r].state
    BY <2>1 DEF Timer
  <2> QED
    BY <2>2 DEF PoolInv, TypeOK
<1>3. CASE \E r \in Slot : TickExpire(r)
  <2> PICK r \in Slot : TickExpire(r)
    BY <1>3
  <2> PICK t \in Timer : /\ timers' = [timers EXCEPT ![r] = t]
                         /\ t.state = timers[r].state
    BY ExpireEffect
  <2> QED
    BY DEF PoolInv, TypeOK
<1>4. CASE UNCHANGED timers
  BY <1>4
<1> QED
  BY <1>1, <1>2, <1>3, <1>4
  DEF Next, vars, TickBegin, TickStep, TickSkip, TickEnd

LEMMA CallbackNext == PoolInv /\ CallbackInv /\ [Next]_vars => CallbackInv'
<1> SUFFICES ASSUME PoolInv, CallbackInv, [Next]_vars PROVE CallbackInv'
  OBVIOUS
<1>1. CASE Call
  BY <1>1, CallEffect, CallbackCreate, CallbackCall
<1>2. CASE \E e \in Elapses : TickBegin(e)
  <2> PICK e \in Elapses : TickBegin(e)
    BY <1>2
  <2> DEFINE n == Len(frames)
  <2>1. /\ n \in Nat /\ DOMAIN frames = 1 .. n /\ DOMAIN frames' = 1 .. n + 1
        /\ \A k \in 1 .. n : /\ frames'[k].slot = frames[k].slot
                             /\ frames'[k].calling = frames[k].calling
                             /\ frames'[k].touched = Slot
        /\ frames'[n + 1].calling = FALSE
    BY TickBeginFrames
  <2> HIDE DEF n
  <2>2. UNCHANGED <<timers, armed>>
    BY DEF TickBegin
  <2>3. \A k \in 1 .. n + 1 : k \in 1 .. n \/ k = n + 1
    BY <2>1
  <2>4. ArmedRuns'
    BY <2>2 DEF CallbackInv, ArmedRuns, Running, Live
  <2>5. ASSUME NEW k \in DOMAIN frames', frames'[k].calling
        PROVE  CallbackOf(k)'
    <3>1. k \in DOMAIN frames /\ frames[k].calling /\ frames'[k].slot = frames[k].slot
          /\ frames'[k].touched = Slot
      BY <2>1, <2>3, <2>5
    <3>2. CallbackOf(k) /\ frames[k].slot \in Slot
      BY <3>1 DEF CallbackInv, PoolInv, CallingInLoop
    <3> QED
      BY <2>2, <3>1, <3>2 DEF CallbackOf
  <2> QED
    BY <2>4, <2>5 DEF CallbackInv
<1>3. CASE TickStep
  <2>1. CASE TickEnd
    BY <2>1, TickEndFrames DEF TickEnd, PoolInv, CallbackInv, CallbackOf, ArmedRuns, Running, Live
  <2> QED
    BY <1>3, <2>1, CallbackSkip, CallbackCountdown, CallbackExpire DEF TickStep
<1>4. CASE CallbackReturn
  BY <1>4, CallbackEnds
<1>5. CASE UNCHANGED vars
  BY <1>5 DEF vars, CallbackInv, CallbackOf, ArmedRuns, Running, Live
<1> QED
  BY <1>1, <1>2, <1>3, <1>4, <1>5 DEF Next

LEMMA CallbackAlways == Spec => []CallbackInv
<1>1. Init => CallbackInv
  BY EmptySeq DEF Init, CallbackInv, ArmedRuns
<1> QED
  BY <1>1, CallbackNext, PoolAlways, PTL DEF Spec

\* A timer whose start returned DS_OK stays in service until it has fired for
\* the last time or is stopped, deleted or reset, whatever callbacks do to their
\* own and to other timers and however deep ticks nest.
THEOREM ArmedTimersRun == Spec => []ArmedRuns
<1>1. CallbackInv => ArmedRuns
  BY DEF CallbackInv
<1> QED
  BY <1>1, CallbackAlways, PTL

\* The write after a callback hits the slot of that callback only, and there the
\* timer that fired or one that a call has put there since; a periodic timer only
\* if it is limited and has fired.
THEOREM OnlyTheFiredExpire == Spec => ExpiresTheTimerThatFired
<1>1. PoolInv /\ CallbackInv /\ [Next]_vars =>
        [\A s \in Slot :
           (timers[s].state # "EXPIRED" /\ timers'[s].state = "EXPIRED")
             => /\ s = Top.slot
                /\ timers[s].id = Top.id \/ s \in Top.touched
                /\ timers[s].periodic
                     => timers[s].repeat > 0 /\ timers[s].executed > 0]_vars
  BY CallbackEnds, ExpiresOnReturn
<1> QED
  BY <1>1, PoolAlways, CallbackAlways, PTL DEF Spec, ExpiresTheTimerThatFired

-----------------------------------------------------------------------------
(* The timers a tick owes a callback.                                      *)

\* They lie ahead of the loop, are still due, and no callback in progress can
\* mark them EXPIRED when it returns.
OwedAhead(k) ==
  \A s \in frames[k].owed :
    /\ frames[k].slot <= s
    /\ Live(s) /\ timers[s].state = "RUNNING"
    /\ timers[s].remaining <= frames[k].elapsed

OwedInv ==
  /\ \A k \in DOMAIN frames : OwedAhead(k)
  /\ \A j, k \in DOMAIN frames :
       k <= j /\ frames[j].calling => frames[j].slot \notin frames[k].owed

\* A step on timer s that withdraws it from what is owed, and moves no loop.
LEMMA OwedKept ==
  ASSUME PoolInv, OwedInv, NEW s \in Slot,
         \A r \in Slot : r # s => timers'[r] = timers[r],
         DOMAIN frames' = DOMAIN frames,
         \A k \in DOMAIN frames :
           /\ frames'[k].slot = frames[k].slot
           /\ frames'[k].calling
                => frames[k].calling \/ frames[k].slot = s
           /\ frames'[k].elapsed = frames[k].elapsed
           /\ frames'[k].owed \subseteq frames[k].owed \ {s}
  PROVE  OwedInv'
<1>1. ASSUME NEW k \in DOMAIN frames', NEW r \in frames'[k].owed
      PROVE  /\ frames'[k].slot <= r
             /\ Live(r)' /\ timers'[r].state = "RUNNING"
             /\ timers'[r].remaining <= frames'[k].elapsed
  <2>1. k \in DOMAIN frames /\ r \in frames[k].owed /\ r # s
    BY <1>1
  <2>2. r \in Slot
    BY <2>1, FrameTypes DEF PoolInv
  <2>3. timers'[r] = timers[r]
    BY <2>1, <2>2
  <2> QED
    BY <2>1, <2>3 DEF OwedInv, OwedAhead, Live
<1>2. ASSUME NEW j \in DOMAIN frames', NEW k \in DOMAIN frames',
             k <= j, frames'[j].calling
      PROVE  frames'[j].slot \notin frames'[k].owed
  BY <1>2 DEF OwedInv
<1> QED
  BY <1>1, <1>2 DEF OwedInv, OwedAhead

LEMMA OwedCall ==
  ASSUME PoolInv, OwedInv, Call
  PROVE  OwedInv'
<1>1. CASE \E s \in Slot, t \in Timer :
             timers' = [timers EXCEPT ![s] = t] /\ Touch(s)
  <2> PICK s \in Slot, t \in Timer :
        timers' = [timers EXCEPT ![s] = t] /\ Touch(s)
    BY <1>1
  <2>1. \A r \in Slot : r # s => timers'[r] = timers[r]
    BY DEF PoolInv, TypeOK
  <2> QED
    BY <2>1, TouchFrames, OwedKept DEF PoolInv
<1>2. CASE UNCHANGED <<timers, frames>>
  BY <1>2 DEF OwedInv, OwedAhead, Live
<1>3. CASE \E s \in Slot, t \in Timer :
             /\ timers' = [timers EXCEPT ![s] = t]
             /\ timers[s].state = "STOPPED"
             /\ UNCHANGED frames
  <2> PICK s \in Slot, t \in Timer :
        /\ timers' = [timers EXCEPT ![s] = t]
        /\ timers[s].state = "STOPPED"
        /\ UNCHANGED frames
    BY <1>3
  <2>1. \A k \in DOMAIN frames : s \notin frames[k].owed
    BY DEF OwedInv, OwedAhead
  <2>2. \A r \in Slot : r # s => timers'[r] = timers[r]
    BY DEF PoolInv, TypeOK
  <2> QED
    BY <2>1, <2>2, OwedKept
<1>4. CASE \E s \in Slot, t \in Timer : CallOn(s, t)
  <2> PICK s \in Slot, t \in Timer : CallOn(s, t)
    BY <1>4
  <2>1. CASE Rewritten(s, t)
    BY <1>3, <2>1 DEF CallOn, Rewritten
  <2>2. CASE Touch(s)
    BY <1>1, <2>2 DEF CallOn
  <2>3. CASE UNCHANGED frames /\ t = timers[s]
    <3>1. timers' = timers
      BY <2>3 DEF CallOn, PoolInv, TypeOK
    <3> QED
      BY <1>2, <2>3, <3>1
  <2> QED
    BY <2>1, <2>2, <2>3 DEF CallOn, Started, Retired
<1>5. CASE \E p \in Periods, periodic \in BOOLEAN : Create(p, periodic)
  BY <1>1, <1>5, CreateEffect
<1> QED
  BY <1>4, <1>5, CallEffect

LEMMA OwedTickBegin ==
  ASSUME PoolInv, OwedInv, NEW e \in Elapses, TickBegin(e)
  PROVE  OwedInv'
<1> DEFINE n == Len(frames)
<1>1. /\ n \in Nat /\ DOMAIN frames = 1 .. n /\ DOMAIN frames' = 1 .. n + 1
      /\ \A k \in 1 .. n : /\ frames'[k].slot = frames[k].slot
                           /\ frames'[k].calling = frames[k].calling
                           /\ frames'[k].elapsed = frames[k].elapsed
                           /\ frames'[k].owed = frames[k].owed
      /\ frames'[n + 1].slot = 0
      /\ frames'[n + 1].calling = FALSE
      /\ frames'[n + 1].elapsed = e
      /\ frames'[n + 1].owed = DueWithin(e)
  BY TickBeginFrames
<1> HIDE DEF n
<1>2. UNCHANGED timers
  BY DEF TickBegin
<1>3. ASSUME NEW k \in DOMAIN frames' PROVE OwedAhead(k)'
  <2>1. CASE k \in 1 .. n
    BY <1>1, <1>2, <2>1 DEF OwedInv, OwedAhead, Live
  <2>2. CASE k = n + 1
    <3>1. \A s \in DueWithin(e) :
            /\ s \in Slot /\ 0 <= s
            /\ Live(s) /\ timers[s].state = "RUNNING"
            /\ timers[s].remaining <= e
      BY CapacityAssumption DEF DueWithin, Slot
    <3> QED
      BY <1>1, <1>2, <2>2, <3>1 DEF OwedAhead, Live
  <2> QED
    BY <1>1, <2>1, <2>2
<1>4. ASSUME NEW j \in DOMAIN frames', NEW k \in DOMAIN frames',
             k <= j, frames'[j].calling
      PROVE  frames'[j].slot \notin frames'[k].owed
  <2>1. j \in 1 .. n
    BY <1>1, <1>4
  <2>2. k \in 1 .. n
    BY <1>1, <1>4, <2>1
  <2> QED
    BY <1>1, <1>4, <2>1, <2>2 DEF OwedInv
<1> QED
  BY <1>3, <1>4 DEF OwedInv

\* The loop leaves a slot behind that it owes nothing.
LEMMA OwedNextSlot ==
  ASSUME PoolInv, OwedInv, ~Idle, Top.slot \in Slot, NextSlot,
         \A k \in DOMAIN frames : Top.slot \in frames[k].owed =>
           /\ k # Len(frames)
           /\ timers'[Top.slot].id # DS_TIMER_ID_INVALID
           /\ timers'[Top.slot].state = "RUNNING"
           /\ timers'[Top.slot].remaining <= frames[k].elapsed,
         \A r \in Slot : r # Top.slot => timers'[r] = timers[r]
  PROVE  OwedInv'
<1> DEFINE n == Len(frames)
<1>1. /\ DOMAIN frames' = DOMAIN frames
      /\ frames'[n].slot = Top.slot + 1
      /\ frames'[n].calling = FALSE
      /\ frames'[n].elapsed = Top.elapsed
      /\ frames'[n].owed = Top.owed
      /\ \A k \in DOMAIN frames : k # n => frames'[k] = frames[k]
  BY NextSlotFrames
<1>2. n \in DOMAIN frames /\ Top = frames[n] /\ \A k \in DOMAIN frames : frames[k].owed \subseteq Slot
  <2>1. \A k \in DOMAIN frames : frames[k] \in Frame
    BY LenProperties, ElementOfSeq DEF PoolInv, TypeOK
  <2> QED
    BY <2>1, TopFrame DEF PoolInv, Top, Frame
<1> HIDE DEF n
<1>3. ASSUME NEW k \in DOMAIN frames', NEW r \in frames'[k].owed
      PROVE  /\ frames'[k].slot <= r
             /\ Live(r)' /\ timers'[r].state = "RUNNING"
             /\ timers'[r].remaining <= frames'[k].elapsed
  <2>1. k \in DOMAIN frames /\ r \in frames[k].owed /\ r \in Slot
        /\ frames'[k].elapsed = frames[k].elapsed
    BY <1>1, <1>2, <1>3
  <2>2. frames[k].slot <= r /\ (Live(r) /\ timers[r].state = "RUNNING"
        /\ timers[r].remaining <= frames[k].elapsed)
    BY <2>1 DEF OwedInv, OwedAhead
  <2>3. Live(r)' /\ timers'[r].state = "RUNNING"
        /\ timers'[r].remaining <= frames'[k].elapsed
    <3>1. CASE r = Top.slot
      BY <2>1, <3>1 DEF Live
    <3>2. CASE r # Top.slot
      BY <2>1, <2>2, <3>2 DEF Live
    <3> QED
      BY <3>1, <3>2
  <2>4. frames'[k].slot <= r
    <3>1. CASE k = n
      <4>1. r # Top.slot /\ Top.slot <= r
        BY <1>2, <2>1, <2>2, <3>1 DEF n
      <4>2. Top.slot \in Int /\ r \in Int
        BY <2>1 DEF Slot
      <4> QED
        BY <1>1, <3>1, <4>1, <4>2
    <3>2. CASE k # n
      BY <1>1, <2>1, <2>2, <3>2
    <3> QED
      BY <3>1, <3>2
  <2> QED
    BY <2>3, <2>4
<1>4. ASSUME NEW j \in DOMAIN frames', NEW k \in DOMAIN frames',
             k <= j, frames'[j].calling
      PROVE  frames'[j].slot \notin frames'[k].owed
  <2>1. j \in DOMAIN frames /\ frames'[j] = frames[j] /\ frames'[k].owed = frames[k].owed
    BY <1>1, <1>2, <1>4
  <2> QED
    BY <1>1, <1>4, <2>1 DEF OwedInv
<1> QED
  BY <1>3, <1>4 DEF OwedInv, OwedAhead

LEMMA OwedNext == PoolInv /\ OwedInv /\ [Next]_vars => OwedInv'
<1> SUFFICES ASSUME PoolInv, OwedInv, [Next]_vars PROVE OwedInv'
  OBVIOUS
<1>1. CASE Call
  BY <1>1, OwedCall
<1>2. CASE \E e \in Elapses : TickBegin(e)
  BY <1>2, OwedTickBegin
<1>3. CASE \E s \in Slot : TickSkip(s)
  <2> PICK s \in Slot : TickSkip(s)
    BY <1>3
  <2>1. \A k \in DOMAIN frames : s \notin frames[k].owed
    BY DEF TickSkip, OwedInv, OwedAhead
  <2> QED
    BY <2>1, OwedNextSlot DEF TickSkip, Scanning
<1>4. CASE \E s \in Slot : TickCountdown(s)
  <2> PICK s \in Slot : TickCountdown(s)
    BY <1>4
  <2> PICK t \in Timer :
        /\ timers' = [timers EXCEPT ![s] = t]
        /\ t = [timers[s] EXCEPT !.remaining = t.remaining]
        /\ t.remaining \in 1 .. t.period
        /\ t.remaining < timers[s].remaining
    BY CountdownEffect
  <2>1. timers[s] \in Timer /\ timers'[s] = t
        /\ \A r \in Slot : r # s => timers'[r] = timers[r]
    BY DEF PoolInv, TypeOK
  <2>2. /\ t.id = timers[s].id /\ t.state = timers[s].state
        /\ t.remaining \in Int /\ timers[s].remaining \in Int
    BY <2>1 DEF Timer
  <2>3. ASSUME NEW k \in DOMAIN frames, s \in frames[k].owed
        PROVE  /\ k # Len(frames)
               /\ timers'[s].id # DS_TIMER_ID_INVALID
               /\ timers'[s].state = "RUNNING"
               /\ timers'[s].remaining <= frames[k].elapsed
    <3>1. Live(s) /\ timers[s].state = "RUNNING"
          /\ timers[s].remaining <= frames[k].elapsed
      BY <2>3 DEF OwedInv, OwedAhead
    <3>2. frames[k].elapsed \in Int
      BY FrameTypes, WordAssumption DEF PoolInv
    <3>3. Top.elapsed \in Int /\ ~(Top.elapsed >= timers[s].remaining)
      BY TopFrame DEF TickCountdown, Scanning, Expires, PoolInv, Frame
    <3>4. k # Len(frames)
      BY <2>2, <3>1, <3>3 DEF Top
    <3> QED
      BY <2>1, <2>2, <3>1, <3>2, <3>4 DEF Live
  <2> QED
    BY <2>1, <2>3, OwedNextSlot DEF TickCountdown, Scanning
<1>5. CASE \E s \in Slot : TickExpire(s)
  <2> PICK s \in Slot : TickExpire(s)
    BY <1>5
  <2>1. \A r \in Slot : r # s => timers'[r] = timers[r]
    BY ExpireEffect DEF PoolInv, TypeOK
  <2>2. /\ DOMAIN frames' = DOMAIN frames
        /\ \A k \in DOMAIN frames :
             /\ frames'[k].slot = frames[k].slot
             /\ frames'[k].calling = (frames[k].calling \/ k = Len(frames))
             /\ frames'[k].elapsed = frames[k].elapsed
             /\ frames'[k].owed = frames[k].owed \ {s}
    BY ExpireFrames
  <2>3. frames[Len(frames)].slot = s
    BY DEF TickExpire, Scanning, Top
  <2>4. ASSUME NEW k \in DOMAIN frames, frames'[k].calling
        PROVE  frames[k].calling \/ frames[k].slot = s
    BY <2>2, <2>3, <2>4
  <2> QED
    BY <2>1, <2>2, <2>4, OwedKept
<1>6. CASE TickEnd
  <2>1. UNCHANGED timers
    BY <1>6 DEF TickEnd
  <2> QED
    BY <1>6, <2>1, TickEndFrames DEF PoolInv, OwedInv, OwedAhead, Live
<1>7. CASE CallbackReturn
  <2>1. /\ Len(frames) \in DOMAIN frames /\ Top = frames[Len(frames)]
        /\ DOMAIN frames = 1 .. Len(frames) /\ ~Idle /\ Top.calling
        /\ Len(frames) \in Nat
    BY <1>7, TopFrame DEF CallbackReturn, PoolInv, Top
  <2>2. Top.slot \in Slot
    BY <2>1 DEF PoolInv, CallingInLoop
  <2>3. \A k \in DOMAIN frames : Top.slot \notin frames[k].owed
    BY <2>1 DEF OwedInv
  <2>4. \A r \in Slot : r # Top.slot => timers'[r] = timers[r]
    BY <1>7 DEF CallbackReturn, PoolInv, TypeOK
  <2> QED
    BY <1>7, <2>1, <2>2, <2>3, <2>4, OwedNextSlot DEF CallbackReturn
<1>8. CASE UNCHANGED vars
  BY <1>8 DEF vars, OwedInv, OwedAhead, Live
<1> QED
  BY <1>1, <1>2, <1>3, <1>4, <1>5, <1>6, <1>7, <1>8 DEF Next, TickStep

LEMMA OwedAlways == Spec => []OwedInv
<1>1. Init => OwedInv
  BY EmptySeq DEF Init, OwedInv
<1> QED
  BY <1>1, OwedNext, PoolAlways, PTL DEF Spec

\* When ds_timer_tick returns it has called back every timer that was due as
\* it began, unless a callback touched the timer meanwhile: whatever callbacks
\* do, their own timers and nested ticks included.
THEOREM DueTimersAlwaysFired == Spec => []DueTimersFired
<1>1. PoolInv /\ OwedInv => DueTimersFired
  <2> SUFFICES ASSUME PoolInv, OwedInv, NEW k \in DOMAIN frames,
                      frames[k].slot = Capacity, NEW s \in frames[k].owed
               PROVE  FALSE
    BY DEF DueTimersFired
  <2>1. s \in Slot
    BY FrameTypes DEF PoolInv
  <2>2. Capacity <= s
    BY DEF OwedInv, OwedAhead
  <2> QED
    BY <2>1, <2>2, CapacityAssumption DEF Slot
<1> QED
  BY <1>1, PoolAlways, OwedAlways, PTL

-----------------------------------------------------------------------------
(* The timers a tick must leave alone.                                     *)

\* Timer s is neither owed a callback by tick k nor touched since it began.
Unclaimed(k, s) ==
  /\ frames[k].slot <= s
  /\ ~(frames[k].calling /\ frames[k].slot = s)
  /\ s \notin frames[k].owed \cup frames[k].touched

\* Such a timer ahead of the loop is not due.
NotDue(k, s) ==
  \/ ~Live(s)
  \/ timers[s].state # "RUNNING"
  \/ timers[s].remaining > frames[k].elapsed

DueInv ==
  /\ Len(frames) <= 1
  /\ \A k \in DOMAIN frames, s \in Slot : Unclaimed(k, s) => NotDue(k, s)

\* A step on timer s after which no tick makes a claim about it.
LEMMA DueKept ==
  ASSUME PoolInv, DueInv, NEW s \in Slot,
         \A r \in Slot : r # s => timers'[r] = timers[r],
         Len(frames') = Len(frames), DOMAIN frames' = DOMAIN frames,
         \A k \in DOMAIN frames :
           /\ frames'[k].elapsed = frames[k].elapsed
           /\ ~Unclaimed(k, s)'
           /\ \A r \in Slot : r # s /\ Unclaimed(k, r)' => Unclaimed(k, r)
  PROVE  DueInv'
<1>1. ASSUME NEW k \in DOMAIN frames', NEW r \in Slot, Unclaimed(k, r)'
      PROVE  NotDue(k, r)'
  <2>1. r # s /\ Unclaimed(k, r)
    BY <1>1
  <2>2. NotDue(k, r)
    BY <2>1 DEF DueInv
  <2> QED
    BY <2>1, <2>2 DEF NotDue, Live
<1> QED
  BY <1>1 DEF DueInv

LEMMA DueCall ==
  ASSUME PoolInv, DueInv, Call
  PROVE  DueInv'
<1>1. CASE \E s \in Slot, t \in Timer :
             timers' = [timers EXCEPT ![s] = t] /\ Touch(s)
  <2> PICK s \in Slot, t \in Timer :
        timers' = [timers EXCEPT ![s] = t] /\ Touch(s)
    BY <1>1
  <2>1. \A r \in Slot : r # s => timers'[r] = timers[r]
    BY DEF PoolInv, TypeOK
  <2>2. /\ Len(frames') = Len(frames) /\ DOMAIN frames' = DOMAIN frames
        /\ \A k \in DOMAIN frames :
             /\ frames'[k].slot = frames[k].slot
             /\ frames'[k].calling = frames[k].calling
             /\ frames'[k].elapsed = frames[k].elapsed
             /\ frames'[k].owed = frames[k].owed \ {s}
             /\ frames'[k].touched = frames[k].touched \cup {s}
    BY TouchFrames DEF PoolInv
  <2>3. \A k \in DOMAIN frames :
          /\ ~Unclaimed(k, s)'
          /\ \A r \in Slot : r # s /\ Unclaimed(k, r)' => Unclaimed(k, r)
    BY <2>2 DEF Unclaimed
  <2> QED
    BY <2>1, <2>2, <2>3, DueKept
<1>2. CASE UNCHANGED <<timers, frames>>
  BY <1>2 DEF DueInv, Unclaimed, NotDue, Live
<1>3. CASE \E s \in Slot, t \in Timer :
             /\ timers' = [timers EXCEPT ![s] = t]
             /\ t.state = "STOPPED"
             /\ UNCHANGED frames
  <2> PICK s \in Slot, t \in Timer :
        /\ timers' = [timers EXCEPT ![s] = t]
        /\ t.state = "STOPPED"
        /\ UNCHANGED frames
    BY <1>3
  <2>1. timers'[s].state = "STOPPED" /\ \A r \in Slot : r # s => timers'[r] = timers[r]
    BY DEF PoolInv, TypeOK
  <2>2. ASSUME NEW k \in DOMAIN frames', NEW r \in Slot, Unclaimed(k, r)'
        PROVE  NotDue(k, r)'
    BY <2>1, <2>2 DEF DueInv, Unclaimed, NotDue, Live
  <2> QED
    BY <2>2 DEF DueInv
<1>4. CASE \E s \in Slot, t \in Timer : CallOn(s, t)
  <2> PICK s \in Slot, t \in Timer : CallOn(s, t)
    BY <1>4
  <2>1. CASE Rewritten(s, t)
    BY <1>3, <2>1 DEF CallOn, Rewritten
  <2>2. CASE Touch(s)
    BY <1>1, <2>2 DEF CallOn
  <2>3. CASE UNCHANGED frames /\ t = timers[s]
    <3>1. timers' = timers
      BY <2>3 DEF CallOn, PoolInv, TypeOK
    <3> QED
      BY <1>2, <2>3, <3>1
  <2> QED
    BY <2>1, <2>2, <2>3 DEF CallOn, Started, Retired
<1>5. CASE \E p \in Periods, periodic \in BOOLEAN : Create(p, periodic)
  BY <1>1, <1>5, CreateEffect
<1> QED
  BY <1>4, <1>5, CallEffect

LEMMA DueTickBegin ==
  ASSUME PoolInv, DueInv, "tick" \notin CallbackMay, NEW e \in Elapses, TickBegin(e)
  PROVE  DueInv'
<1>1. frames = <<>> /\ UNCHANGED timers
  BY DEF TickBegin, Idle
<1>2. Len(frames) = 0 /\ DOMAIN frames = {}
  BY <1>1, EmptySeq
<1>3. /\ frames' \in Seq(Frame) /\ DOMAIN frames' = 1 .. 1
      /\ frames'[1].elapsed = e /\ frames'[1].owed = DueWithin(e)
  <2> DEFINE n == Len(frames)
  <2>1. /\ frames' \in Seq(Frame) /\ DOMAIN frames' = 1 .. n + 1
        /\ frames'[n + 1].elapsed = e /\ frames'[n + 1].owed = DueWithin(e)
    BY TickBeginFrames
  <2>2. n + 1 = 1
    BY <1>2
  <2> HIDE DEF n
  <2> QED
    BY <2>1, <2>2
<1>4. Len(frames') = 1
  BY <1>3, LenProperties
<1>5. ASSUME NEW s \in Slot, s \notin DueWithin(e)
      PROVE  ~Live(s) \/ timers[s].state # "RUNNING" \/ timers[s].remaining > e
  <2>1. ~InCallback(s)
    BY <1>2 DEF InCallback
  <2>2. timers[s].remaining \in Int /\ e \in Int
    BY InputAssumption, WordAssumption DEF PoolInv, TypeOK, Timer
  <2> QED
    BY <1>5, <2>1, <2>2 DEF DueWithin
<1> QED
  BY <1>1, <1>3, <1>4, <1>5 DEF DueInv, Unclaimed, NotDue, Live

\* The only tick in progress moves to the next slot.
LEMMA DueNextSlot ==
  ASSUME PoolInv, DueInv, NEW s \in Slot, ~Idle, Top.slot = s, NextSlot,
         \A r \in Slot : r # s => timers'[r] = timers[r]
  PROVE  DueInv'
<1>1. /\ Len(frames) \in Nat \ {0} /\ DOMAIN frames = 1 .. Len(frames)
      /\ Top = frames[Len(frames)]
  BY TopFrame DEF PoolInv, Top
<1>2. Len(frames) = 1 /\ Top = frames[1] /\ DOMAIN frames = {1} /\ frames[1].slot = s
  BY <1>1 DEF DueInv
<1>3. /\ Len(frames') = Len(frames) /\ DOMAIN frames' = DOMAIN frames
      /\ frames'[1].slot = s + 1
      /\ frames'[1].calling = FALSE
      /\ frames'[1].elapsed = frames[1].elapsed
      /\ frames'[1].owed = frames[1].owed
      /\ frames'[1].touched = frames[1].touched
  BY <1>2, NextSlotFrames
<1>4. \A r \in Slot : s + 1 <= r => s <= r /\ s # r
  BY DEF Slot
<1>5. ~Unclaimed(1, s)'
  BY <1>3, <1>4 DEF Unclaimed
<1>6. ASSUME NEW r \in Slot, Unclaimed(1, r)'
      PROVE  Unclaimed(1, r)
  BY <1>2, <1>3, <1>4, <1>6 DEF Unclaimed
<1> QED
  BY <1>2, <1>3, <1>5, <1>6, DueKept

LEMMA DueNext ==
  ASSUME "tick" \notin CallbackMay
  PROVE  PoolInv /\ DueInv /\ [Next]_vars => DueInv'
<1> SUFFICES ASSUME PoolInv, DueInv, [Next]_vars PROVE DueInv'
  OBVIOUS
<1>1. CASE Call
  BY <1>1, DueCall
<1>2. CASE \E e \in Elapses : TickBegin(e)
  BY <1>2, DueTickBegin
<1>3. CASE \E s \in Slot : TickSkip(s)
  BY <1>3, DueNextSlot DEF TickSkip, Scanning
<1>4. CASE \E s \in Slot : TickCountdown(s)
  <2> PICK s \in Slot : TickCountdown(s)
    BY <1>4
  <2>1. \A r \in Slot : r # s => timers'[r] = timers[r]
    BY CountdownEffect DEF PoolInv, TypeOK
  <2> QED
    BY <2>1, DueNextSlot DEF TickCountdown, Scanning
<1>5. CASE \E s \in Slot : TickExpire(s)
  <2> PICK s \in Slot : TickExpire(s)
    BY <1>5
  <2>1. \A r \in Slot : r # s => timers'[r] = timers[r]
    BY ExpireEffect DEF PoolInv, TypeOK
  <2>2. /\ Len(frames) \in Nat \ {0} /\ DOMAIN frames = 1 .. Len(frames)
        /\ Top = frames[Len(frames)] /\ ~Top.calling /\ Top.slot = s
    BY TopFrame DEF TickExpire, Scanning, PoolInv, Top
  <2>3. Len(frames) = 1 /\ DOMAIN frames = {1}
        /\ ~frames[1].calling /\ frames[1].slot = s
    BY <2>2 DEF DueInv
  <2>4. /\ Len(frames') = Len(frames) /\ DOMAIN frames' = DOMAIN frames
        /\ frames'[1].slot = frames[1].slot
        /\ frames'[1].elapsed = frames[1].elapsed
        /\ frames'[1].owed = frames[1].owed \ {s}
        /\ frames'[1].touched = frames[1].touched
    BY <2>3, ExpireFrames
  <2>5. frames'[1].calling
    <3>1. frames'[1].calling = (frames[1].calling \/ 1 = Len(frames))
      BY <2>3, ExpireFrames
    <3> QED
      BY <2>3, <3>1
  <2>6. ~Unclaimed(1, s)'
    BY <2>3, <2>4, <2>5 DEF Unclaimed
  <2>7. ASSUME NEW r \in Slot, r # s, Unclaimed(1, r)'
        PROVE  Unclaimed(1, r)
    BY <2>3, <2>4, <2>7 DEF Unclaimed
  <2> QED
    BY <2>1, <2>3, <2>4, <2>6, <2>7, DueKept
<1>6. CASE TickEnd
  <2> DEFINE n == Len(frames)
  <2>1. n \in Nat \ {0} /\ frames' \in Seq(Frame) /\ DOMAIN frames' = 1 .. n - 1
    BY <1>6, TopFrame, TickEndFrames DEF TickEnd, PoolInv
  <2>2. n <= 1
    BY DEF DueInv
  <2>3. Len(frames') \in Nat /\ DOMAIN frames' = 1 .. Len(frames')
    BY <2>1, LenProperties
  <2> HIDE DEF n
  <2>4. DOMAIN frames' = {}
    BY <2>1, <2>2
  <2>5. Len(frames') <= 1
    BY <2>3, <2>4
  <2> QED
    BY <2>4, <2>5 DEF DueInv
<1>7. CASE CallbackReturn
  <2> PICK s \in Slot : Top.slot = s
    BY <1>7, TopFrame DEF CallbackReturn, PoolInv, CallingInLoop, Top
  <2>1. \A r \in Slot : r # s => timers'[r] = timers[r]
    BY <1>7 DEF CallbackReturn, PoolInv, TypeOK
  <2> QED
    BY <1>7, <2>1, DueNextSlot DEF CallbackReturn
<1>8. CASE UNCHANGED vars
  BY <1>8 DEF vars, DueInv, Unclaimed, NotDue, Live
<1> QED
  BY <1>1, <1>2, <1>3, <1>4, <1>5, <1>6, <1>7, <1>8 DEF Next, TickStep

LEMMA DueAlways ==
  ASSUME "tick" \notin CallbackMay
  PROVE  Spec => []DueInv
<1>1. Init => DueInv
  BY EmptySeq DEF Init, DueInv
<1>2. PoolInv /\ DueInv /\ [Next]_vars => DueInv'
  BY DueNext
<1> QED
  BY <1>1, <1>2, PoolAlways, PTL DEF Spec

\* A tick calls a timer back at most once and never before its deadline,
\* unless a callback touched the timer, if callbacks do not drive time
\* themselves.
THEOREM OnlyDueTimersFire ==
  ASSUME "tick" \notin CallbackMay
  PROVE  Spec => FiresOnlyWhenDue
<1>1. ASSUME PoolInv, DueInv, [Next]_vars, NEW s \in Slot, Scanning(s),
             timers'[s].executed # timers[s].executed
      PROVE  s \in Top.owed \cup Top.touched
  <2>1. TickExpire(s)
    BY <1>1, ExecutedByExpire
  <2>2. /\ Live(s) /\ timers[s].state = "RUNNING"
        /\ Top.elapsed >= timers[s].remaining
    BY <2>1 DEF TickExpire, Expires
  <2>3. /\ Len(frames) \in DOMAIN frames /\ Top = frames[Len(frames)]
        /\ ~Top.calling /\ Top.slot = s
    BY <1>1, TopFrame DEF Scanning, PoolInv, Top
  <2>4. timers[s].remaining \in Int /\ Top.elapsed \in Int
    BY <1>1, <2>3, FrameTypes, WordAssumption DEF PoolInv, TypeOK, Timer
  <2>5. ~NotDue(Len(frames), s)
    BY <2>2, <2>3, <2>4 DEF NotDue
  <2>6. ~Unclaimed(Len(frames), s)
    BY <1>1, <2>3, <2>5 DEF DueInv
  <2> QED
    BY <2>3, <2>6 DEF Unclaimed, Slot
<1>2. PoolInv /\ DueInv /\ [Next]_vars =>
        [\A s \in Slot :
           Scanning(s) /\ timers'[s].executed # timers[s].executed
             => s \in Top.owed \cup Top.touched]_vars
  BY <1>1
<1> QED
  BY <1>2, PoolAlways, DueAlways, PTL DEF Spec, FiresOnlyWhenDue

-----------------------------------------------------------------------------
(* The tick in an interrupt: what is in a pool, and in the stores of a call *)

Fields == DOMAIN ZeroTimer
FrameFields == {"slot", "elapsed", "calling", "id", "owed", "touched"}

IsSequence(q) == q \in Seq({q[i] : i \in DOMAIN q})
IsTimer(t) == t = [f \in Fields |-> t[f]]
IsPool(pool) == pool = [s \in Slot |-> pool[s]] /\ \A s \in Slot : IsTimer(pool[s])

\* The stores of a call: to different fields of one timer, and none starts it.
StoresTo(s, sts) ==
  /\ IsSequence(sts)
  /\ \A i \in DOMAIN sts : sts[i].slot = s /\ sts[i].field \in Fields
  /\ \A i, j \in DOMAIN sts : sts[i].field = sts[j].field => i = j

\* The callback that runs is that of a running timer, no tick interrupts a tick, and
\* a call that is not over is about a timer that does not run, nor does a free one.
CallingRuns ==
  ~Idle /\ Top.calling => Top.slot \in Slot /\ timers[Top.slot].state = "RUNNING"

OneTick ==
  \/ frames = <<>>
  \/ frames = <<frames[1]>> /\ frames[1] = [f \in FrameFields |-> frames[1][f]]

InCall ==
  stores # <<>> =>
    \E s \in Slot : /\ StoresTo(s, stores)
                    /\ \A i \in DOMAIN stores :
                         stores[i].field = "state" => stores[i].value # "RUNNING"
                    /\ timers[s].state # "RUNNING"

FreeStopped == \A s \in Slot : ~Live(s) => timers[s].state # "RUNNING"

ArmedFlags == armed = [s \in Slot |-> armed[s]]

IsrInv == IsPool(timers) /\ ArmedFlags /\ FreeStopped /\ OneTick /\ CallingRuns /\ InCall

LEMMA FieldsAre ==
  Fields = {"id", "period", "remaining", "repeat", "executed", "periodic", "state"}
BY DEF Fields, ZeroTimer

LEMMA IsSeq ==
  ASSUME NEW S, NEW q \in Seq(S)
  PROVE  IsSequence(q)
<1> DEFINE R == {q[i] : i \in DOMAIN q}
<1>1. DOMAIN q = 1 .. Len(q) /\ Len(q) \in Nat /\ q = [i \in 1 .. Len(q) |-> q[i]]
  BY LenProperties, SeqDef
<1>2. \A i \in 1 .. Len(q) : q[i] \in R
  BY <1>1
<1> HIDE DEF R
<1>3. q \in [1 .. Len(q) -> R]
  BY <1>1, <1>2
<1>4. q \in Seq(R)
  BY <1>1, <1>3, SeqDef
<1> QED
  BY <1>4 DEF R, IsSequence

LEMMA PoolEqual ==
  ASSUME NEW p, NEW q, IsPool(p), IsPool(q),
         \A r \in Slot, f \in Fields : p[r][f] = q[r][f]
  PROVE  p = q
<1>1. \A r \in Slot : p[r] = q[r]
  BY DEF IsPool, IsTimer
<1> QED
  BY <1>1 DEF IsPool

\* What the stores leave in a field.
LEMMA FieldStored ==
  ASSUME NEW pool, IsPool(pool), NEW s \in Slot, NEW sts, StoresTo(s, sts)
  PROVE  /\ IsPool(AllStored(pool, sts))
         /\ \A r \in Slot, f \in Fields :
              (r # s \/ \A i \in DOMAIN sts : sts[i].field # f)
                => AllStored(pool, sts)[r][f] = pool[r][f]
         /\ \A i \in DOMAIN sts : AllStored(pool, sts)[s][sts[i].field] = sts[i].value
<1> DEFINE To(r, f) == {i \in DOMAIN sts : sts[i].slot = r /\ sts[i].field = f}
           val(r, f) == IF To(r, f) = {} THEN pool[r][f]
                        ELSE sts[CHOOSE i \in To(r, f) : TRUE].value
           all == [r \in Slot |-> [f \in Fields |-> val(r, f)]]
<1>1. AllStored(pool, sts) = all
  <2>1. \A r \in Slot : DOMAIN pool[r] = Fields
    BY DEF IsPool, IsTimer
  <2> QED
    BY <2>1, Zenon DEF AllStored
<1>2. \A r \in Slot, f \in Fields :
        (r # s \/ \A i \in DOMAIN sts : sts[i].field # f) => To(r, f) = {}
  BY DEF StoresTo
<1>3. \A i \in DOMAIN sts : To(s, sts[i].field) = {i} /\ sts[i].field \in Fields
  BY DEF StoresTo
<1> HIDE DEF To
<1>4. \A r \in Slot, f \in Fields : To(r, f) = {} => val(r, f) = pool[r][f]
  OBVIOUS
<1>5. ASSUME NEW i \in DOMAIN sts PROVE val(s, sts[i].field) = sts[i].value
  BY <1>3
<1> HIDE DEF val
<1>6. IsPool(all)
  BY DEF IsPool, IsTimer
<1>7. \A r \in Slot, f \in Fields : all[r][f] = val(r, f)
  OBVIOUS
<1> HIDE DEF all
<1> QED
  BY <1>1, <1>2, <1>3, <1>4, <1>5, <1>6, <1>7

LEMMA NothingStored ==
  ASSUME NEW pool, IsPool(pool)
  PROVE  AllStored(pool, <<>>) = pool
<1>1. AllStored(pool, <<>>) = [s \in Slot |-> [f \in DOMAIN pool[s] |-> pool[s][f]]]
  <2>1. \A s, f : {i \in DOMAIN <<>> : <<>>[i].slot = s /\ <<>>[i].field = f} = {}
    OBVIOUS
  <2> QED
    BY <2>1, Zenon DEF AllStored
<1>2. \A s \in Slot : DOMAIN pool[s] = Fields
  BY DEF IsPool, IsTimer
<1>3. \A s \in Slot : [f \in DOMAIN pool[s] |-> pool[s][f]] = pool[s]
  BY <1>2 DEF IsPool, IsTimer
<1> QED
  BY <1>1, <1>3 DEF IsPool

\* The first store of a call and the others are all of them.
LEMMA StoresUnrolled ==
  ASSUME NEW pool, IsPool(pool), NEW s \in Slot, NEW sts, StoresTo(s, sts), sts # <<>>
  PROVE  /\ IsPool(Stored(pool, Head(sts)))
         /\ StoresTo(s, Tail(sts))
         /\ AllStored(Stored(pool, Head(sts)), Tail(sts)) = AllStored(pool, sts)
         /\ \A f \in Fields : Stored(pool, Head(sts))[s][f]
                                 = IF f = sts[1].field THEN sts[1].value ELSE pool[s][f]
         /\ 1 \in DOMAIN sts
         /\ \A i \in DOMAIN Tail(sts) : i + 1 \in DOMAIN sts /\ Tail(sts)[i] = sts[i + 1]
<1> DEFINE S == {sts[i] : i \in DOMAIN sts}
           first == sts[1]
           rest == Tail(sts)
           p == Stored(pool, first)
<1>1. sts \in Seq(S)
  BY DEF StoresTo, IsSequence
<1>2. /\ Head(sts) = first /\ rest \in Seq(S)
      /\ Len(sts) \in Nat \ {0} /\ DOMAIN sts = 1 .. Len(sts)
      /\ DOMAIN rest = 1 .. Len(sts) - 1
      /\ \A i \in DOMAIN rest : rest[i] = sts[i + 1]
  <2>1. Len(sts) \in Nat /\ DOMAIN sts = 1 .. Len(sts) /\ Len(sts) # 0
    BY <1>1, LenProperties, EmptySeq, SeqEqual
  <2>2. Head(sts) = first /\ rest \in Seq(S) /\ Len(rest) = Len(sts) - 1
    BY <1>1, HeadTailProperties
  <2>3. DOMAIN rest = 1 .. Len(rest) /\ \A i \in 1 .. Len(rest) : rest[i] = sts[i + 1]
    BY <1>1, <2>2, LenProperties, HeadTailProperties
  <2> QED
    BY <2>1, <2>2, <2>3
<1> HIDE DEF S, rest
<1>3. 1 \in DOMAIN sts /\ \A i \in DOMAIN rest : i + 1 \in DOMAIN sts /\ i + 1 # 1
  BY <1>2
<1>4. first.slot = s /\ first.field \in Fields
  BY <1>3 DEF StoresTo
<1>5. IsSequence(rest)
  BY <1>2, IsSeq
<1>6. StoresTo(s, rest)
  <2>1. \A i \in DOMAIN rest : rest[i].slot = s /\ rest[i].field \in Fields
    BY <1>2, <1>3 DEF StoresTo
  <2>2. \A i, j \in DOMAIN rest : rest[i].field = rest[j].field => i = j
    BY <1>2, <1>3 DEF StoresTo
  <2> QED
    BY <1>5, <2>1, <2>2 DEF StoresTo
<1>7. /\ IsPool(p)
      /\ \A r \in Slot, f \in Fields :
           p[r][f] = IF r = s /\ f = first.field THEN first.value ELSE pool[r][f]
  BY <1>4 DEF Stored, IsPool, IsTimer
<1> HIDE DEF p, first
<1>8. IsPool(AllStored(p, rest)) /\ IsPool(AllStored(pool, sts))
  BY <1>6, <1>7, FieldStored
<1>9. ASSUME NEW r \in Slot, NEW f \in Fields
      PROVE  AllStored(p, rest)[r][f] = AllStored(pool, sts)[r][f]
  <2>1. CASE r # s
    BY <2>1, <1>6, <1>7, FieldStored
  <2>2. CASE r = s /\ f = first.field
    <3>1. \A i \in DOMAIN rest : rest[i].field # f
      BY <1>2, <1>3, <2>2 DEF StoresTo, first
    <3>2. AllStored(p, rest)[r][f] = first.value
      BY <3>1, <2>2, <1>6, <1>7, FieldStored
    <3>3. AllStored(pool, sts)[s][first.field] = first.value
      BY <1>3, FieldStored DEF first
    <3> QED
      BY <3>2, <3>3, <2>2
  <2>3. CASE r = s /\ f # first.field /\ \A i \in DOMAIN rest : rest[i].field # f
    <3>1. \A i \in DOMAIN sts : sts[i].field # f
      <4>1. ASSUME NEW i \in DOMAIN sts, i # 1 PROVE sts[i].field # f
        <5>1. i - 1 \in DOMAIN rest /\ (i - 1) + 1 = i
          BY <1>2, <4>1
        <5> QED
          BY <5>1, <1>2, <2>3
      <4> QED
        BY <4>1, <2>3 DEF first
    <3>2. AllStored(pool, sts)[r][f] = pool[r][f]
      BY <3>1, FieldStored
    <3>3. AllStored(p, rest)[r][f] = p[r][f]
      BY <2>3, <1>6, <1>7, FieldStored
    <3> QED
      BY <3>2, <3>3, <2>3, <1>7
  <2>4. CASE r = s /\ \E i \in DOMAIN rest : rest[i].field = f
    <3>1. PICK i \in DOMAIN rest : rest[i].field = f
      BY <2>4
    <3>2. AllStored(p, rest)[s][f] = rest[i].value
      BY <3>1, <1>6, <1>7, FieldStored
    <3>3. i + 1 \in DOMAIN sts /\ sts[i + 1] = rest[i]
      BY <1>2, <1>3
    <3>4. AllStored(pool, sts)[s][f] = rest[i].value
      BY <3>1, <3>3, FieldStored
    <3> QED
      BY <3>2, <3>4, <2>4
  <2> QED
    BY <2>1, <2>2, <2>3, <2>4
<1>10. AllStored(p, rest) = AllStored(pool, sts)
  BY <1>8, <1>9, PoolEqual
<1>11. Stored(pool, Head(sts)) = p
  BY <1>2 DEF p
<1> QED
  BY <1>2, <1>3, <1>6, <1>7, <1>10, <1>11 DEF rest, first

-----------------------------------------------------------------------------
(* A tick sees the pool as if the call in progress were over               *)

All == AllStored(timers, stores)

\* The timers that the call in progress is not about are as they are, and the one it
\* is about does not run, before its stores and after.
Unmoved(r) == timers[r].state # "RUNNING" /\ All[r].state # "RUNNING"

LEMMA AllIs ==
  ASSUME IsrInv
  PROVE  /\ IsPool(All)
         /\ stores = <<>> => All = timers
         /\ \A r \in Slot : All[r] = timers[r] \/ Unmoved(r)
<1>1. CASE stores = <<>>
  BY <1>1, NothingStored DEF IsrInv, All
<1>2. CASE stores # <<>>
  <2>1. PICK s \in Slot :
          /\ StoresTo(s, stores) /\ timers[s].state # "RUNNING"
          /\ \A i \in DOMAIN stores :
               stores[i].field = "state" => stores[i].value # "RUNNING"
    BY <1>2 DEF IsrInv, InCall
  <2>2. IsPool(All) /\ \A r \in Slot, f \in Fields : r # s => All[r][f] = timers[r][f]
    BY <2>1, FieldStored DEF IsrInv, All
  <2>3. \A r \in Slot : r # s => All[r] = timers[r]
    BY <2>2 DEF IsrInv, IsPool, IsTimer
  <2>4. All[s].state # "RUNNING"
    <3>1. "state" \in Fields
      BY FieldsAre
    <3>2. CASE \E i \in DOMAIN stores : stores[i].field = "state"
      <4>1. PICK i \in DOMAIN stores : stores[i].field = "state"
        BY <3>2
      <4>2. All[s]["state"] = stores[i].value
        BY <4>1, <2>1, FieldStored DEF IsrInv, All
      <4> QED
        BY <4>1, <4>2, <2>1
    <3>3. CASE \A i \in DOMAIN stores : stores[i].field # "state"
      <4>1. All[s]["state"] = timers[s]["state"]
        BY <3>1, <3>3, <2>1, FieldStored DEF IsrInv, All
      <4> QED
        BY <4>1, <2>1
    <3> QED
      BY <3>2, <3>3
  <2> QED
    BY <1>2, <2>1, <2>2, <2>3, <2>4 DEF Unmoved
<1> QED
  BY <1>1, <1>2

\* written is pool with t for its timer r.
Written(written, pool, r, t) ==
  /\ IsPool(written) /\ written[r] = t
  /\ \A q \in Slot \ {r} : written[q] = pool[q]

\* A write to a timer that the stores are not to.
LEMMA OtherWritten ==
  ASSUME NEW pool, IsPool(pool), NEW s \in Slot, NEW sts, StoresTo(s, sts),
         NEW r \in Slot, r # s, NEW t, IsTimer(t),
         NEW written, Written(written, pool, r, t)
  PROVE  Written(AllStored(written, sts), AllStored(pool, sts), r, t)
<1> DEFINE all == AllStored(pool, sts)
           new == AllStored(written, sts)
<1>1. IsPool(all) /\ IsPool(new)
  BY FieldStored DEF Written
<1>2. \A f \in Fields : new[r][f] = t[f]
  <2>1. \A f \in Fields : new[r][f] = written[r][f]
    BY FieldStored DEF Written
  <2> QED
    BY <2>1 DEF Written
<1>3. ASSUME NEW q \in Slot \ {r}, NEW f \in Fields PROVE new[q][f] = all[q][f]
  <2>1. CASE q # s \/ \A i \in DOMAIN sts : sts[i].field # f
    <3>1. new[q][f] = written[q][f] /\ all[q][f] = pool[q][f]
      BY <2>1, FieldStored DEF Written
    <3> QED
      BY <3>1 DEF Written
  <2>2. CASE q = s /\ \E i \in DOMAIN sts : sts[i].field = f
    <3>1. PICK i \in DOMAIN sts : sts[i].field = f
      BY <2>2
    <3>2. new[s][f] = sts[i].value /\ all[s][f] = sts[i].value
      BY <3>1, FieldStored DEF Written
    <3> QED
      BY <3>2, <2>2
  <2> QED
    BY <2>1, <2>2
<1> HIDE DEF new, all
<1>4. new[r] = t
  BY <1>1, <1>2 DEF IsPool, IsTimer
<1>5. \A q \in Slot \ {r} : new[q] = all[q]
  BY <1>1, <1>3 DEF IsPool, IsTimer
<1> QED
  BY <1>1, <1>4, <1>5 DEF Written, new, all

LEMMA WrittenIs ==
  ASSUME NEW pool, IsPool(pool), NEW r \in Slot, NEW t, IsTimer(t), NEW written
  PROVE  written = [pool EXCEPT ![r] = t] <=> Written(written, pool, r, t)
<1>1. ASSUME written = [pool EXCEPT ![r] = t] PROVE Written(written, pool, r, t)
  BY <1>1 DEF IsPool, Written
<1>2. ASSUME Written(written, pool, r, t) PROVE written = [pool EXCEPT ![r] = t]
  <2>1. written = [s \in Slot |-> written[s]] /\ pool = [s \in Slot |-> pool[s]]
    BY <1>2 DEF Written, IsPool
  <2>2. \A s \in Slot : written[s] = IF s = r THEN t ELSE pool[s]
    BY <1>2 DEF Written
  <2> QED
    BY <2>1, <2>2
<1> QED
  BY <1>1, <1>2

\* A write of the tick to a running timer.
LEMMA RunningWritten ==
  ASSUME IsrInv, NEW r \in Slot, timers[r].state = "RUNNING", NEW t, IsTimer(t),
         timers' = [timers EXCEPT ![r] = t], stores' = stores
  PROVE  All' = [All EXCEPT ![r] = t] /\ All[r] = timers[r] /\ IsPool(timers')
<1>1. IsPool(timers) /\ IsPool(All)
  BY AllIs DEF IsrInv
<1>2. All[r] = timers[r]
  <2>1. All[r] = timers[r] \/ Unmoved(r)
    BY AllIs
  <2> QED
    BY <2>1 DEF Unmoved
<1>3. PICK pool : pool = timers' /\ Written(pool, timers, r, t)
  BY <1>1, WrittenIs
<1>4. IsPool(pool)
  BY <1>3 DEF Written
<1>5. All' = AllStored(pool, stores)
  BY <1>3 DEF All
<1>6. Written(AllStored(pool, stores), All, r, t)
  <2>1. CASE stores = <<>>
    <3>1. AllStored(pool, stores) = pool /\ All = timers
      BY <1>4, <2>1, AllIs, NothingStored
    <3> QED
      BY <3>1, <1>3
  <2>2. CASE stores # <<>>
    <3>1. PICK s \in Slot : StoresTo(s, stores) /\ timers[s].state # "RUNNING"
      BY <2>2 DEF IsrInv, InCall
    <3>2. r # s
      BY <3>1
    <3> QED
      BY <1>1, <1>3, <3>1, <3>2, OtherWritten DEF All
  <2> QED
    BY <2>1, <2>2
<1>7. AllStored(pool, stores) = [All EXCEPT ![r] = t]
  BY <1>1, <1>6, WrittenIs
<1>8. IsPool(timers')
  BY <1>3, <1>4
<1> QED
  BY <1>2, <1>5, <1>7, <1>8

\* What is invariant while the call in progress makes no store.
LEMMA InCallKept ==
  ASSUME IsrInv, stores' = stores,
         \A s \in Slot : timers[s].state # "RUNNING" => timers'[s] = timers[s]
  PROVE  InCall'
<1>1. CASE stores = <<>>
  BY <1>1 DEF InCall
<1>2. CASE stores # <<>>
  <2>1. PICK s \in Slot :
          /\ StoresTo(s, stores) /\ timers[s].state # "RUNNING"
          /\ \A i \in DOMAIN stores :
               stores[i].field = "state" => stores[i].value # "RUNNING"
    BY <1>2 DEF IsrInv, InCall
  <2>2. timers'[s].state # "RUNNING" /\ StoresTo(s, stores')
    BY <2>1
  <2> QED
    BY <2>1, <2>2 DEF InCall
<1> QED
  BY <1>1, <1>2

\* The activation of the tick.
LEMMA TopIs ==
  ASSUME OneTick, ~Idle
  PROVE  /\ Len(frames) = 1 /\ DOMAIN frames = {1} /\ frames = <<Top>> /\ Top = frames[1]
         /\ Top = [f \in FrameFields |-> Top[f]]
<1>1. frames = <<frames[1]>> /\ frames[1] = [f \in FrameFields |-> frames[1][f]]
  BY DEF OneTick, Idle
<1>2. Len(frames) = 1 /\ DOMAIN frames = {1}
  BY <1>1
<1> QED
  BY <1>1, <1>2 DEF Top

LEMMA NextSlotTick ==
  ASSUME OneTick, ~Idle, NextSlot
  PROVE  OneTick' /\ ~Idle' /\ ~Top'.calling
<1>1. /\ Len(frames) = 1 /\ DOMAIN frames = {1} /\ frames = <<Top>>
      /\ Top = [f \in FrameFields |-> Top[f]]
  BY TopIs
<1> DEFINE f == [Top EXCEPT !.slot = @ + 1, !.calling = FALSE, !.id = DS_TIMER_ID_INVALID]
<1>2. frames' = <<f>>
  BY <1>1 DEF NextSlot, SetTop
<1>3. f = [x \in FrameFields |-> f[x]] /\ f.calling = FALSE
  BY <1>1 DEF FrameFields
<1> HIDE DEF f
<1>4. Len(frames') = 1 /\ frames'[1] = f /\ frames' # <<>>
  BY <1>2
<1> QED
  BY <1>2, <1>3, <1>4 DEF OneTick, Idle, Top

-----------------------------------------------------------------------------
(* The steps of a tick                                                     *)

LEMMA SameFrames ==
  /\ Atomic!Slot = Slot /\ Atomic!Idle = Idle /\ Atomic!Top = Top
  /\ Atomic!DS_TIMER_ID_INVALID = DS_TIMER_ID_INVALID
  /\ Atomic!NextSlot <=> NextSlot
  /\ \A s : Atomic!Scanning(s) <=> Scanning(s)
  /\ \A s : Atomic!InCallback(s) <=> InCallback(s)
  /\ \A s : Atomic!Touch(s) <=> Touch(s)
  /\ \A t : Atomic!Finished(t) <=> Finished(t)
  /\ \A p, o : Atomic!NextRemaining(p, o) = NextRemaining(p, o)
<1>1. Atomic!Slot = Slot /\ Atomic!Idle = Idle /\ Atomic!Top = Top
      /\ Atomic!DS_TIMER_ID_INVALID = DS_TIMER_ID_INVALID
  BY DEF Atomic!Slot, Slot, Atomic!Idle, Idle, Atomic!Top, Top,
         Atomic!DS_TIMER_ID_INVALID, DS_TIMER_ID_INVALID
<1>2. /\ Atomic!NextSlot <=> NextSlot
      /\ \A s : Atomic!Scanning(s) <=> Scanning(s)
      /\ \A s : Atomic!InCallback(s) <=> InCallback(s)
      /\ \A s : Atomic!Touch(s) <=> Touch(s)
  BY <1>1, Zenon
     DEF Atomic!NextSlot, NextSlot, Atomic!SetTop, SetTop, Atomic!Scanning, Scanning,
         Atomic!InCallback, InCallback, Atomic!Touch, Touch
<1>3. /\ \A t : Atomic!Finished(t) <=> Finished(t)
      /\ \A p, o : Atomic!NextRemaining(p, o) = NextRemaining(p, o)
  BY DEF Atomic!Finished, Finished, Atomic!NextRemaining, NextRemaining
<1> QED
  BY <1>1, <1>2, <1>3

LEMMA SkipStep ==
  ASSUME IsrInv, NEW s \in Slot, TickSkip(s), stores' = stores
  PROVE  IsrInv' /\ Atomic!TickSkip(s)
<1>1. timers' = timers /\ All' = All /\ next_id' = next_id /\ armed' = armed
  BY DEF TickSkip, All
<1>2. NextSlot /\ Scanning(s) /\ ~Idle
  BY DEF TickSkip, Scanning
<1>3. OneTick' /\ ~Idle' /\ ~Top'.calling
  BY <1>2, NextSlotTick DEF IsrInv
<1>4. InCall'
  BY <1>1, InCallKept
<1>5. IsrInv'
  BY <1>1, <1>3, <1>4 DEF IsrInv, CallingRuns, FreeStopped, Live, ArmedFlags
<1>6. All[s].id = DS_TIMER_ID_INVALID \/ All[s].state # "RUNNING"
  BY AllIs DEF TickSkip, Live, Unmoved
<1> QED
  BY <1>1, <1>2, <1>5, <1>6, SameFrames, Zenon DEF Atomic!TickSkip, Atomic!Live, All

LEMMA CountdownStep ==
  ASSUME IsrInv, NEW s \in Slot, TickCountdown(s), stores' = stores
  PROVE  IsrInv' /\ Atomic!TickCountdown(s)
<1>1. next_id' = next_id /\ armed' = armed /\ NextSlot /\ Scanning(s) /\ ~Idle
      /\ Live(s) /\ timers[s].state = "RUNNING" /\ ~Expires(s)
  BY DEF TickCountdown, Scanning
<1> DEFINE t == [timers[s] EXCEPT !.remaining = @ - Top.elapsed]
<1>2. IsPool(timers) /\ timers' = [timers EXCEPT ![s] = t] /\ IsTimer(t)
  BY DEF TickCountdown, IsrInv, IsPool, IsTimer
<1> HIDE DEF t
<1>3. All' = [All EXCEPT ![s] = t] /\ All[s] = timers[s] /\ IsPool(timers')
  BY <1>1, <1>2, RunningWritten
<1>4. OneTick' /\ ~Idle' /\ ~Top'.calling
  BY <1>1, NextSlotTick DEF IsrInv
<1>5. InCall'
  BY <1>1, <1>2, InCallKept DEF IsPool
<1>6. IsrInv'
  <2>1. /\ timers'[s].state = timers[s].state /\ timers'[s].id = timers[s].id
        /\ \A q \in Slot \ {s} : timers'[q] = timers[q]
    BY <1>2, FieldsAre DEF t, IsPool, IsTimer
  <2> QED
    BY <2>1, <1>1, <1>3, <1>4, <1>5 DEF IsrInv, CallingRuns, FreeStopped, Live, ArmedFlags
<1>7. All' = [All EXCEPT ![s].remaining = @ - Top.elapsed]
  BY <1>3 DEF t
<1> QED
  BY <1>1, <1>3, <1>6, <1>7, SameFrames
     DEF Atomic!TickCountdown, Atomic!Live, Atomic!Expires, Live, Expires, All

LEMMA CallbackReturnStep ==
  ASSUME IsrInv, CallbackReturn, stores' = stores
  PROVE  IsrInv' /\ Atomic!CallbackReturn
<1>1. next_id' = next_id /\ armed' = armed /\ NextSlot /\ ~Idle /\ Top.calling
  BY DEF CallbackReturn
<1>2. Top.slot \in Slot /\ timers[Top.slot].state = "RUNNING"
  BY <1>1 DEF IsrInv, CallingRuns
<1>3. PICK s \in Slot : s = Top.slot /\ timers[s].state = "RUNNING"
  BY <1>2
<1>4. OneTick' /\ ~Idle' /\ ~Top'.calling
  BY <1>1, NextSlotTick DEF IsrInv
<1>5. CASE Finished(timers[s])
  <2> DEFINE t == [timers[s] EXCEPT !.state = "EXPIRED"]
  <2>1. IsPool(timers) /\ timers' = [timers EXCEPT ![s] = t] /\ IsTimer(t)
    BY <1>3, <1>5 DEF CallbackReturn, IsrInv, IsPool, IsTimer
  <2> HIDE DEF t
  <2>2. All' = [All EXCEPT ![s] = t] /\ All[s] = timers[s] /\ IsPool(timers')
    BY <1>3, <2>1, RunningWritten
  <2>3. InCall'
    BY <1>3, <2>1, InCallKept DEF IsPool
  <2>4. IsrInv'
    <3>1. /\ timers'[s].state # "RUNNING"
          /\ \A q \in Slot \ {s} : timers'[q] = timers[q]
      BY <2>1, FieldsAre DEF t, IsPool, IsTimer
    <3> QED
      BY <3>1, <1>1, <1>4, <2>2, <2>3 DEF IsrInv, CallingRuns, FreeStopped, Live, ArmedFlags
  <2>5. All' = [All EXCEPT ![s].state = "EXPIRED"] /\ Finished(All[s])
    BY <2>2, <1>5 DEF t
  <2> QED
    BY <1>1, <1>3, <2>4, <2>5, SameFrames DEF Atomic!CallbackReturn, All
<1>6. CASE ~Finished(timers[s])
  <2>1. timers' = timers /\ All' = All
    BY <1>3, <1>6 DEF CallbackReturn, All
  <2>2. InCall'
    BY <2>1, InCallKept
  <2>3. IsrInv'
    BY <1>1, <1>4, <2>1, <2>2 DEF IsrInv, CallingRuns, FreeStopped, Live, ArmedFlags
  <2>4. ~Finished(All[s])
    BY <1>3, <1>6, AllIs DEF Unmoved
  <2> QED
    BY <1>1, <1>3, <2>1, <2>3, <2>4, SameFrames DEF Atomic!CallbackReturn, All
<1> QED
  BY <1>5, <1>6

LEMMA ExpireStep ==
  ASSUME IsrInv, NEW s \in Slot, TickExpire(s), stores' = stores
  PROVE  IsrInv' /\ Atomic!TickExpire(s)
<1>1. next_id' = next_id /\ Scanning(s) /\ ~Idle
      /\ Live(s) /\ timers[s].state = "RUNNING" /\ Expires(s)
  BY DEF TickExpire, Scanning
<1> DEFINE t == [timers[s] EXCEPT
                   !.remaining = NextRemaining(timers[s].period,
                                               Top.elapsed - timers[s].remaining),
                   !.executed = (@ + 1) % Word]
           f == [Top EXCEPT !.calling = TRUE, !.id = t.id, !.owed = @ \ {s}]
           fs == [k \in DOMAIN frames |->
                    IF k < Len(frames) THEN [frames[k] EXCEPT !.owed = @ \ {s}] ELSE f]
<1>2. /\ timers' = [timers EXCEPT ![s] = t] /\ frames' = fs
      /\ armed' = [armed EXCEPT ![s] = IF Finished(t) THEN "no" ELSE @]
  BY DEF TickExpire
<1>3. IsPool(timers) /\ IsTimer(timers[s])
  BY DEF IsrInv, IsPool
<1>4. IsTimer(t) /\ t.state = "RUNNING" /\ t.id = timers[s].id
  BY <1>1, <1>3, FieldsAre DEF IsTimer
<1>5. /\ Len(frames) = 1 /\ DOMAIN frames = {1}
      /\ Top = [x \in FrameFields |-> Top[x]] /\ Top.slot = s
  BY <1>1, TopIs DEF IsrInv, Scanning
<1> HIDE DEF t
<1>6. f = [x \in FrameFields |-> f[x]] /\ f.slot = s
  BY <1>5 DEF FrameFields
<1>7. frames' = <<f>>
  BY <1>2, <1>5
<1> HIDE DEF f
<1>8. OneTick' /\ Top' = f
  BY <1>6, <1>7 DEF OneTick, Top
<1>9. All' = [All EXCEPT ![s] = t] /\ All[s] = timers[s] /\ IsPool(timers')
  BY <1>1, <1>2, <1>4, RunningWritten
<1>10. InCall'
  BY <1>1, <1>2, <1>3, InCallKept DEF IsPool
<1>11. timers'[s] = t /\ \A q \in Slot \ {s} : timers'[q] = timers[q]
  BY <1>2, <1>3 DEF IsPool
<1>12. IsrInv'
  <2>1. FreeStopped'
    BY <1>1, <1>4, <1>11 DEF IsrInv, FreeStopped, Live
  <2>2. ArmedFlags'
    BY <1>2 DEF IsrInv, ArmedFlags
  <2> QED
    BY <2>1, <2>2, <1>4, <1>6, <1>8, <1>9, <1>10, <1>11 DEF IsrInv, CallingRuns
<1>13. Atomic!TickExpire(s)
  <2>1. Atomic!Live(s) /\ AllStored(timers, stores)[s].state = "RUNNING" /\ Atomic!Expires(s)
    BY <1>1, <1>9, SameFrames DEF Atomic!Live, Live, Atomic!Expires, Expires, All
  <2> DEFINE u == [AllStored(timers, stores)[s] EXCEPT
                     !.remaining = Atomic!NextRemaining(AllStored(timers, stores)[s].period,
                       Atomic!Top.elapsed - AllStored(timers, stores)[s].remaining),
                     !.executed = (@ + 1) % Word]
  <2>2. u = t
    BY <1>9, SameFrames DEF t, All
  <2>3. AllStored(timers, stores)' = [AllStored(timers, stores) EXCEPT ![s] = u]
    BY <1>9, <2>2 DEF All
  <2>4. armed' = [armed EXCEPT ![s] = IF Atomic!Finished(u) THEN "no" ELSE @]
    BY <1>2, <2>2, SameFrames
  <2>5. frames' = [k \in DOMAIN frames |->
          IF k < Len(frames) THEN [frames[k] EXCEPT !.owed = @ \ {s}]
          ELSE [Atomic!Top EXCEPT !.calling = TRUE, !.id = u.id, !.owed = @ \ {s}]]
    <3>1. Atomic!Top = Top
      BY SameFrames
    <3> HIDE DEF u
    <3>2. frames' = [k \in DOMAIN frames |->
            IF k < Len(frames) THEN [frames[k] EXCEPT !.owed = @ \ {s}]
            ELSE [Top EXCEPT !.calling = TRUE, !.id = u.id, !.owed = @ \ {s}]]
      BY <1>2, <2>2, Zenon DEF f
    <3> QED
      BY <3>1, <3>2, Zenon
  <2>6. Atomic!Scanning(s) /\ next_id' = next_id
    BY <1>1, SameFrames
  <2> QED
    BY <2>1, <2>3, <2>4, <2>5, <2>6, Zenon DEF Atomic!TickExpire
<1> QED
  BY <1>12, <1>13

LEMMA BeginStep ==
  ASSUME IsrInv, CallbackMay = {}, NEW e \in Elapses, TickBegin(e), stores' = stores
  PROVE  IsrInv' /\ Atomic!TickBegin(e)
<1>1. timers' = timers /\ All' = All /\ next_id' = next_id /\ armed' = armed
  BY DEF TickBegin, All
<1>2. Idle /\ frames = <<>>
  BY DEF TickBegin, Idle
<1> DEFINE f == [slot |-> 0, elapsed |-> e, calling |-> FALSE,
                 id |-> DS_TIMER_ID_INVALID, owed |-> DueWithin(e), touched |-> {}]
           outer == [k \in DOMAIN frames |-> [frames[k] EXCEPT !.touched = Slot]]
<1>3. frames' = Append(outer, f)
  BY DEF TickBegin
<1>4. outer = <<>>
  BY <1>2
<1>5. f = [x \in FrameFields |-> f[x]] /\ f.calling = FALSE
  BY DEF FrameFields
<1> HIDE DEF f, outer
<1>6. frames' = <<f>>
  BY <1>3, <1>4
<1>7. OneTick' /\ ~Top'.calling
  BY <1>5, <1>6 DEF OneTick, Top
<1>8. IsrInv'
  <2>1. InCall'
    BY <1>1, InCallKept
  <2> QED
    BY <1>1, <1>7, <2>1 DEF IsrInv, CallingRuns, FreeStopped, Live, ArmedFlags
<1>9. Atomic!DueWithin(e) = DueWithin(e)
  <2>1. ASSUME NEW s \in Slot
        PROVE  /\ All[s].id # DS_TIMER_ID_INVALID /\ All[s].state = "RUNNING"
                  /\ All[s].remaining <= e /\ ~(InCallback(s) /\ Finished(All[s]))
               <=>
               /\ timers[s].id # DS_TIMER_ID_INVALID /\ timers[s].state = "RUNNING"
                  /\ timers[s].remaining <= e /\ ~(InCallback(s) /\ Finished(timers[s]))
    <3>1. All[s] = timers[s] \/ Unmoved(s)
      BY AllIs
    <3> QED
      BY <3>1 DEF Unmoved
  <2> QED
    BY <2>1, SameFrames
       DEF Atomic!DueWithin, DueWithin, Atomic!Live, Live, All
<1>10. Atomic!TickBegin(e)
  <2>1. frames' = Append([k \in DOMAIN frames |-> [frames[k] EXCEPT !.touched = Atomic!Slot]],
            [slot |-> 0, elapsed |-> e, calling |-> FALSE,
             id |-> Atomic!DS_TIMER_ID_INVALID, owed |-> Atomic!DueWithin(e),
             touched |-> {}])
    <3>1. /\ Atomic!Slot = Slot /\ Atomic!DS_TIMER_ID_INVALID = DS_TIMER_ID_INVALID
      BY SameFrames
    <3> QED
      BY <3>1, <1>3, <1>9, Zenon DEF f, outer
  <2>2. Len(frames) < MaxDepth
    BY DEF TickBegin
  <2> QED
    BY <1>1, <1>2, <2>1, <2>2, SameFrames, Zenon DEF Atomic!TickBegin, All
<1> QED
  BY <1>8, <1>10

LEMMA EndStep ==
  ASSUME IsrInv, TickEnd, stores' = stores
  PROVE  IsrInv' /\ Atomic!TickEnd
<1>1. /\ timers' = timers /\ All' = All /\ next_id' = next_id /\ armed' = armed
      /\ ~Idle /\ ~Top.calling /\ Top.slot = Capacity
      /\ frames' = SubSeq(frames, 1, Len(frames) - 1)
  BY DEF TickEnd, All
<1>2. Len(frames) = 1 /\ frames = <<Top>>
  BY <1>1, TopIs DEF IsrInv
<1>3. frames' = <<>>
  BY <1>1, <1>2
<1>4. InCall'
  BY <1>1, InCallKept
<1>5. IsrInv'
  BY <1>1, <1>3, <1>4 DEF IsrInv, CallingRuns, OneTick, Idle, FreeStopped, Live, ArmedFlags
<1> QED
  BY <1>1, <1>5, SameFrames DEF Atomic!TickEnd, All

LEMMA InterruptStep ==
  ASSUME IsrInv, CallbackMay = {}, Interrupt
  PROVE  IsrInv' /\ Atomic!Next
<1>1. stores' = stores
  BY DEF Interrupt
<1>2. CASE \E e \in Elapses : TickBegin(e)
  BY <1>1, <1>2, BeginStep DEF Atomic!Next
<1>3. CASE TickStep
  <2>1. CASE TickEnd
    BY <1>1, <2>1, EndStep DEF Atomic!Next, Atomic!TickStep
  <2>2. CASE \E s \in Slot : TickSkip(s) \/ TickCountdown(s) \/ TickExpire(s)
    <3>1. PICK s \in Slot : TickSkip(s) \/ TickCountdown(s) \/ TickExpire(s)
      BY <2>2
    <3>2. IsrInv' /\ (Atomic!TickSkip(s) \/ Atomic!TickCountdown(s) \/ Atomic!TickExpire(s))
      BY <1>1, <3>1, SkipStep, CountdownStep, ExpireStep
    <3>3. s \in Atomic!Slot
      BY SameFrames
    <3> QED
      BY <3>2, <3>3 DEF Atomic!Next, Atomic!TickStep
  <2> QED
    BY <1>3, <2>1, <2>2 DEF TickStep
<1>4. CASE CallbackReturn
  BY <1>1, <1>4, CallbackReturnStep DEF Atomic!Next
<1> QED
  BY <1>2, <1>3, <1>4 DEF Interrupt

-----------------------------------------------------------------------------
(* The stores of a call                                                    *)

\* The stores leave t in slot s: each is to a field, and of the value it has in t,
\* and the other fields of t are what they were.
LeaveTimer(t, s, sts, pool) ==
  /\ StoresTo(s, sts) /\ IsTimer(t)
  /\ \A i \in DOMAIN sts : t[sts[i].field] = sts[i].value
  /\ \A f \in Fields : (\A i \in DOMAIN sts : sts[i].field # f) => t[f] = pool[s][f]

LEMMA TimerLeft ==
  ASSUME NEW pool, IsPool(pool), NEW s \in Slot, NEW sts, NEW t,
         LeaveTimer(t, s, sts, pool)
  PROVE  AllStored(pool, sts) = [pool EXCEPT ![s] = t]
<1> DEFINE all == AllStored(pool, sts)
<1>1. IsPool(all) /\ StoresTo(s, sts) /\ IsTimer(t)
  BY FieldStored DEF LeaveTimer
<1>2. \A q \in Slot \ {s}, f \in Fields : all[q][f] = pool[q][f]
  BY <1>1, FieldStored
<1>3. ASSUME NEW f \in Fields PROVE all[s][f] = t[f]
  <2>1. CASE \E i \in DOMAIN sts : sts[i].field = f
    BY <1>1, <2>1, FieldStored DEF LeaveTimer
  <2>2. CASE \A i \in DOMAIN sts : sts[i].field # f
    BY <1>1, <2>2, FieldStored DEF LeaveTimer
  <2> QED
    BY <2>1, <2>2
<1> HIDE DEF all
<1>4. Written(all, pool, s, t)
  BY <1>1, <1>2, <1>3 DEF Written, IsPool, IsTimer
<1> QED
  BY <1>1, <1>4, WrittenIs DEF all

\* A call makes the first of its stores.
LEMMA CallMade ==
  ASSUME IsrInv, NEW s \in Slot, NEW sts, NEW promise, NEW t,
         CallBegin(s, sts, promise), sts # <<>>, LeaveTimer(t, s, sts, timers),
         \A i \in DOMAIN sts : sts[i].field = "state" => sts[i].value # "RUNNING",
         timers[s].state # "RUNNING" \/ sts[1].field = "state"
  PROVE  /\ IsrInv' /\ Idle /\ All = timers /\ All' = [timers EXCEPT ![s] = t]
         /\ armed' = [armed EXCEPT ![s] = promise] /\ Touch(s) /\ frames' = frames
<1>1. /\ Idle /\ stores = <<>> /\ frames' = frames /\ IsPool(timers) /\ All = timers
      /\ timers' = Stored(timers, Head(sts)) /\ stores' = Tail(sts)
      /\ armed' = [armed EXCEPT ![s] = promise]
  BY AllIs DEF CallBegin, IsrInv
<1>2. StoresTo(s, sts)
  BY DEF LeaveTimer
<1>3. PICK p : p = Stored(timers, Head(sts))
  OBVIOUS
<1>4. PICK rest : rest = Tail(sts)
  OBVIOUS
<1>5. /\ IsPool(p) /\ StoresTo(s, rest)
      /\ AllStored(p, rest) = AllStored(timers, sts)
      /\ \A f \in Fields : p[s][f] = IF f = sts[1].field THEN sts[1].value ELSE timers[s][f]
      /\ 1 \in DOMAIN sts
      /\ \A i \in DOMAIN rest : i + 1 \in DOMAIN sts /\ rest[i] = sts[i + 1]
  BY <1>1, <1>2, <1>3, <1>4, StoresUnrolled
<1>6. AllStored(timers, sts) = [timers EXCEPT ![s] = t]
  BY <1>1, TimerLeft
<1>7. timers' = p /\ stores' = rest /\ All' = AllStored(p, rest)
  BY <1>1, <1>3, <1>4 DEF All
<1>8. All' = [timers EXCEPT ![s] = t]
  BY <1>5, <1>6, <1>7
<1>9. p[s].state # "RUNNING"
  <2>1. "state" \in Fields
    BY FieldsAre
  <2>2. p[s]["state"] = IF "state" = sts[1].field THEN sts[1].value ELSE timers[s]["state"]
    BY <1>5, <2>1
  <2> QED
    BY <2>2, <1>5
<1>10. \A q \in Slot \ {s} : p[q] = timers[q]
  <2>1. sts[1].slot = s /\ Head(sts) = sts[1]
    BY <1>2, <1>5, HeadTailProperties DEF StoresTo, IsSequence
  <2> QED
    BY <1>1, <1>3, <2>1 DEF Stored, IsPool
<1>11. /\ FreeStopped' /\ InCall'
  <2>1. \A i \in DOMAIN rest : rest[i].field = "state" => rest[i].value # "RUNNING"
    BY <1>5
  <2> QED
    BY <2>1, <1>5, <1>7, <1>9, <1>10 DEF IsrInv, FreeStopped, Live, InCall
<1>12. IsrInv'
  BY <1>1, <1>5, <1>7, <1>11 DEF IsrInv, OneTick, CallingRuns, Idle, ArmedFlags
<1>13. Touch(s)
  BY <1>1 DEF Touch, Idle
<1> QED
  BY <1>1, <1>8, <1>12, <1>13

\* The call makes another store: nothing that a tick sees.
LEMMA NextStoreStep ==
  ASSUME IsrInv, NextStore
  PROVE  IsrInv' /\ UNCHANGED Atomic!vars
<1>1. /\ stores # <<>> /\ UNCHANGED <<next_id, frames, armed>> /\ Idle
      /\ timers' = Stored(timers, Head(stores)) /\ stores' = Tail(stores)
  BY DEF NextStore
<1>2. PICK s \in Slot :
        /\ StoresTo(s, stores) /\ timers[s].state # "RUNNING"
        /\ \A i \in DOMAIN stores :
             stores[i].field = "state" => stores[i].value # "RUNNING"
  BY <1>1 DEF IsrInv, InCall
<1>3. PICK p : p = Stored(timers, Head(stores))
  OBVIOUS
<1>4. PICK rest : rest = Tail(stores)
  OBVIOUS
<1>5. /\ IsPool(p) /\ StoresTo(s, rest)
      /\ AllStored(p, rest) = AllStored(timers, stores)
      /\ \A f \in Fields :
           p[s][f] = IF f = stores[1].field THEN stores[1].value ELSE timers[s][f]
      /\ 1 \in DOMAIN stores
      /\ \A i \in DOMAIN rest : i + 1 \in DOMAIN stores /\ rest[i] = stores[i + 1]
  BY <1>1, <1>2, <1>3, <1>4, StoresUnrolled DEF IsrInv
<1>6. timers' = p /\ stores' = rest
  BY <1>1, <1>3, <1>4
<1>7. AllStored(timers, stores)' = AllStored(timers, stores)
  BY <1>5, <1>6
<1>8. p[s].state # "RUNNING"
  <2>1. "state" \in Fields
    BY FieldsAre
  <2>2. p[s]["state"]
          = IF "state" = stores[1].field THEN stores[1].value ELSE timers[s]["state"]
    BY <1>5, <2>1
  <2> QED
    BY <2>2, <1>2, <1>5
<1>9. \A q \in Slot \ {s} : p[q] = timers[q]
  <2>1. stores[1].slot = s /\ Head(stores) = stores[1]
    BY <1>1, <1>2, <1>5, HeadTailProperties DEF StoresTo, IsSequence
  <2> QED
    BY <1>3, <2>1 DEF Stored, IsPool, IsrInv
<1>10. FreeStopped' /\ InCall'
  <2>1. \A i \in DOMAIN rest : rest[i].field = "state" => rest[i].value # "RUNNING"
    BY <1>2, <1>5
  <2> QED
    BY <2>1, <1>5, <1>6, <1>8, <1>9 DEF IsrInv, FreeStopped, Live, InCall
<1>11. IsrInv'
  BY <1>1, <1>5, <1>6, <1>10 DEF IsrInv, OneTick, CallingRuns, Idle, ArmedFlags
<1> QED
  BY <1>1, <1>7, <1>11, Zenon DEF Atomic!vars

-----------------------------------------------------------------------------
(* The calls of the main loop                                              *)

LEMMA CreateStep ==
  ASSUME IsrInv, NEW p \in Periods, NEW periodic \in BOOLEAN, CreateCall(p, periodic)
  PROVE  IsrInv' /\ Atomic!Create(p, periodic)
<1> DEFINE period == IF p > 0 THEN p ELSE 1
           sts(s) == <<Store(s, "id", next_id), Store(s, "period", period),
                       Store(s, "remaining", period), Store(s, "repeat", 0),
                       Store(s, "executed", 0), Store(s, "periodic", periodic),
                       Store(s, "state", "STOPPED")>>
           t == [id |-> next_id, period |-> period, remaining |-> period,
                 repeat |-> 0, executed |-> 0, periodic |-> periodic,
                 state |-> "STOPPED"]
<1>1. PICK s \in Slot :
        /\ IsFirstFree(s) /\ next_id # IdLimit
        /\ CallBegin(s, sts(s), "no") /\ next_id' = NextId(next_id)
  BY DEF CreateCall
<1> HIDE DEF period
<1>2. sts(s) # <<>>
  OBVIOUS
<1>3. LeaveTimer(t, s, sts(s), timers)
  <2>1. IsSequence(sts(s))
    <3>1. sts(s) \in Seq({sts(s)[1], sts(s)[2], sts(s)[3], sts(s)[4], sts(s)[5],
                          sts(s)[6], sts(s)[7]})
      OBVIOUS
    <3> QED
      BY <3>1, IsSeq
  <2>2. DOMAIN sts(s) = 1 .. 7
    OBVIOUS
  <2>3. \A i \in 1 .. 7 : /\ sts(s)[i].slot = s /\ sts(s)[i].field \in Fields
                          /\ t[sts(s)[i].field] = sts(s)[i].value
    BY FieldsAre DEF Store
  <2>4. \A i, j \in 1 .. 7 : sts(s)[i].field = sts(s)[j].field => i = j
    BY DEF Store
  <2>5. \A f \in Fields : \E i \in 1 .. 7 : sts(s)[i].field = f
    BY FieldsAre DEF Store
  <2>6. IsTimer(t)
    BY FieldsAre DEF IsTimer
  <2> HIDE DEF t, sts
  <2> QED
    BY <2>1, <2>2, <2>3, <2>4, <2>5, <2>6, Zenon DEF LeaveTimer, StoresTo
<1>4. \A i \in DOMAIN sts(s) : sts(s)[i].field = "state" => sts(s)[i].value # "RUNNING"
  BY DEF Store
<1>5. timers[s].state # "RUNNING"
  BY <1>1 DEF IsFirstFree, IsrInv, FreeStopped
<1> HIDE DEF t, sts
<1>6. /\ IsrInv' /\ Idle /\ All = timers /\ All' = [timers EXCEPT ![s] = t]
      /\ armed' = [armed EXCEPT ![s] = "no"] /\ Touch(s)
  <2>1. PICK q, u, a : q = sts(s) /\ u = t /\ a = "no"
    OBVIOUS
  <2>2. /\ CallBegin(s, q, a) /\ q # <<>> /\ LeaveTimer(u, s, q, timers)
        /\ \A i \in DOMAIN q : q[i].field = "state" => q[i].value # "RUNNING"
    BY <2>1, <1>1, <1>2, <1>3, <1>4
  <2>3. /\ IsrInv' /\ Idle /\ All = timers /\ All' = [timers EXCEPT ![s] = u]
        /\ armed' = [armed EXCEPT ![s] = a] /\ Touch(s)
    BY <2>2, <1>5, CallMade
  <2> QED
    BY <2>1, <2>3
<1>7. s \in Atomic!Slot /\ Atomic!Touch(s) /\ Atomic!MayTouch(s) /\ Atomic!IsFirstFree(s)
  BY <1>1, <1>6, SameFrames
     DEF Atomic!MayTouch, Atomic!IsFirstFree, IsFirstFree, Atomic!Live, Live, All,
         Atomic!DS_TIMER_ID_INVALID, DS_TIMER_ID_INVALID
<1>8. next_id' = Atomic!NextId(next_id)
  BY <1>1 DEF NextId, Atomic!NextId
<1>9. AllStored(timers, stores)' = [AllStored(timers, stores) EXCEPT ![s] =
            [id |-> next_id, period |-> IF p > 0 THEN p ELSE 1,
             remaining |-> IF p > 0 THEN p ELSE 1,
             repeat |-> 0, executed |-> 0, periodic |-> periodic,
             state |-> "STOPPED"]]
  BY <1>6, Zenon DEF All, t, period
<1>10. Atomic!Create(p, periodic)
  BY <1>1, <1>6, <1>7, <1>8, <1>9, Zenon DEF Atomic!Create
<1> QED
  BY <1>6, <1>10

LEMMA SetRepeatStep ==
  ASSUME IsrInv, NEW s \in Slot, NEW n \in Repeats, SetRepeatCall(s, n)
  PROVE  IsrInv' /\ Atomic!SetRepeat(s, n)
<1>1. /\ Live(s) /\ timers[s].state = "STOPPED" /\ timers[s].executed = 0
      /\ CallBegin(s, <<Store(s, "repeat", n)>>, armed[s]) /\ next_id' = next_id
  BY DEF SetRepeatCall
<1>2. PICK q, u, a : q = <<Store(s, "repeat", n)>> /\ a = armed[s]
                     /\ u = [timers[s] EXCEPT !.repeat = n]
  OBVIOUS
<1>3. IsTimer(timers[s])
  BY DEF IsrInv, IsPool
<1>4. q # <<>> /\ DOMAIN q = {1} /\ q[1] = Store(s, "repeat", n) /\ q \in Seq({q[1]})
  BY <1>2
<1>5. LeaveTimer(u, s, q, timers)
  <2>1. StoresTo(s, q)
    BY <1>4, IsSeq, FieldsAre DEF StoresTo, Store
  <2>2. /\ IsTimer(u) /\ u.repeat = n
        /\ \A f \in Fields : f # "repeat" => u[f] = timers[s][f]
    BY <1>2, <1>3, FieldsAre DEF IsTimer
  <2> QED
    BY <2>1, <2>2, <1>4 DEF LeaveTimer, Store
<1>6. \A i \in DOMAIN q : q[i].field # "state"
  BY <1>4 DEF Store
<1>7. /\ IsrInv' /\ Idle /\ All = timers /\ All' = [timers EXCEPT ![s] = u]
      /\ armed' = [armed EXCEPT ![s] = a] /\ frames' = frames
  <2>1. CallBegin(s, q, a)
    BY <1>1, <1>2
  <2> QED
    BY <2>1, <1>1, <1>4, <1>5, <1>6, CallMade
<1>8. Atomic!Live(s) /\ Atomic!MayTouch(s)
  BY <1>1, <1>7, SameFrames DEF Atomic!MayTouch, Atomic!Live, Live, All
<1>9. armed' = armed
  BY <1>2, <1>7 DEF IsrInv, ArmedFlags
<1> QED
  BY <1>1, <1>2, <1>7, <1>8, <1>9 DEF Atomic!SetRepeat, All

\* Stop, delete and reset: the first store stops the timer.
LEMMA RetireStep ==
  ASSUME IsrInv, NEW s \in Slot, NEW q, NEW u,
         Live(s), CallBegin(s, q, "no"), next_id' = next_id,
         q # <<>>, q[1].field = "state", LeaveTimer(u, s, q, timers),
         \A i \in DOMAIN q : q[i].field = "state" => q[i].value # "RUNNING"
  PROVE  IsrInv' /\ All = timers /\ Atomic!Retire(s, u)
<1>1. PICK a : a = "no"
  OBVIOUS
<1>2. CallBegin(s, q, a)
  BY <1>1
<1>3. /\ IsrInv' /\ Idle /\ All = timers /\ All' = [timers EXCEPT ![s] = u]
      /\ armed' = [armed EXCEPT ![s] = a] /\ Touch(s)
  BY <1>2, CallMade
<1>4. Atomic!Live(s) /\ Atomic!MayTouch(s) /\ Atomic!Touch(s)
  BY <1>3, SameFrames DEF Atomic!MayTouch, Atomic!Live, Live, All
<1>5. armed' = [armed EXCEPT ![s] = "no"]
  BY <1>1, <1>3
<1>6. AllStored(timers, stores)' = [AllStored(timers, stores) EXCEPT ![s] = u]
  BY <1>3 DEF All
<1>7. Atomic!Retire(s, u)
  BY <1>4, <1>5, <1>6, Zenon DEF Atomic!Retire
<1> QED
  BY <1>3, <1>7

LEMMA StopStep ==
  ASSUME IsrInv, NEW s \in Slot, StopCall(s)
  PROVE  IsrInv' /\ Atomic!Stop(s)
<1>1. PICK q, u : /\ q = <<Store(s, "state", "STOPPED")>>
                  /\ u = [timers[s] EXCEPT !.state = "STOPPED"]
  OBVIOUS
<1>2. Live(s) /\ CallBegin(s, q, "no") /\ next_id' = next_id
  BY <1>1 DEF StopCall
<1>3. /\ q # <<>> /\ DOMAIN q = {1} /\ q \in Seq({q[1]})
      /\ q[1].slot = s /\ q[1].field = "state" /\ q[1].value = "STOPPED"
  BY <1>1 DEF Store
<1>4. StoresTo(s, q)
  BY <1>3, IsSeq, FieldsAre DEF StoresTo
<1>5. /\ IsTimer(u) /\ u.state = "STOPPED"
      /\ \A f \in Fields : f # "state" => u[f] = timers[s][f]
  BY <1>1, FieldsAre DEF IsTimer, IsrInv, IsPool
<1>6. LeaveTimer(u, s, q, timers)
  BY <1>3, <1>4, <1>5 DEF LeaveTimer
<1>7. IsrInv' /\ All = timers /\ Atomic!Retire(s, u)
  BY <1>2, <1>3, <1>6, RetireStep
<1> QED
  BY <1>1, <1>7 DEF Atomic!Stop, All

LEMMA DeleteStep ==
  ASSUME IsrInv, NEW s \in Slot, DeleteCall(s)
  PROVE  IsrInv' /\ Atomic!Delete(s)
<1>1. PICK q, u : /\ q = <<Store(s, "state", "STOPPED"),
                           Store(s, "id", DS_TIMER_ID_INVALID)>>
                  /\ u = [timers[s] EXCEPT !.state = "STOPPED",
                                           !.id = DS_TIMER_ID_INVALID]
  OBVIOUS
<1>2. Live(s) /\ CallBegin(s, q, "no") /\ next_id' = next_id
  BY <1>1 DEF DeleteCall
<1>3. /\ q # <<>> /\ DOMAIN q = {1, 2} /\ q \in Seq({q[1], q[2]})
      /\ q[1].slot = s /\ q[1].field = "state" /\ q[1].value = "STOPPED"
      /\ q[2].slot = s /\ q[2].field = "id" /\ q[2].value = DS_TIMER_ID_INVALID
  BY <1>1 DEF Store
<1>4. StoresTo(s, q)
  BY <1>3, IsSeq, FieldsAre DEF StoresTo
<1>5. /\ IsTimer(u) /\ u.state = "STOPPED" /\ u.id = DS_TIMER_ID_INVALID
      /\ \A f \in Fields : f \notin {"state", "id"} => u[f] = timers[s][f]
  BY <1>1, FieldsAre DEF IsTimer, IsrInv, IsPool
<1>6. LeaveTimer(u, s, q, timers)
  BY <1>3, <1>4, <1>5 DEF LeaveTimer
<1>7. IsrInv' /\ All = timers /\ Atomic!Retire(s, u)
  BY <1>2, <1>3, <1>6, RetireStep
<1>8. u = [All[s] EXCEPT !.state = "STOPPED", !.id = Atomic!DS_TIMER_ID_INVALID]
  BY <1>1, <1>7, SameFrames
<1> QED
  BY <1>7, <1>8 DEF Atomic!Delete, All

LEMMA ResetStep ==
  ASSUME IsrInv, NEW s \in Slot, ResetCall(s)
  PROVE  IsrInv' /\ Atomic!Reset(s)
<1>1. PICK q, u, p : /\ p = timers[s].period
                     /\ q = <<Store(s, "state", "STOPPED"), Store(s, "remaining", p),
                              Store(s, "executed", 0)>>
                     /\ u = [timers[s] EXCEPT !.state = "STOPPED", !.remaining = p,
                                              !.executed = 0]
  OBVIOUS
<1>2. Live(s) /\ CallBegin(s, q, "no") /\ next_id' = next_id
  BY <1>1 DEF ResetCall
<1>3. /\ q # <<>> /\ DOMAIN q = {1, 2, 3} /\ q \in Seq({q[1], q[2], q[3]})
      /\ q[1].slot = s /\ q[1].field = "state" /\ q[1].value = "STOPPED"
      /\ q[2].slot = s /\ q[2].field = "remaining" /\ q[2].value = p
      /\ q[3].slot = s /\ q[3].field = "executed" /\ q[3].value = 0
  BY <1>1 DEF Store
<1>4. StoresTo(s, q)
  BY <1>3, IsSeq, FieldsAre DEF StoresTo
<1>5. /\ IsTimer(u) /\ u.state = "STOPPED" /\ u.remaining = p /\ u.executed = 0
      /\ \A f \in Fields : f \notin {"state", "remaining", "executed"} => u[f] = timers[s][f]
  BY <1>1, FieldsAre DEF IsTimer, IsrInv, IsPool
<1>6. LeaveTimer(u, s, q, timers)
  BY <1>3, <1>4, <1>5 DEF LeaveTimer
<1>7. IsrInv' /\ All = timers /\ Atomic!Retire(s, u)
  BY <1>2, <1>3, <1>6, RetireStep
<1>8. u = [All[s] EXCEPT !.state = "STOPPED", !.remaining = All[s].period, !.executed = 0]
  BY <1>1, <1>7
<1> QED
  BY <1>7, <1>8 DEF Atomic!Reset, All

LEMMA StartStep ==
  ASSUME IsrInv, StartMasked, NEW s \in Slot, StartCall(s)
  PROVE  IsrInv' /\ Atomic!Start(s)
<1>1. /\ Live(s) /\ Idle /\ stores = <<>> /\ stores' = <<>> /\ frames' = frames
      /\ next_id' = next_id /\ armed' = [armed EXCEPT ![s] = "yes"]
  BY DEF StartCall
<1>2. All = timers /\ IsPool(timers) /\ IsTimer(timers[s])
  BY <1>1, AllIs DEF IsrInv, IsPool
<1>3. ArmedFlags' /\ OneTick' /\ CallingRuns' /\ InCall'
  BY <1>1 DEF IsrInv, ArmedFlags, OneTick, CallingRuns, Idle, InCall
<1>4. Atomic!Live(s) /\ Atomic!MayTouch(s)
  BY <1>1, <1>2, SameFrames DEF Atomic!MayTouch, Atomic!Live, Live, All
<1>5. armed' = [armed EXCEPT ![s] =
                  IF Atomic!InCallback(s) /\ Atomic!Finished(AllStored(timers, stores)[s])
                  THEN "again" ELSE "yes"]
  <2>1. frames = <<>>
    BY <1>1 DEF Idle
  <2>2. ~Atomic!InCallback(s)
    BY <2>1, EmptySeq DEF Atomic!InCallback
  <2> QED
    BY <2>2, <1>1
<1>6. CASE timers[s].state = "RUNNING"
  <2>1. timers' = timers /\ All' = All
    BY <1>1, <1>6 DEF StartCall, All
  <2>2. IsrInv'
    BY <2>1, <1>3 DEF IsrInv, FreeStopped, Live
  <2> QED
    BY <2>1, <2>2, <1>1, <1>2, <1>4, <1>6, <1>5 DEF Atomic!Start, All
<1>7. CASE timers[s].state # "RUNNING"
  <2>1. PICK q, u, p : /\ p = timers[s].period
                       /\ q = <<Store(s, "state", "RUNNING"), Store(s, "remaining", p)>>
                       /\ u = [timers[s] EXCEPT !.state = "RUNNING", !.remaining = p]
    OBVIOUS
  <2>2. timers' = AllStored(timers, q)
    BY <2>1, <1>7 DEF StartCall, StartStores
  <2>3. /\ DOMAIN q = {1, 2} /\ q \in Seq({q[1], q[2]})
        /\ q[1].slot = s /\ q[1].field = "state" /\ q[1].value = "RUNNING"
        /\ q[2].slot = s /\ q[2].field = "remaining" /\ q[2].value = p
    BY <2>1 DEF Store
  <2>4. StoresTo(s, q)
    BY <2>3, IsSeq, FieldsAre DEF StoresTo
  <2>5. /\ IsTimer(u) /\ u.state = "RUNNING" /\ u.remaining = p /\ u.id = timers[s].id
        /\ \A f \in Fields : f \notin {"state", "remaining"} => u[f] = timers[s][f]
    BY <2>1, <1>2, FieldsAre DEF IsTimer
  <2>6. LeaveTimer(u, s, q, timers)
    BY <2>3, <2>4, <2>5 DEF LeaveTimer
  <2>7. PICK w : w = timers'
    OBVIOUS
  <2>8. w = [timers EXCEPT ![s] = u]
    BY <2>2, <2>6, <2>7, <1>2, TimerLeft
  <2>9. Written(w, timers, s, u)
    BY <2>5, <2>8, <1>2, WrittenIs
  <2>10. All' = w
    BY <2>7, <2>9, <1>1, NothingStored DEF All, Written
  <2>11. IsrInv'
    BY <2>5, <2>7, <2>9, <1>1, <1>3 DEF IsrInv, FreeStopped, Live, Written
  <2>12. AllStored(timers, stores)'
           = [AllStored(timers, stores) EXCEPT
                ![s].state = "RUNNING", ![s].remaining = AllStored(timers, stores)[s].period]
    <3>1. All' = [All EXCEPT ![s].state = "RUNNING", ![s].remaining = p]
      BY <2>1, <2>8, <2>10, <1>2 DEF IsPool
    <3> QED
      BY <3>1, <2>1, <1>2 DEF All
  <2>13. Atomic!Touch(s)
    BY <1>1, SameFrames DEF Touch, Idle
  <2> QED
    BY <2>11, <2>12, <2>13, <1>1, <1>2, <1>4, <1>7, <1>5, Zenon DEF Atomic!Start, All
<1> QED
  BY <1>6, <1>7

LEMMA MainLoopStep ==
  ASSUME IsrInv, StartMasked, MainLoop
  PROVE  IsrInv' /\ (Atomic!Next \/ UNCHANGED Atomic!vars)
<1>1. CASE NextStore
  BY <1>1, NextStoreStep
<1>2. CASE \E p \in Periods, periodic \in BOOLEAN : CreateCall(p, periodic)
  BY <1>2, CreateStep DEF Atomic!Next, Atomic!Call
<1>3. CASE \E s \in Slot : \/ \E n \in Repeats : SetRepeatCall(s, n)
                           \/ StartCall(s) \/ StopCall(s) \/ DeleteCall(s) \/ ResetCall(s)
  <2>1. PICK s \in Slot : \/ \E n \in Repeats : SetRepeatCall(s, n)
                          \/ StartCall(s) \/ StopCall(s) \/ DeleteCall(s) \/ ResetCall(s)
    BY <1>3
  <2>2. /\ IsrInv'
        /\ \/ \E n \in Repeats : Atomic!SetRepeat(s, n)
           \/ Atomic!Start(s) \/ Atomic!Stop(s) \/ Atomic!Delete(s) \/ Atomic!Reset(s)
    BY <2>1, SetRepeatStep, StartStep, StopStep, DeleteStep, ResetStep
  <2>3. s \in Atomic!Slot
    BY SameFrames
  <2> QED
    BY <2>2, <2>3 DEF Atomic!Next, Atomic!Call
<1> QED
  BY <1>1, <1>2, <1>3 DEF MainLoop

\* A tick from an interrupt, between any two stores of the calls that the main loop
\* makes, does what a tick between two calls does: the calls are single steps to it,
\* if ds_timer_start is made with the interrupt masked and the callbacks of the
\* interrupt leave the pool alone.
THEOREM CallsAreAtomic ==
  ASSUME StartMasked, CallbackMay = {}
  PROVE  IsrSpec => CallsAtomic
<1>1. IsrInit => IsrInv /\ Atomic!Init
  <2> SUFFICES ASSUME IsrInit PROVE IsrInv /\ Atomic!Init
    OBVIOUS
  <2>1. /\ stores = <<>> /\ frames = <<>> /\ next_id = 1
        /\ timers = [s \in Slot |-> ZeroTimer] /\ armed = [s \in Slot |-> "no"]
    BY DEF IsrInit, Init
  <2>2. IsPool(timers)
    BY <2>1, FieldsAre DEF IsPool, IsTimer, ZeroTimer
  <2>3. IsrInv
    BY <2>1, <2>2
       DEF IsrInv, ArmedFlags, FreeStopped, OneTick, CallingRuns, InCall, Idle, ZeroTimer
  <2>4. AllStored(timers, stores) = timers
    BY <2>1, <2>2, NothingStored
  <2>5. Atomic!ZeroTimer = ZeroTimer
    BY DEF Atomic!ZeroTimer, ZeroTimer, Atomic!DS_TIMER_ID_INVALID, DS_TIMER_ID_INVALID
  <2> QED
    BY <2>1, <2>3, <2>4, <2>5, SameFrames DEF Atomic!Init
<1>2. IsrInv /\ UNCHANGED isrVars => IsrInv' /\ UNCHANGED Atomic!vars
  <2> SUFFICES ASSUME IsrInv, UNCHANGED isrVars PROVE IsrInv' /\ UNCHANGED Atomic!vars
    OBVIOUS
  <2>1. timers' = timers /\ stores' = stores /\ frames' = frames /\ armed' = armed
        /\ next_id' = next_id
    BY DEF isrVars, vars
  <2>2. InCall'
    BY <2>1, InCallKept
  <2> QED
    BY <2>1, <2>2
       DEF IsrInv, ArmedFlags, FreeStopped, OneTick, CallingRuns, Idle, Top, Live, Atomic!vars
<1>3. IsrInv /\ [IsrNext]_isrVars => IsrInv' /\ [Atomic!Next]_(Atomic!vars)
  BY <1>2, MainLoopStep, InterruptStep DEF IsrNext
<1> QED
  BY <1>1, <1>3, PTL DEF IsrSpec, CallsAtomic, Atomic!Spec

=============================================================================
