--------------------------- MODULE DsEventBus_proofs ---------------------------
(***************************************************************************)
(* What the event bus of DsEventBus keeps and promises, for every pool     *)
(* size, every set of events and handlers, and every depth of publishes    *)
(* inside publishes.                                                       *)
(***************************************************************************)
EXTENDS DsEventBus, FiniteSetTheorems, SequenceTheorems, TLAPS

USE BusCapacityAssumption

-----------------------------------------------------------------------------
(* The invariant                                                           *)

\* The slots that the loop of a publish has yet to come to.
Ahead(f, s) == IF f.calling THEN s > f.slot ELSE s >= f.slot

HoldsIn(pool, s, e, h) ==
  pool[s].active /\ pool[s].event = e /\ pool[s].handler = h

\* A publish finds the handlers it owes a call in front of it, and those that it
\* has called behind it: no call from a handler moves a subscription.
FrameInv(pool, f) ==
  /\ f.calling => f.slot \in BusSlot
  /\ \A h \in f.owed : \E s \in BusSlot : HoldsIn(pool, s, f.event, h) /\ Ahead(f, s)
  /\ \A h \in f.called : \E s \in BusSlot : HoldsIn(pool, s, f.event, h) /\ ~Ahead(f, s)

FramesInv == \A k \in DOMAIN frames : FrameInv(subs, frames[k])

BusInv == BusTypeOK /\ CountMatches /\ NoDuplicates /\ FramesInv

-----------------------------------------------------------------------------
(* The pool                                                                *)

LEMMA PoolIs ==
  ASSUME BusTypeOK
  PROVE  /\ IsFiniteSet(Active) /\ Active \subseteq BusSlot
         /\ Cardinality(Active) \in 0 .. BusCapacity
         /\ Cardinality(Active) = BusCapacity => Active = BusSlot
<1>1. IsFiniteSet(BusSlot) /\ Cardinality(BusSlot) = BusCapacity
  BY FS_Interval DEF BusSlot
<1>2. Active \in SUBSET BusSlot
  BY DEF Active
<1>3. IsFiniteSet(Active) /\ Cardinality(Active) <= BusCapacity
      /\ (Cardinality(Active) = BusCapacity => Active = BusSlot)
  BY <1>1, <1>2, FS_Subset
<1> QED
  BY <1>2, <1>3, FS_CardinalityType

\* A subscription is added to a free slot.
LEMMA PoolAdds ==
  ASSUME BusTypeOK, CountMatches, NEW s \in BusSlot, ~subs[s].active,
         NEW e \in Events, NEW h \in Handlers,
         subs' = [subs EXCEPT ![s] = [active |-> TRUE, event |-> e, handler |-> h]],
         active_count' = active_count + 1
  PROVE  /\ subs' \in [BusSlot -> Sub] /\ active_count' \in 0 .. BusCapacity
         /\ Active' = Active \cup {s}
         /\ CountMatches'
<1>1. /\ subs \in [BusSlot -> Sub]
      /\ [active |-> TRUE, event |-> e, handler |-> h] \in Sub
  BY DEF BusTypeOK, Sub
<1>2. subs' \in [BusSlot -> Sub]
  BY <1>1
<1>3. Active' = Active \cup {s}
  BY <1>1 DEF Active
<1>4. s \notin Active
  BY DEF Active
<1>5. Cardinality(Active') = Cardinality(Active) + 1
  BY <1>3, <1>4, PoolIs, FS_AddElement
<1>6. Cardinality(Active) \in 0 .. BusCapacity /\ Cardinality(Active) # BusCapacity
  BY <1>4, PoolIs
<1> QED
  BY <1>2, <1>3, <1>5, <1>6 DEF CountMatches

\* A subscription is taken out.
LEMMA PoolFrees ==
  ASSUME BusTypeOK, CountMatches, NEW s \in BusSlot, subs[s].active,
         subs' = [subs EXCEPT ![s] = FreeSub],
         active_count' = active_count - 1
  PROVE  /\ subs' \in [BusSlot -> Sub] /\ active_count' \in 0 .. BusCapacity
         /\ Active' = Active \ {s}
         /\ CountMatches'
<1>1. subs \in [BusSlot -> Sub] /\ FreeSub \in Sub /\ ~FreeSub.active
  BY DEF BusTypeOK, Sub, FreeSub
<1>2. subs' \in [BusSlot -> Sub]
  BY <1>1
<1>3. Active' = Active \ {s} /\ s \in Active
  BY <1>1 DEF Active
<1>4. Cardinality(Active') = Cardinality(Active) - 1
  BY <1>3, PoolIs, FS_RemoveElement
<1>5. Cardinality(Active) \in 0 .. BusCapacity /\ Cardinality(Active) # 0
  BY <1>3, PoolIs, FS_EmptySet
<1> QED
  BY <1>2, <1>3, <1>4, <1>5 DEF CountMatches

-----------------------------------------------------------------------------
(* The activations                                                         *)

LEMMA FramesAre ==
  ASSUME BusTypeOK
  PROVE  /\ Len(frames) \in Nat /\ DOMAIN frames = 1 .. Len(frames)
         /\ \A k \in DOMAIN frames : frames[k] \in Frame
         /\ ~Idle => Len(frames) \in DOMAIN frames /\ Top \in Frame
<1>1. /\ Len(frames) \in Nat /\ DOMAIN frames = 1 .. Len(frames)
      /\ \A k \in DOMAIN frames : frames[k] \in Frame
  BY LenProperties, ElementOfSeq DEF BusTypeOK
<1>2. ~Idle => Len(frames) \in DOMAIN frames
  BY <1>1, EmptySeq DEF Idle, BusTypeOK
<1> QED
  BY <1>1, <1>2 DEF Top

\* Whoever sets the innermost activation leaves the others alone.
LEMMA TopSet ==
  ASSUME BusTypeOK, ~Idle, NEW f \in Frame, SetTop(f)
  PROVE  /\ frames' \in Seq(Frame) /\ DOMAIN frames' = DOMAIN frames
         /\ \A k \in DOMAIN frames :
              frames'[k] = IF k = Len(frames) THEN f ELSE frames[k]
<1>1. frames \in Seq(Frame) /\ Len(frames) \in 1 .. Len(frames)
  BY FramesAre DEF BusTypeOK
<1>2. /\ frames' \in Seq(Frame) /\ Len(frames') = Len(frames)
      /\ \A k \in 1 .. Len(frames) :
           frames'[k] = IF k = Len(frames) THEN f ELSE frames[k]
  BY <1>1, ExceptSeq DEF SetTop
<1> QED
  BY <1>1, <1>2, LenProperties

\* So the invariant of the activations is kept if the new one has it.
LEMMA TopKeeps ==
  ASSUME BusTypeOK, FramesInv, ~Idle, NEW f \in Frame, SetTop(f), FrameInv(subs, f),
         UNCHANGED <<subs, active_count>>
  PROVE  BusTypeOK' /\ FramesInv'
BY TopSet DEF FramesInv, BusTypeOK

\* What Forget leaves of an activation.
Forgotten(f, hs, es) ==
  IF f.event \in es THEN [f EXCEPT !.owed = @ \ hs, !.called = @ \ hs] ELSE f

LEMMA ForgetIs ==
  ASSUME BusTypeOK, NEW hs, NEW es, Forget(hs, es)
  PROVE  /\ frames' \in Seq(Frame) /\ DOMAIN frames' = DOMAIN frames
         /\ \A k \in DOMAIN frames : frames'[k] = Forgotten(frames[k], hs, es)
<1>1. \A f \in Frame : Forgotten(f, hs, es) \in Frame
  BY DEF Frame, Forgotten
<1>2. frames' = [k \in 1 .. Len(frames) |-> Forgotten(frames[k], hs, es)]
  BY FramesAre DEF Forget, Forgotten
<1>3. frames' \in [1 .. Len(frames) -> Frame]
  BY <1>1, <1>2, FramesAre
<1>4. frames' \in Seq(Frame)
  BY <1>3, FramesAre, SeqDef
<1> QED
  BY <1>2, <1>4, FramesAre

-----------------------------------------------------------------------------
(* The steps                                                               *)

LEMMA SubscribeStep ==
  ASSUME BusInv, NEW e \in Events, NEW h \in Handlers, Subscribe(e, h)
  PROVE  BusInv'
<1>1. BusTypeOK /\ CountMatches /\ NoDuplicates /\ FramesInv
  BY DEF BusInv
<1>2. PICK s \in BusSlot :
        /\ ~subs[s].active
        /\ subs' = [subs EXCEPT ![s] = [active |-> TRUE, event |-> e, handler |-> h]]
  BY DEF Subscribe, IsFirstFree
<1>3. /\ frames' = frames /\ active_count' = active_count + 1
      /\ \A r \in BusSlot : ~Holds(r, e, h)
  BY DEF Subscribe
<1>4. /\ subs' \in [BusSlot -> Sub] /\ active_count' \in 0 .. BusCapacity
      /\ Active' = Active \cup {s}
      /\ CountMatches'
  BY <1>1, <1>2, <1>3, PoolAdds
<1>5. /\ \A r \in BusSlot : r # s => subs'[r] = subs[r]
      /\ subs'[s] = [active |-> TRUE, event |-> e, handler |-> h]
  BY <1>1, <1>2 DEF BusTypeOK
<1>6. BusTypeOK'
  BY <1>1, <1>3, <1>4 DEF BusTypeOK
<1>7. NoDuplicates'
  BY <1>1, <1>3, <1>4, <1>5 DEF NoDuplicates, Active, Holds
<1>8. FramesInv'
  <2>1. ASSUME NEW f, FrameInv(subs, f) PROVE FrameInv(subs', f)
    BY <1>2, <1>5, <2>1 DEF FrameInv, HoldsIn
  <2> QED
    BY <1>1, <1>3, <2>1 DEF FramesInv
<1> QED
  BY <1>4, <1>6, <1>7, <1>8 DEF BusInv

LEMMA UnsubscribeStep ==
  ASSUME BusInv, NEW e \in Events, NEW h \in Handlers, Unsubscribe(e, h)
  PROVE  BusInv'
<1>1. BusTypeOK /\ CountMatches /\ NoDuplicates /\ FramesInv
  BY DEF BusInv
<1>2. PICK s \in BusSlot : Holds(s, e, h) /\ subs' = [subs EXCEPT ![s] = FreeSub]
  BY DEF Unsubscribe
<1>3. Forget({h}, {e}) /\ active_count' = active_count - 1
  BY DEF Unsubscribe
<1>4. /\ subs' \in [BusSlot -> Sub] /\ active_count' \in 0 .. BusCapacity
      /\ Active' = Active \ {s}
      /\ CountMatches'
  BY <1>1, <1>2, <1>3, PoolFrees DEF Holds
<1>5. \A r \in BusSlot : r # s => subs'[r] = subs[r]
  BY <1>1, <1>2 DEF BusTypeOK
<1>6. BusTypeOK'
  BY <1>1, <1>3, <1>4, ForgetIs DEF BusTypeOK
<1>7. NoDuplicates'
  BY <1>1, <1>4, <1>5 DEF NoDuplicates, Active
<1>8. FramesInv'
  <2>1. ASSUME NEW f \in Frame, FrameInv(subs, f)
        PROVE  FrameInv(subs', Forgotten(f, {h}, {e}))
    <3> DEFINE g == Forgotten(f, {h}, {e})
    <3>1. /\ g.slot = f.slot /\ g.calling = f.calling /\ g.event = f.event
          /\ g.owed \subseteq f.owed /\ g.called \subseteq f.called
          /\ f.event = e => h \notin g.owed /\ h \notin g.called
      BY DEF Forgotten, Frame
    <3> HIDE DEF g
    <3>2. ASSUME NEW x \in g.owed \cup g.called, NEW r \in BusSlot,
                 HoldsIn(subs, r, f.event, x)
          PROVE  HoldsIn(subs', r, f.event, x)
      <4>1. r # s
        BY <1>2, <3>1, <3>2 DEF HoldsIn, Holds
      <4> QED
        BY <1>5, <3>2, <4>1 DEF HoldsIn
    <3>3. \A r \in BusSlot : Ahead(g, r) <=> Ahead(f, r)
      BY <3>1 DEF Ahead
    <3>4. FrameInv(subs', g)
      BY <2>1, <3>1, <3>2, <3>3 DEF FrameInv
    <3> QED
      BY <3>4 DEF g
  <2> QED
    BY <1>1, <1>3, <2>1, ForgetIs, FramesAre DEF FramesInv
<1> QED
  BY <1>4, <1>6, <1>7, <1>8 DEF BusInv

LEMMA ResetStep ==
  ASSUME BusInv, BusReset
  PROVE  BusInv'
<1>1. BusTypeOK /\ FramesInv
  BY DEF BusInv
<1>2. /\ subs' = [s \in BusSlot |-> FreeSub] /\ active_count' = 0
      /\ Forget(Handlers, Events)
  BY DEF BusReset
<1>3. FreeSub \in Sub /\ ~FreeSub.active
  BY DEF FreeSub, Sub
<1>4. Active' = {}
  BY <1>2, <1>3 DEF Active
<1>5. BusTypeOK'
  BY <1>1, <1>2, <1>3, ForgetIs DEF BusTypeOK
<1>6. CountMatches' /\ NoDuplicates'
  BY <1>2, <1>4, FS_EmptySet DEF CountMatches, NoDuplicates
<1>7. FramesInv'
  <2>1. ASSUME NEW f \in Frame, FrameInv(subs, f)
        PROVE  FrameInv(subs', Forgotten(f, Handlers, Events))
    <3>1. /\ Forgotten(f, Handlers, Events).owed = {}
          /\ Forgotten(f, Handlers, Events).called = {}
          /\ Forgotten(f, Handlers, Events).slot = f.slot
          /\ Forgotten(f, Handlers, Events).calling = f.calling
      BY DEF Forgotten, Frame
    <3> QED
      BY <2>1, <3>1 DEF FrameInv
  <2> QED
    BY <1>1, <1>2, <2>1, ForgetIs, FramesAre DEF FramesInv
<1> QED
  BY <1>5, <1>6, <1>7 DEF BusInv

LEMMA PublishBeginStep ==
  ASSUME BusInv, NEW e \in Events, PublishBegin(e)
  PROVE  BusTypeOK' /\ FramesInv'
<1>1. BusTypeOK /\ FramesInv
  BY DEF BusInv
<1> DEFINE f == [event |-> e, slot |-> 0, calling |-> FALSE,
                 owed |-> Subscribers(e), called |-> {}]
<1>2. frames' = Append(frames, f) /\ UNCHANGED <<subs, active_count>>
  BY DEF PublishBegin
<1>3. f \in Frame
  BY DEF Frame, Subscribers
<1>4. FrameInv(subs, f)
  BY DEF FrameInv, Subscribers, Holds, HoldsIn, Ahead, BusSlot
<1> HIDE DEF f
<1>5. /\ frames' \in Seq(Frame) /\ Len(frames') = Len(frames) + 1
      /\ \A k \in 1 .. Len(frames) : frames'[k] = frames[k]
      /\ frames'[Len(frames) + 1] = f
  BY <1>1, <1>2, <1>3, AppendProperties DEF BusTypeOK
<1>6. BusTypeOK'
  BY <1>1, <1>2, <1>5 DEF BusTypeOK
<1>7. /\ DOMAIN frames' = 1 .. Len(frames) + 1
      /\ DOMAIN frames = 1 .. Len(frames) /\ Len(frames) \in Nat
  BY <1>1, <1>5, FramesAre, LenProperties
<1>8. FramesInv'
  <2> SUFFICES ASSUME NEW k \in DOMAIN frames' PROVE FrameInv(subs', frames'[k])
    BY DEF FramesInv
  <2>1. CASE k = Len(frames) + 1
    BY <1>2, <1>4, <1>5, <2>1
  <2>2. CASE k # Len(frames) + 1
    <3>1. k \in DOMAIN frames /\ frames'[k] = frames[k]
      BY <1>5, <1>7, <2>2
    <3> QED
      BY <1>1, <1>2, <3>1 DEF FramesInv
  <2> QED
    BY <2>1, <2>2
<1> QED
  BY <1>6, <1>8

LEMMA PublishSkipStep ==
  ASSUME BusInv, NEW s \in BusSlot, PublishSkip(s)
  PROVE  BusTypeOK' /\ FramesInv'
<1>1. BusTypeOK /\ FramesInv /\ ~Idle /\ Top \in Frame /\ FrameInv(subs, Top)
  BY FramesAre DEF BusInv, PublishSkip, Scanning, FramesInv, Top
<1> DEFINE f == [Top EXCEPT !.slot = @ + 1]
<1>2. /\ ~Top.calling /\ Top.slot = s
      /\ ~(subs[s].active /\ subs[s].event = Top.event)
      /\ SetTop(f) /\ UNCHANGED <<subs, active_count>>
  BY DEF PublishSkip, Scanning
<1>3. /\ f \in Frame
      /\ f.slot = s + 1 /\ f.calling = FALSE /\ f.event = Top.event
      /\ f.owed = Top.owed /\ f.called = Top.called
  BY <1>1, <1>2 DEF Frame, BusSlot
<1> HIDE DEF f
<1>4. FrameInv(subs, f)
  <2>1. ASSUME NEW h, NEW r \in BusSlot, HoldsIn(subs, r, Top.event, h)
        PROVE  Ahead(f, r) <=> Ahead(Top, r)
    <3>1. r # s
      BY <1>2, <2>1 DEF HoldsIn
    <3> QED
      BY <1>2, <1>3, <3>1 DEF Ahead, BusSlot
  <2> QED
    BY <1>1, <1>3, <2>1 DEF FrameInv
<1> QED
  BY <1>1, <1>2, <1>3, <1>4, TopKeeps

LEMMA PublishCallStep ==
  ASSUME BusInv, NEW s \in BusSlot, PublishCall(s)
  PROVE  BusTypeOK' /\ FramesInv'
<1>1. /\ BusTypeOK /\ FramesInv /\ NoDuplicates
      /\ ~Idle /\ Top \in Frame /\ FrameInv(subs, Top)
  BY FramesAre DEF BusInv, PublishCall, Scanning, FramesInv, Top
<1> DEFINE d == subs[s].handler
           f == [Top EXCEPT !.calling = TRUE, !.owed = @ \ {d}, !.called = @ \cup {d}]
<1>2. /\ ~Top.calling /\ Top.slot = s
      /\ subs[s].active /\ subs[s].event = Top.event
      /\ SetTop(f) /\ UNCHANGED <<subs, active_count>>
  BY DEF PublishCall, Scanning
<1>3. d \in Handlers /\ HoldsIn(subs, s, Top.event, d)
  BY <1>1, <1>2 DEF NoDuplicates, Active, HoldsIn
<1>4. /\ f \in Frame
      /\ f.slot = s /\ f.calling = TRUE /\ f.event = Top.event
      /\ f.owed = Top.owed \ {d} /\ f.called = Top.called \cup {d}
  BY <1>1, <1>2, <1>3 DEF Frame
<1> HIDE DEF f
<1>5. FrameInv(subs, f)
  <2>1. ASSUME NEW h \in f.owed
        PROVE  \E r \in BusSlot : HoldsIn(subs, r, f.event, h) /\ Ahead(f, r)
    <3>1. PICK r \in BusSlot : HoldsIn(subs, r, Top.event, h) /\ Ahead(Top, r)
      BY <1>1, <1>4, <2>1 DEF FrameInv
    <3>2. r # s
      BY <1>4, <2>1, <3>1 DEF HoldsIn
    <3>3. Ahead(f, r)
      BY <1>2, <1>4, <3>1, <3>2 DEF Ahead, BusSlot
    <3> QED
      BY <1>4, <3>1, <3>3
  <2>2. ASSUME NEW h \in f.called
        PROVE  \E r \in BusSlot : HoldsIn(subs, r, f.event, h) /\ ~Ahead(f, r)
    <3>1. CASE h = d
      BY <1>3, <1>4, <3>1 DEF Ahead, BusSlot
    <3>2. CASE h # d
      <4>1. PICK r \in BusSlot : HoldsIn(subs, r, Top.event, h) /\ ~Ahead(Top, r)
        BY <1>1, <1>4, <2>2, <3>2 DEF FrameInv
      <4>2. ~Ahead(f, r)
        BY <1>2, <1>4, <4>1 DEF Ahead, BusSlot
      <4> QED
        BY <1>4, <4>1, <4>2
    <3> QED
      BY <3>1, <3>2
  <2> QED
    BY <1>4, <2>1, <2>2 DEF FrameInv
<1> QED
  BY <1>1, <1>2, <1>4, <1>5, TopKeeps

LEMMA HandlerReturnStep ==
  ASSUME BusInv, HandlerReturn
  PROVE  BusTypeOK' /\ FramesInv'
<1>1. /\ BusTypeOK /\ FramesInv /\ ~Idle /\ Top \in Frame /\ FrameInv(subs, Top)
  BY FramesAre DEF BusInv, HandlerReturn, FramesInv, Top
<1> DEFINE f == [Top EXCEPT !.slot = @ + 1, !.calling = FALSE]
<1>2. Top.calling /\ SetTop(f) /\ UNCHANGED <<subs, active_count>>
  BY DEF HandlerReturn
<1>3. Top.slot \in BusSlot
  BY <1>1, <1>2 DEF FrameInv
<1>4. /\ f \in Frame
      /\ f.slot = Top.slot + 1 /\ f.calling = FALSE /\ f.event = Top.event
      /\ f.owed = Top.owed /\ f.called = Top.called
  <2> DEFINE n == Top.slot + 1
  <2>1. n \in 0 .. BusCapacity
    BY <1>3 DEF BusSlot
  <2> HIDE DEF n
  <2>2. f = [Top EXCEPT !.slot = n, !.calling = FALSE]
    BY DEF n
  <2> QED
    BY <1>1, <2>1, <2>2 DEF Frame, n
<1> HIDE DEF f
<1>5. \A r \in BusSlot : Ahead(f, r) <=> Ahead(Top, r)
  BY <1>2, <1>3, <1>4 DEF Ahead, BusSlot
<1>6. FrameInv(subs, f)
  BY <1>1, <1>4, <1>5 DEF FrameInv
<1> QED
  BY <1>1, <1>2, <1>4, <1>6, TopKeeps

LEMMA PublishEndStep ==
  ASSUME BusInv, PublishEnd
  PROVE  BusTypeOK' /\ FramesInv'
<1>1. /\ BusTypeOK /\ FramesInv /\ frames \in Seq(Frame)
      /\ Len(frames) \in Nat \ {0} /\ DOMAIN frames = 1 .. Len(frames)
      /\ \A k \in DOMAIN frames : frames[k] \in Frame
  BY FramesAre, EmptySeq DEF BusInv, PublishEnd, Idle, BusTypeOK
<1> DEFINE n == Len(frames) - 1
<1>2. n \in 0 .. Len(frames) /\ n \in Nat
  BY <1>1
<1>3. frames' = SubSeq(frames, 1, n) /\ UNCHANGED <<subs, active_count>>
  BY DEF PublishEnd
<1> HIDE DEF n
<1>4. \A k \in 1 .. n : frames[k] \in Frame
  BY <1>1, <1>2
<1>5. /\ frames' \in Seq(Frame) /\ Len(frames') = n
      /\ \A k \in 1 .. n : frames'[k] = frames[k]
  BY <1>1, <1>2, <1>3, <1>4, SubSeqProperties
<1>6. DOMAIN frames' = 1 .. n
  BY <1>5, LenProperties
<1>7. BusTypeOK'
  BY <1>1, <1>3, <1>5 DEF BusTypeOK
<1>8. FramesInv'
  BY <1>1, <1>2, <1>3, <1>5, <1>6 DEF FramesInv
<1> QED
  BY <1>7, <1>8

LEMMA BusStep ==
  ASSUME BusInv, [BusNext]_busVars
  PROVE  BusInv'
<1>1. CASE UNCHANGED busVars
  BY <1>1 DEF busVars, BusInv, BusTypeOK, CountMatches, NoDuplicates, FramesInv, Active
<1>2. ASSUME UNCHANGED <<subs, active_count>> PROVE CountMatches' /\ NoDuplicates'
  BY <1>2 DEF BusInv, CountMatches, NoDuplicates, Active
<1>3. ASSUME NEW e \in Events, PublishBegin(e) PROVE BusInv'
  BY <1>2, <1>3, PublishBeginStep DEF PublishBegin, BusInv
<1>4. ASSUME NEW s \in BusSlot, PublishSkip(s) PROVE BusInv'
  BY <1>2, <1>4, PublishSkipStep DEF PublishSkip, BusInv
<1>5. ASSUME NEW s \in BusSlot, PublishCall(s) PROVE BusInv'
  BY <1>2, <1>5, PublishCallStep DEF PublishCall, BusInv
<1>6. CASE HandlerReturn
  BY <1>2, <1>6, HandlerReturnStep DEF HandlerReturn, BusInv
<1>7. CASE PublishEnd
  BY <1>2, <1>7, PublishEndStep DEF PublishEnd, BusInv
<1> QED
  BY <1>1, <1>3, <1>4, <1>5, <1>6, <1>7, SubscribeStep, UnsubscribeStep, ResetStep
     DEF BusNext, PublishStep

LEMMA BusAlways == BusSpec => []BusInv
<1>1. BusInit => BusInv
  <2> SUFFICES ASSUME BusInit PROVE BusInv
    OBVIOUS
  <2>1. FreeSub \in Sub /\ ~FreeSub.active
    BY DEF FreeSub, Sub
  <2>2. Active = {}
    BY <2>1 DEF BusInit, Active
  <2>3. <<>> \in Seq(Frame) /\ DOMAIN <<>> = {}
    BY EmptySeq
  <2> QED
    BY <2>1, <2>2, <2>3, FS_EmptySet
       DEF BusInit, BusInv, BusTypeOK, CountMatches, NoDuplicates, FramesInv
<1>2. BusInv /\ [BusNext]_busVars => BusInv'
  BY BusStep
<1> QED
  BY <1>1, <1>2, PTL DEF BusSpec

-----------------------------------------------------------------------------
(* What follows                                                            *)

\* The pool, its counter and the activations keep their types: the loop of a
\* publish does not leave the pool, whatever the handlers do.
THEOREM TypeCorrect == BusSpec => []BusTypeOK
<1>1. BusInv => BusTypeOK
  BY DEF BusInv
<1> QED
  BY <1>1, BusAlways, PTL

\* ds_event_sub_count reports the number of subscriptions in the pool.
THEOREM CountIsRight == BusSpec => []CountMatches
<1>1. BusInv => CountMatches
  BY DEF BusInv
<1> QED
  BY <1>1, BusAlways, PTL

\* A handler is subscribed to an event at most once, and a slot in use has a
\* handler and an event.
THEOREM SubscribedOnce == BusSpec => []NoDuplicates
<1>1. BusInv => NoDuplicates
  BY DEF BusInv
<1> QED
  BY <1>1, BusAlways, PTL

\* A handler subscribed during the whole of a publish is called by it, whatever
\* the other handlers subscribe, unsubscribe, reset and publish meanwhile.
THEOREM CalledAtLeastOnce == BusSpec => []AtLeastOnce
<1>1. BusInv => AtLeastOnce
  <2> SUFFICES ASSUME BusInv, NEW k \in DOMAIN frames, frames[k].slot = BusCapacity,
                      NEW h \in frames[k].owed
               PROVE  FALSE
    BY DEF AtLeastOnce
  <2>1. \E s \in BusSlot : Ahead(frames[k], s)
    BY DEF BusInv, FramesInv, FrameInv
  <2> QED
    BY <2>1 DEF Ahead, BusSlot
<1> QED
  BY <1>1, BusAlways, PTL

\* A publish does not call a handler again that has stayed subscribed since the
\* publish called it.
THEOREM CalledAtMostOnce == BusSpec => AtMostOnce
<1>1. BusInv => \A s \in BusSlot : Scanning(s) /\ PublishCall(s)
                                  => subs[s].handler \notin Top.called
  <2> SUFFICES ASSUME BusInv, NEW s \in BusSlot, Scanning(s), PublishCall(s),
                      subs[s].handler \in Top.called
               PROVE  FALSE
    OBVIOUS
  <2>1. /\ FrameInv(subs, Top) /\ ~Top.calling /\ Top.slot = s
        /\ subs[s].active /\ subs[s].event = Top.event
    BY FramesAre DEF BusInv, FramesInv, Scanning, PublishCall, Top
  <2>2. PICK r \in BusSlot :
          HoldsIn(subs, r, Top.event, subs[s].handler) /\ ~Ahead(Top, r)
    BY <2>1 DEF FrameInv
  <2>3. r # s
    BY <2>1, <2>2 DEF Ahead, BusSlot
  <2> QED
    BY <2>1, <2>2, <2>3 DEF BusInv, NoDuplicates, Active, HoldsIn
<1> QED
  BY <1>1, BusAlways, PTL DEF AtMostOnce
=============================================================================
