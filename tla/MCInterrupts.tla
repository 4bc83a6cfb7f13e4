----------------------------- MODULE MCInterrupts -----------------------------
(***************************************************************************)
(* The two parts that an interrupt enters: the ring buffer with the UART   *)
(* receiver, and the timer pool with ds_timer_tick in a timer interrupt.   *)
(* They share no state, so one run explores them side by side: used tells  *)
(* which one is used and never changes, the other stays as it was made.    *)
(***************************************************************************)
EXTENDS UartExample

CONSTANTS
  TimerCapacity, Word, Periods, Elapses, Repeats, IdLimit, MaxDepth, CallbackMay,
  StartMasked

VARIABLES timers, next_id, frames, armed, stores, used

Isr == INSTANCE DsTimerIsr WITH Capacity <- TimerCapacity

ASSUME TimerAssumption ==
  /\ Isr!CapacityAssumption /\ Isr!WordAssumption
  /\ Isr!InputAssumption /\ Isr!BoundAssumption
  /\ Isr!StartMaskedAssumption

timerVars == <<timers, next_id, frames, armed, stores>>
mcVars == <<uartVars, timerVars, used>>

-----------------------------------------------------------------------------
\* What the buffer holds that is not used: one of its initial states.
RingUnused ==
  LET d == CHOOSE d \in Data : TRUE
  IN user = "uart" /\ buffer = [i \in Slot |-> d] /\ out = d

MCInit ==
  /\ used \in {"ring", "timer"}
  /\ UartInit
  /\ used = "timer" => RingUnused
  /\ Isr!IsrInit

MCNext ==
  /\ \/ used = "ring" /\ UartNext /\ UNCHANGED timerVars
     \/ used = "timer" /\ Isr!IsrNext /\ UNCHANGED uartVars
  /\ UNCHANGED used

\* The fairness of the receiver, see UartExample.
MCSpec ==
  /\ MCInit /\ [][MCNext]_mcVars
  /\ WF_uartVars(used = "ring" /\ user = "uart" /\ ReceiveRest)
  /\ SF_uartVars(used = "ring" /\ user = "uart" /\ MainLoop)

-----------------------------------------------------------------------------
(* Properties                                                              *)

\* A tick in an interrupt finds every call of the main loop done or not begun: see
\* DsTimerIsr.
CallsAtomic == Isr!CallsAtomic
=============================================================================
