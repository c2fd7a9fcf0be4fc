------------------------- MODULE ContinuationHandoff -------------------------
(***************************************************************************)
(* What a ContinuationScheduler promises the one consumer that parks       *)
(* continuations in it (boltffi_core/src/runtime/continuation.rs): a slot  *)
(* that holds one parked continuation or one buffered wake, and a terminal *)
(* cancelled state.  Every operation takes effect in one step; a           *)
(* continuation is first claimed, by the call that must run it, and then   *)
(* run exactly once.                                                       *)
(***************************************************************************)
CONSTANT Continuation

VARIABLES slot,     \* "Empty", "Waked", "Cancelled" or the parked continuation
          phase,    \* how far each continuation is on its way
          signal    \* what each claimed or delivered continuation is told

vars == <<slot, phase, signal>>

Init ==
  /\ slot = "Empty"
  /\ phase = [c \in Continuation |-> "fresh"]
  /\ signal = [c \in Continuation |-> "none"]

(* The consumer offers c only once everything it offered before was run.   *)
Offers(c) ==
  /\ phase[c] = "fresh"
  /\ \A d \in Continuation : phase[d] \in {"fresh", "delivered"}

Claim(c, s) ==
  /\ phase' = [phase EXCEPT ![c] = "claimed"]
  /\ signal' = [signal EXCEPT ![c] = s]

Park(c) ==
  /\ Offers(c)
  /\ slot = "Empty"
  /\ slot' = c
  /\ phase' = [phase EXCEPT ![c] = "parked"]
  /\ UNCHANGED signal

TakeBufferedWake(c) ==
  /\ Offers(c)
  /\ slot = "Waked"
  /\ slot' = "Empty"
  /\ Claim(c, "wake")

Refuse(c) ==
  /\ Offers(c)
  /\ slot = "Cancelled"
  /\ Claim(c, "cancelled")
  /\ UNCHANGED slot

WakeParked(c) ==
  /\ slot = c
  /\ slot' = "Empty"
  /\ Claim(c, "wake")

BufferWake ==
  /\ slot = "Empty"
  /\ slot' = "Waked"
  /\ UNCHANGED <<phase, signal>>

CancelParked(c) ==
  /\ slot = c
  /\ slot' = "Cancelled"
  /\ Claim(c, "cancelled")

CancelIdle ==
  /\ slot \in {"Empty", "Waked"}
  /\ slot' = "Cancelled"
  /\ UNCHANGED <<phase, signal>>

Deliver(c) ==
  /\ phase[c] = "claimed"
  /\ phase' = [phase EXCEPT ![c] = "delivered"]
  /\ UNCHANGED <<slot, signal>>

Next ==
  \/ BufferWake
  \/ CancelIdle
  \/ \E c \in Continuation :
       \/ Park(c) \/ TakeBufferedWake(c) \/ Refuse(c)
       \/ WakeParked(c) \/ CancelParked(c)
       \/ Deliver(c)

Spec == Init /\ [][Next]_vars /\ \A c \in Continuation : WF_vars(Deliver(c))
=============================================================================
