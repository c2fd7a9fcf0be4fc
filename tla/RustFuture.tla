----------------------------- MODULE RustFuture -----------------------------
(***************************************************************************)
(* One asynchronous call as the host sees it: a RustFuture handle          *)
(* (boltffi_core/src/runtime/future.rs) with its poll, complete, cancel    *)
(* and free, the Rust future inside it, and the executor that wakes it.    *)
(* The continuation slot is taken at the level of ContinuationHandoff,     *)
(* which ContinuationScheduler implements.                                 *)
(*                                                                         *)
(* Each poll is identified by the continuation it passes.  A poll is three *)
(* steps: it reads is_cancelled, polls the Rust future under the mutex,    *)
(* and stores its continuation; wakes, a cancel, or the next poll made     *)
(* from a continuation, come between them.                                 *)
(*                                                                         *)
(* This module is the operations; RustFutureHandshake is the most general  *)
(* host that keeps to the documented handshake; AsyncDrivers brings it     *)
(* together with the actual hosts.                                         *)
(***************************************************************************)
EXTENDS Naturals

CONSTANTS Poll,        \* the polls of the call
          MaxSpurious  \* bound: wakes beyond the one the future owes

ASSUME SpuriousAssumption == MaxSpurious \in Nat
ASSUME PollAssumption == Poll \cap {"Empty", "Waked", "Cancelled"} = {}

VARIABLES
  slot, phase, signal,  \* the continuation slot
  exec,                 \* future_execution_state
  inner,                \* whether the Rust future has what it waits for
  waker,                \* whether it holds a waker of its last poll
  waking, spurious,     \* wakes under way, and how many were spurious
  at,                   \* where each poll is
  taking, result,       \* the complete call and what it returned
  freed,                \* the handle: "no", "marked" by free or "passed", when the
                        \* mark was there already, then "dropped"
  touched,              \* history: the handle was used after that
  cancels               \* history: cancel was called

slotVars == <<slot, phase, signal>>
rustVars == <<exec, inner, waker>>
hostVars == <<taking, result, freed, touched, cancels>>
vars == <<slotVars, rustVars, waking, spurious, at, hostVars>>

Slot == INSTANCE ContinuationHandoff WITH Continuation <- Poll

TypeOK ==
  /\ slot \in {"Empty", "Waked", "Cancelled"} \cup Poll
  /\ phase \in [Poll -> {"fresh", "parked", "claimed", "delivered"}]
  /\ signal \in [Poll -> {"none", "wake", "cancelled"}]
  /\ exec \in {"Running", "Complete", "Failed", "Consumed"}
  /\ inner \in {"pending", "ready"}
  /\ waker \in BOOLEAN
  /\ waking \in 0..(MaxSpurious + 1)
  /\ spurious \in 0..MaxSpurious
  /\ at \in [Poll -> {"idle", "entered", "checked", "pending", "ready", "answered",
                      "parked", "taking", "refused"}]
  /\ taking \in {"no", "locked", "empty", "done"}
  /\ result \in {"none", "ok", "failed", "cancelled", "internal"}
  /\ freed \in {"no", "marked", "passed", "dropped"}
  /\ touched \in BOOLEAN
  /\ cancels \in BOOLEAN

(* rust_future_new starts Running; rust_future_invalid_arg starts Failed.  *)
Init ==
  /\ Slot!Init
  /\ exec \in {"Running", "Failed"}
  /\ inner = "pending"
  /\ waker = FALSE
  /\ waking = 0
  /\ spurious = 0
  /\ at = [p \in Poll |-> "idle"]
  /\ taking = "no"
  /\ result = "none"
  /\ freed = "no"
  /\ touched = FALSE
  /\ cancels = FALSE

(* A step that dereferences the handle.                                    *)
Touch == touched' = (touched \/ freed = "dropped")

Move(p, l) == at' = [at EXCEPT ![p] = l]

isCancelled == slot = "Cancelled"
isFinished == exec \in {"Complete", "Failed", "Consumed"}

-----------------------------------------------------------------------------
(* poll                                                                    *)

PollCall(p) ==
  /\ at[p] = "idle"
  /\ Move(p, "entered")
  /\ Touch
  /\ UNCHANGED <<slotVars, rustVars, waking, spurious, taking, result, freed, cancels>>

PollReadsCancelled(p) ==
  /\ at[p] = "entered"
  /\ Move(p, IF isCancelled THEN "ready" ELSE "checked")
  /\ Touch
  /\ UNCHANGED <<slotVars, rustVars, waking, spurious, taking, result, freed, cancels>>

(* poll_future_once: a pending Rust future keeps the waker of this poll.   *)
PollOnce(p) ==
  /\ at[p] = "checked"
  /\ \/ /\ isFinished
        /\ Move(p, "ready")
        /\ UNCHANGED rustVars
     \/ /\ ~isFinished /\ inner = "ready"
        /\ exec' = "Complete"
        /\ Move(p, "ready")
        /\ UNCHANGED <<inner, waker>>
     \/ /\ ~isFinished /\ inner = "pending"
        /\ waker' = TRUE
        /\ Move(p, "pending")
        /\ UNCHANGED <<exec, inner>>
  /\ Touch
  /\ UNCHANGED <<slotVars, waking, spurious, taking, result, freed, cancels>>

(* The poll itself runs the continuation, with Ready.                      *)
PollAnswers(p) ==
  /\ at[p] = "ready"
  /\ Move(p, "answered")
  /\ UNCHANGED <<slotVars, rustVars, waking, spurious, hostVars>>

(* Mutant: parks over a buffered wake.                                     *)
PollStoresOverWake(p) ==
  /\ at[p] = "pending"
  /\ \/ /\ slot \in {"Empty", "Waked"}
        /\ slot' = p
        /\ phase' = [phase EXCEPT ![p] = "parked"]
        /\ UNCHANGED signal
        /\ Move(p, "parked")
     \/ Slot!Refuse(p) /\ Move(p, "refused")
  /\ Touch
  /\ UNCHANGED <<rustVars, waking, spurious, taking, result, freed, cancels>>

(* Not ready: the continuation goes to the slot, the poll's last use of    *)
(* the handle.                                                             *)
PollStores(p) ==
  /\ at[p] = "pending"
  /\ \/ Slot!Park(p) /\ Move(p, "parked")
     \/ Slot!TakeBufferedWake(p) /\ Move(p, "taking")
     \/ Slot!Refuse(p) /\ Move(p, "refused")
  /\ Touch
  /\ UNCHANGED <<rustVars, waking, spurious, taking, result, freed, cancels>>

(* A cancel, or a free, has marked the slot and is on its way to run the   *)
(* continuation that was parked in it.                                     *)
CancelDelivers(p) == at[p] = "parked" /\ phase[p] = "claimed" /\ signal[p] = "cancelled"
CancelReturned == \A p \in Poll : ~CancelDelivers(p)

(* The slot runs the continuation: from a wake, a cancel or the store.     *)
(* One that was parked is first read from the cells of the slot: through   *)
(* the handle by a cancel, through the Arc it holds by a waker.            *)
Deliver(p) ==
  /\ Slot!Deliver(p)
  /\ touched' = (touched \/ (freed = "dropped" /\ CancelDelivers(p)))
  /\ UNCHANGED <<rustVars, waking, spurious, at, taking, result, freed, cancels>>

(* Mutant: the policy's wake() is Ready, as it is for streams.             *)
HeardStreamPolicy(p) ==
  IF at[p] = "answered" \/ phase[p] = "delivered" THEN "Ready" ELSE "none"

(* What the continuation of p told the host, "none" while it did not run.  *)
Heard(p) ==
  CASE at[p] = "answered"                                  -> "Ready"
    [] phase[p] = "delivered" /\ signal[p] = "wake"        -> "MaybeReady"
    [] phase[p] = "delivered" /\ signal[p] = "cancelled"   -> "Ready"
    [] OTHER                                               -> "none"

-----------------------------------------------------------------------------
(* complete, cancel and free                                               *)

CompleteLocks ==
  /\ taking = "no"
  /\ \/ /\ exec = "Complete"
        /\ exec' = "Consumed" /\ result' = "ok" /\ taking' = "done"
     \/ /\ exec = "Failed"
        /\ exec' = "Consumed" /\ result' = "failed" /\ taking' = "done"
     \/ /\ exec \in {"Running", "Consumed"}
        /\ taking' = "empty"
        /\ UNCHANGED <<exec, result>>
  /\ Touch
  /\ UNCHANGED <<slotVars, inner, waker, waking, spurious, at, freed, cancels>>

(* Nothing to take: the status is chosen after the mutex is released.      *)
CompleteWithout ==
  /\ taking = "empty"
  /\ taking' = "done"
  /\ result' = IF isCancelled THEN "cancelled" ELSE "internal"
  /\ Touch
  /\ UNCHANGED <<slotVars, rustVars, waking, spurious, at, freed, cancels>>

(* Mutant: marks without running the parked continuation.                  *)
MarkCancelledSilent ==
  /\ slot' = "Cancelled"
  /\ UNCHANGED <<phase, signal>>

MarkCancelled ==
  \/ \E p \in Poll : Slot!CancelParked(p)
  \/ Slot!CancelIdle
  \/ isCancelled /\ UNCHANGED slotVars

Cancel ==
  /\ MarkCancelled
  /\ cancels' = TRUE
  /\ Touch
  /\ UNCHANGED <<rustVars, waking, spurious, at, taking, result, freed>>

(* free marks the future cancelled, which runs a parked continuation, and  *)
(* only then drops the Arc.  The continuation that somebody else's cancel  *)
(* is still about to run it neither runs nor waits for.                    *)
FreeMarks ==
  /\ freed = "no"
  /\ freed' = IF CancelReturned THEN "marked" ELSE "passed"
  /\ MarkCancelled
  /\ UNCHANGED <<rustVars, waking, spurious, at, taking, result, touched, cancels>>

FreeDrops ==
  /\ freed \in {"marked", "passed"}
  /\ freed = "marked" => CancelReturned
  /\ freed' = "dropped"
  /\ UNCHANGED <<slotVars, rustVars, waking, spurious, at, taking, result, touched, cancels>>

-----------------------------------------------------------------------------
(* The Rust future and its executor.  A waker holds the wake target, not   *)
(* the future, so a wake does not use the handle.                          *)

InnerReady ==
  /\ inner = "pending"
  /\ inner' = "ready"
  /\ waker' = FALSE
  /\ waking' = IF waker THEN waking + 1 ELSE waking
  /\ UNCHANGED <<slotVars, exec, spurious, at, hostVars>>

SpuriousWake ==
  /\ waker
  /\ spurious < MaxSpurious
  /\ spurious' = spurious + 1
  /\ waking' = waking + 1
  /\ UNCHANGED <<slotVars, rustVars, at, hostVars>>

(* wake_continuation *)
Wake ==
  /\ waking > 0
  /\ waking' = waking - 1
  /\ \/ \E p \in Poll : Slot!WakeParked(p)
     \/ Slot!BufferWake
     \/ slot \in {"Waked", "Cancelled"} /\ UNCHANGED slotVars
  /\ UNCHANGED <<rustVars, spurious, at, hostVars>>

Library ==
  \/ \E p \in Poll :
       PollReadsCancelled(p) \/ PollOnce(p) \/ PollAnswers(p) \/ PollStores(p) \/ Deliver(p)
  \/ CompleteWithout
  \/ Wake

-----------------------------------------------------------------------------
(* What a host can tell of its polls.                                      *)

Called(p) == at[p] # "idle"
Outstanding(p) == Called(p) /\ Heard(p) = "none"

(* The native poll returns when its continuation is parked or was run by   *)
(* the poll itself.                                                        *)
PollReturned(p) ==
  \/ at[p] \in {"answered", "parked"}
  \/ at[p] \in {"taking", "refused"} /\ phase[p] = "delivered"

InsidePoll(p) == at[p] \in {"entered", "checked", "pending"}
ToldReady == \E p \in Poll : Heard(p) = "Ready"

-----------------------------------------------------------------------------
(* The handle is never used once its Arc was dropped: with_future borrows  *)
(* the Arc without counting it (future.rs, RustFutureHandleAccess).        *)
NoUseAfterFree == ~touched

(* complete tells the truth: a result only when the Rust future produced   *)
(* one, CANCELLED only after a cancel, and never INTERNAL_ERROR when the   *)
(* host completes because it was told Ready.                               *)
OutcomeSound ==
  /\ result = "ok" => inner = "ready"
  /\ result = "cancelled" => cancels
  /\ result # "internal"

(* A wake in the gap between "Pending" and the store of the continuation   *)
(* is not lost: no continuation stays parked over a future that is ready   *)
(* unless a wake is still to come.                                         *)
NoSilentWait ==
  \A p \in Poll :
    (phase[p] = "parked" /\ inner = "ready") => waking > 0
=============================================================================
