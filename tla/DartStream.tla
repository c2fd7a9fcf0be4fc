------------------------------ MODULE DartStream ------------------------------
(***************************************************************************)
(* _$$BoltStreamCtx.stream (boltffi_backend/templates/target/dart/         *)
(* prelude.dart) reading one subscription from an isolate.  The listener   *)
(* that Rust runs posts a message, which the isolate handles in a turn of  *)
(* its own; so is a microtask, and the onCancel of the controller.         *)
(*                                                                         *)
(* Of Dart it models what the code relies on: turns do not overlap, and a  *)
(* listener that was closed delivers no message.                           *)
(***************************************************************************)
EXTENDS EventSubscription

VARIABLES
  turn,          \* where the isolate is in the code of the stream
  res,           \* what streamCallback was told last
  microtask,     \* a microtask is to call streamCallback again
  streamActive   \* active

dartStreamVars == <<turn, res, microtask, streamActive>>
dsVars == <<vars, dartStreamVars>>

DSInit ==
  /\ turn = "poll"
  /\ res = "none"
  /\ microtask = FALSE
  /\ streamActive = TRUE

DSPolls(p) ==
  /\ turn = "poll"
  /\ PollCall(p)
  /\ turn' = "polling"
  /\ UNCHANGED <<res, microtask, streamActive>>

DSPolled ==
  /\ turn = "polling"
  /\ \A p \in Poll : PollIsOver(p)
  /\ turn' = "out"
  /\ UNCHANGED <<vars, res, microtask, streamActive>>

(* streamCallback, as the handler of a message.                            *)
DSHears(p) ==
  /\ turn = "out" /\ streamActive
  /\ Heard(p) # "none"
  /\ res' = Heard(p)
  /\ Forget(p)
  /\ turn' = "drain"
  /\ UNCHANGED <<ringVars, active, push, wait, closing, refVars, touched, microtask, streamActive>>

(* onReady: a batch that is not full is the last.                          *)
Drained == IF res = "Closed" THEN "close" ELSE "poll"

DSPops ==
  /\ turn = "drain"
  /\ PopTakes
  /\ turn' = IF held' = <<>> THEN Drained ELSE "popping"
  /\ UNCHANGED <<res, microtask, streamActive>>

(* After _k$maxBatchesPerWake full batches, the next is left to a          *)
(* microtask.                                                              *)
DSHasBatch ==
  /\ turn = "popping"
  /\ PopReturns
  /\ \/ Len(held) < MaxBatch /\ turn' = Drained /\ UNCHANGED microtask
     \/ Len(held) = MaxBatch /\ turn' = "drain" /\ UNCHANGED microtask
     \/ Len(held) = MaxBatch /\ res = "Ready" /\ turn' = "out" /\ microtask' = TRUE
  /\ UNCHANGED <<res, streamActive>>

(* Mutant: the microtask does not ask whether the stream was cancelled.    *)
DSResumesAnyway ==
  /\ turn = "out" /\ microtask
  /\ microtask' = FALSE
  /\ turn' = "drain"
  /\ UNCHANGED <<vars, res, streamActive>>

DSResumes ==
  /\ turn = "out" /\ microtask
  /\ microtask' = FALSE
  /\ turn' = IF streamActive THEN "drain" ELSE "out"
  /\ UNCHANGED <<vars, res, streamActive>>

(* The arm of Closed, and onCancel: unsubscribe, then release.             *)
DSUnsubscribes ==
  /\ turn = "close" \/ (turn = "out" /\ streamActive)
  /\ UnsubscribeMarks("host")
  /\ streamActive' = FALSE
  /\ turn' = "unsubscribing"
  /\ UNCHANGED <<res, microtask>>

DSReleases ==
  /\ turn = "unsubscribing"
  /\ closing["host"] = "done"
  /\ Free
  /\ turn' = "out"
  /\ UNCHANGED <<res, microtask, streamActive>>

(* The isolate takes its turns, but nobody must cancel.                    *)
DSTurns ==
  \/ \E p \in Poll : DSPolls(p) \/ DSHears(p)
  \/ DSPolled \/ DSPops \/ DSHasBatch \/ DSResumes \/ DSReleases
  \/ turn = "close" /\ DSUnsubscribes

DSNext == DSTurns \/ DSUnsubscribes \/ (RustSide /\ UNCHANGED dartStreamVars)
=============================================================================
