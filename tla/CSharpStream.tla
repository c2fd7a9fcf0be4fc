----------------------------- MODULE CSharpStream -----------------------------
(***************************************************************************)
(* ReadAll of a generated C# StreamRuntime (boltffi_backend/src/target/    *)
(* csharp/render/stream.rs), an asynchronous iterator that pops until a    *)
(* batch is empty and then blocks a thread of the pool in wait, for a      *)
(* tenth of a second at a time.                                            *)
(*                                                                         *)
(* Of .NET it models what the code relies on: Task.Run does not start what *)
(* was cancelled before, and does not stop what it started; an iterator    *)
(* that its consumer disposes of, between two items, runs its finally.     *)
(***************************************************************************)
EXTENDS EventSubscription

VARIABLES
  readAll,      \* where the iterator is
  streamToken   \* its cancellation token

csharpStreamVars == <<readAll, streamToken>>
csVars == <<vars, csharpStreamVars>>

CSInit ==
  /\ readAll = "read"
  /\ streamToken = "active"

CSReads ==
  /\ readAll = "read"
  /\ PopTakes
  /\ readAll' = IF held' = <<>> THEN "wait" ELSE "popping"
  /\ UNCHANGED streamToken

CSHasBatch ==
  /\ readAll = "popping"
  /\ PopReturns
  /\ readAll' = "yielding"
  /\ UNCHANGED streamToken

(* The consumer asks for what follows, or has done with the stream.        *)
CSYields ==
  /\ readAll = "yielding"
  /\ readAll' \in {"read", "finally"}
  /\ UNCHANGED <<vars, streamToken>>

CSWaits ==
  /\ readAll = "wait"
  /\ \/ streamToken = "cancelled" /\ readAll' = "finally" /\ UNCHANGED vars
     \/ streamToken = "active" /\ WaitCall /\ readAll' = "waiting"
  /\ UNCHANGED streamToken

(* An end is told before what the ring still holds is read.                *)
CSWaited ==
  /\ readAll = "waiting" /\ wait.at = "idle"
  /\ readAll' = IF wait.answer = "Unsubscribed" THEN "finally" ELSE "read"
  /\ UNCHANGED <<vars, streamToken>>

(* Mutant: frees, then unsubscribes.                                       *)
CSFinallySwapped ==
  /\ \/ readAll = "finally" /\ Free /\ readAll' = "unsubscribing"
     \/ /\ readAll = "unsubscribing"
        /\ closing["host"] = "no"
        /\ active' = FALSE
        /\ Touch
        /\ readAll' = "over"
        /\ UNCHANGED <<ringVars, slotVars, push, at, wait, closing, refVars>>
  /\ UNCHANGED streamToken

CSFinally ==
  /\ \/ readAll = "finally" /\ UnsubscribeMarks("host") /\ readAll' = "unsubscribing"
     \/ /\ readAll = "unsubscribing" /\ closing["host"] = "done"
        /\ Free
        /\ readAll' = "over"
  /\ UNCHANGED streamToken

CSCancelled ==
  /\ streamToken = "active" /\ readAll # "over"
  /\ streamToken' = "cancelled"
  /\ UNCHANGED <<vars, readAll>>

CSIterates == CSReads \/ CSHasBatch \/ CSYields \/ CSWaits \/ CSWaited \/ CSFinally

CSNext == CSIterates \/ CSCancelled \/ (RustSide /\ UNCHANGED csharpStreamVars)
=============================================================================
