--------------------------- MODULE TypeScriptStream ---------------------------
(***************************************************************************)
(* StreamSession and StreamPollManager (runtime/typescript/src/stream.ts)  *)
(* reading one subscription of a wasm module.  One thread runs both sides: *)
(* a call into the library runs to its end before JavaScript goes on, and  *)
(* the continuation (wasm_stream_wake of subscription.rs) calls back into  *)
(* the manager, which settles the promise of the poll that is pending.     *)
(*                                                                         *)
(* A session that is iterated once; its owner may unsubscribe or dispose   *)
(* of it whenever the iterator is suspended.                               *)
(***************************************************************************)
EXTENDS EventSubscription

VARIABLES
  iterator,       \* where the generator is
  closed,         \* the session's flags
  unsubscribed,
  disposing,      \* dispose() is about to free
  pending,        \* StreamPollManager.pending has the handle
  pollResult      \* what its promise was resolved with

typeScriptVars == <<iterator, closed, unsubscribed, disposing, pending, pollResult>>
tsVars == <<vars, typeScriptVars>>

TSInit ==
  /\ iterator = "created"
  /\ closed = FALSE
  /\ unsubscribed = FALSE
  /\ disposing = FALSE
  /\ pending = FALSE
  /\ pollResult = "none"

(* No call into the library is under way: JavaScript, or other Rust code,  *)
(* may run.                                                                *)
Idle ==
  /\ ~disposing
  /\ \A t \in Producer : push[t] = "idle"
  /\ \A p \in Poll : at[p] = "idle" \/ (at[p] = "parked" /\ phase[p] = "parked")
  /\ \A x \in Closer : closing[x] \in {"no", "done"}
  /\ strong = {} => dropped

-----------------------------------------------------------------------------
(* unsubscribe and dispose.                                                *)

TSUnsubscribes ==
  IF unsubscribed THEN UNCHANGED <<vars, unsubscribed>>
                  ELSE UnsubscribeMarks("host") /\ unsubscribed' = TRUE

Disposes ==
  IF closed THEN UNCHANGED <<vars, closed, unsubscribed, disposing>>
            ELSE closed' = TRUE /\ disposing' = TRUE /\ TSUnsubscribes

TSFrees ==
  /\ disposing
  /\ closing["host"] = "done"
  /\ Free
  /\ disposing' = FALSE
  /\ UNCHANGED <<iterator, closed, unsubscribed, pending, pollResult>>

(* The owner of the session, or cancel() of a StreamCancellable.           *)
OwnerLeaves ==
  /\ Idle /\ iterator \in {"created", "suspended", "await", "over"}
  /\ \/ ~unsubscribed /\ TSUnsubscribes /\ UNCHANGED <<closed, disposing>>
     \/ ~closed /\ Disposes
  /\ UNCHANGED <<iterator, pending, pollResult>>

-----------------------------------------------------------------------------
(* The generator.                                                          *)

(* Mutant: popBatch does not look at the flag.                             *)
TSPopsAnyway ==
  /\ Idle /\ iterator = "test"
  /\ PopTakes
  /\ iterator' = CASE held' # <<>>                              -> "popping"
                   [] held' = <<>> /\ pollResult = "Closed"     -> "finally"
                   [] held' = <<>> /\ pollResult # "Closed"     -> "poll"
  /\ UNCHANGED <<closed, unsubscribed, disposing, pending, pollResult>>

(* The loop looks at closed, and so does popBatch.                         *)
TSPops ==
  /\ Idle /\ iterator = "test"
  /\ \/ closed /\ iterator' = "finally" /\ UNCHANGED vars
     \/ /\ ~closed
        /\ PopTakes
        /\ iterator' = CASE held' # <<>>                              -> "popping"
                         [] held' = <<>> /\ pollResult = "Closed"     -> "finally"
                         [] held' = <<>> /\ pollResult # "Closed"     -> "poll"
  /\ UNCHANGED <<closed, unsubscribed, disposing, pending, pollResult>>

TSHasBatch ==
  /\ iterator = "popping"
  /\ PopReturns
  /\ iterator' = "suspended"
  /\ UNCHANGED <<closed, unsubscribed, disposing, pending, pollResult>>

(* The consumer asks for the next item, or returns from its loop.          *)
TSResumes ==
  /\ Idle
  /\ \/ iterator \in {"created", "suspended"} /\ iterator' = "test"
     \/ iterator = "suspended" /\ iterator' = "finally"
  /\ UNCHANGED <<vars, closed, unsubscribed, disposing, pending, pollResult>>

(* StreamPollManager.poll.                                                 *)
TSPolls(p) ==
  /\ Idle /\ iterator = "poll"
  /\ pending' = TRUE
  /\ PollCall(p)
  /\ iterator' = "await"
  /\ UNCHANGED <<closed, unsubscribed, disposing, pollResult>>

(* StreamPollManager.wake, inside the call that runs the continuation.     *)
TSWake(p) ==
  /\ Heard(p) # "none"
  /\ pollResult' = IF pending THEN Heard(p) ELSE pollResult
  /\ pending' = FALSE
  /\ Forget(p)
  /\ UNCHANGED <<ringVars, active, push, wait, closing, refVars, touched,
                 iterator, closed, unsubscribed, disposing>>

TSAwaits ==
  /\ Idle /\ iterator = "await" /\ ~pending
  /\ iterator' = IF closed THEN "finally" ELSE "test"
  /\ UNCHANGED <<vars, closed, unsubscribed, disposing, pending, pollResult>>

TSFinally ==
  /\ Idle /\ iterator = "finally"
  /\ Disposes
  /\ iterator' = "over"
  /\ UNCHANGED <<pending, pollResult>>

TSRuns ==
  \/ TSPops \/ TSHasBatch \/ TSResumes \/ TSAwaits \/ TSFinally \/ TSFrees
  \/ \E p \in Poll : TSPolls(p) \/ TSWake(p)

(* The Rust code of the module, which does not run while a call of         *)
(* JavaScript is under way.                                                *)
TSRustSide ==
  /\ Library \/ (Idle /\ iterator # "popping" /\ RustSide)
  /\ UNCHANGED typeScriptVars

TSNext == TSRuns \/ OwnerLeaves \/ TSRustSide
=============================================================================
