--------------------------- MODULE KotlinAsyncCall ---------------------------
(***************************************************************************)
(* boltffiCallAsync (boltffi_backend/templates/target/kotlin/runtime/      *)
(* async.kt) driving one RustFuture: a coroutine that suspends once per    *)
(* poll, the continuation map both the JNI callback and the cancellation   *)
(* handler remove from, and a job that may be cancelled at any time.       *)
(*                                                                         *)
(* Of kotlinx.coroutines it models what the code relies on: a suspension   *)
(* is resumed once, by a value or by cancellation; the cancellation        *)
(* handler has returned, and so has the block of the suspension, before    *)
(* the coroutine runs on; a coroutine resumed with a value and cancelled   *)
(* before it is dispatched runs on as cancelled.                           *)
(***************************************************************************)
EXTENDS RustFuture

CONSTANT NoPoll
ASSUME NoPollAssumption == NoPoll \notin Poll

VARIABLES
  co,        \* the coroutine: where in boltffiCallAsync it is
  current,   \* the poll of the suspension it is in
  map,       \* boltffiContinuationMap
  resuming,  \* callbacks that took their continuation and will resume it
  resumed,   \* what the suspension was resumed with
  job,       \* "active" or "cancelled"
  handler    \* the cancellation handler of the suspension

kotlinVars == <<co, current, map, resuming, resumed, job, handler>>
kVars == <<vars, kotlinVars>>

KTypeOK ==
  /\ TypeOK
  /\ co \in {"loop", "inline", "block", "polling", "suspended", "complete", "completing",
             "finally", "freeing", "returned", "thrown"}
  /\ current \in Poll \cup {NoPoll}
  /\ map \in SUBSET Poll
  /\ resuming \in SUBSET Poll
  /\ resumed \in {"none", "MaybeReady", "Ready", "cancelled"}
  /\ job \in {"active", "cancelled"}
  /\ handler \in {"none", "set", "remove", "cancel", "done"}

KInit ==
  /\ Init
  /\ co = "loop"
  /\ current = NoPoll
  /\ map = {}
  /\ resuming = {}
  /\ resumed = "none"
  /\ job = "active"
  /\ handler = "none"

(* insert(continuation) and invokeOnCancellation, which runs the handler   *)
(* at once when the job is already cancelled.  Which name a new poll has   *)
(* makes no difference.                                                    *)
Fresh(p) == ~Called(p) /\ p # current
Suspend(p) ==
  /\ co = "loop"
  /\ Fresh(p) /\ p = CHOOSE q \in Poll : Fresh(q)
  /\ current' = p
  /\ map' = map \cup {p}
  /\ IF job = "cancelled"
       THEN co' = "inline" /\ resumed' = "cancelled" /\ handler' = "remove"
       ELSE co' = "block" /\ resumed' = "none" /\ handler' = "set"
  /\ UNCHANGED <<vars, resuming, job>>

HandlerBusy == handler \in {"remove", "cancel"}

InlineHandlerReturns ==
  /\ co = "inline"
  /\ ~HandlerBusy
  /\ co' = "block"
  /\ UNCHANGED <<vars, current, map, resuming, resumed, job, handler>>

BlockPolls ==
  /\ co = "block"
  /\ PollCall(current)
  /\ co' = "polling"
  /\ UNCHANGED <<current, map, resuming, resumed, job, handler>>

BlockReturns ==
  /\ co = "polling"
  /\ PollReturned(current)
  /\ co' = "suspended"
  /\ UNCHANGED <<vars, current, map, resuming, resumed, job, handler>>

(* BoltFfiAsync.resume, called back from Rust: remove, then resumeWith,    *)
(* which a suspension that was already resumed or cancelled ignores.       *)
CallbackRemoves(p) ==
  /\ Heard(p) # "none"
  /\ p \in map
  /\ map' = map \ {p}
  /\ resuming' = resuming \cup {p}
  /\ UNCHANGED <<vars, co, current, resumed, job, handler>>

CallbackResumes(p) ==
  /\ p \in resuming
  /\ resuming' = resuming \ {p}
  /\ resumed' = IF p = current /\ resumed = "none" THEN Heard(p) ELSE resumed
  /\ UNCHANGED <<vars, co, current, map, job, handler>>

(* Cancellation of the job, and the handler if a suspension is active.     *)
JobCancels ==
  /\ job = "active"
  /\ co \notin {"returned", "thrown"}
  /\ job' = "cancelled"
  /\ IF co \in {"block", "polling", "suspended"} /\ resumed = "none"
       THEN resumed' = "cancelled" /\ handler' = "remove"
       ELSE UNCHANGED <<resumed, handler>>
  /\ UNCHANGED <<vars, co, current, map, resuming>>

(* Mutant: the handler leaves the continuation in the map.                 *)
HandlerLeaves ==
  /\ handler = "remove"
  /\ handler' = IF current \in map THEN "cancel" ELSE "done"
  /\ UNCHANGED <<vars, co, current, map, resuming, resumed, job>>

HandlerRemoves ==
  /\ handler = "remove"
  /\ map' = map \ {current}
  /\ handler' = IF current \in map THEN "cancel" ELSE "done"
  /\ UNCHANGED <<vars, co, current, resuming, resumed, job>>

HandlerCancels ==
  /\ handler = "cancel"
  /\ Cancel
  /\ handler' = "done"
  /\ UNCHANGED <<co, current, map, resuming, resumed, job>>

(* The coroutine runs on, once the handler and its cancel call returned.   *)
Dispatch ==
  /\ co = "suspended"
  /\ resumed # "none" /\ ~HandlerBusy /\ CancelReturned
  /\ \/ /\ job = "cancelled" \/ resumed = "cancelled"
        /\ co' = "finally"
     \/ /\ resumed = "MaybeReady"
        /\ co' = "loop"
     \/ /\ resumed = "Ready"
        /\ co' = "complete"
  /\ handler' = "none"
  /\ UNCHANGED <<vars, current, map, resuming, resumed, job>>

KCompletes ==
  /\ co = "complete"
  /\ CompleteLocks
  /\ co' = "completing"
  /\ UNCHANGED <<current, map, resuming, resumed, job, handler>>

KCompleted ==
  /\ co = "completing"
  /\ taking = "done"
  /\ co' = "finally"
  /\ UNCHANGED <<vars, current, map, resuming, resumed, job, handler>>

KFrees ==
  /\ co = "finally"
  /\ FreeMarks
  /\ co' = "freeing"
  /\ UNCHANGED <<current, map, resuming, resumed, job, handler>>

KFreed ==
  /\ co = "freeing"
  /\ FreeDrops
  /\ co' = IF result = "ok" THEN "returned" ELSE "thrown"
  /\ UNCHANGED <<current, map, resuming, resumed, job, handler>>

Coroutine ==
  \/ \E p \in Poll : Suspend(p) \/ CallbackRemoves(p) \/ CallbackResumes(p)
  \/ InlineHandlerReturns \/ BlockPolls \/ BlockReturns
  \/ HandlerRemoves \/ HandlerCancels
  \/ Dispatch
  \/ KCompletes \/ KCompleted \/ KFrees \/ KFreed

KNext ==
  \/ (Library \/ InnerReady \/ SpuriousWake) /\ UNCHANGED kotlinVars
  \/ Coroutine
  \/ JobCancels

(* Dispatchers run what is ready; nobody must cancel, and the Rust future  *)
(* may never become ready.                                                 *)
KSpec ==
  /\ KInit /\ [][KNext]_kVars
  /\ WF_kVars(Library /\ UNCHANGED kotlinVars)
  /\ WF_kVars(Coroutine)

-----------------------------------------------------------------------------

(* No continuation is left in the process-wide map when the call is over.  *)
MapEmptied == co \in {"returned", "thrown"} => map = {}
=============================================================================
