---------------------------- MODULE DartAsyncCall ----------------------------
(***************************************************************************)
(* _$$BoltFFIAsync (boltffi_backend/templates/target/dart/prelude.dart)    *)
(* driving one RustFuture from an isolate.  The continuation Rust runs is  *)
(* a NativeCallable.listener: on whatever thread it runs, it only posts a  *)
(* message, which the isolate handles in a turn of its own.  A first poll  *)
(* that answers Ready is handled at once, and its message comes too.       *)
(*                                                                         *)
(* Of Dart it models what the code relies on: turns of an isolate do not   *)
(* overlap; a listener that was closed delivers no message, and must not   *)
(* be run by native code any more.                                         *)
(***************************************************************************)
EXTENDS RustFuture

CONSTANT NoMessage
ASSUME NoMessageAssumption == NoMessage \notin Poll

VARIABLES
  isolate,        \* where the isolate is in the code of the call
  lastPoll,       \* the poll made last
  pending,        \* whether the call is in _pending, its hook on the token
  _pollCallable,  \* the listener, "closed" while there is none
  received,       \* polls whose message was handled
  waitCancelled,  \* _$$BoltAsyncWait.cancelled
  dartToken,      \* the cancellation token
  completer       \* how the Dart future was completed

dartVars == <<isolate, lastPoll, pending, _pollCallable, received, waitCancelled,
              dartToken, completer>>
dtVars == <<vars, dartVars>>

DTTypeOK ==
  /\ TypeOK
  /\ isolate \in {"create", "created", "abandon", "abandoning", "first", "firstPolling",
                  "repoll", "polling", "idle", "ready", "complete", "completing",
                  "free", "freeing", "over"}
  /\ lastPoll \in Poll \cup {NoMessage}
  /\ pending \in BOOLEAN
  /\ _pollCallable \in {"open", "closed"}
  /\ received \in SUBSET Poll
  /\ waitCancelled \in BOOLEAN
  /\ dartToken \in {"active", "cancelled"}
  /\ completer \in {"none", "value", "error", "cancelled"}

DTInit ==
  /\ Init
  /\ isolate = "create"
  /\ lastPoll = NoMessage
  /\ pending = FALSE
  /\ _pollCallable = "closed"
  /\ received = {}
  /\ waitCancelled = FALSE
  /\ dartToken = "active"
  /\ completer = "none"

(* create(): the token is asked before the Rust future is created, and     *)
(* after it.                                                               *)
DTCreates ==
  /\ isolate = "create"
  /\ \/ /\ dartToken = "cancelled"
        /\ completer' = "cancelled"
        /\ isolate' = "over"
     \/ /\ dartToken = "active"
        /\ isolate' = "created"
        /\ UNCHANGED completer
  /\ UNCHANGED <<vars, lastPoll, pending, _pollCallable, received, waitCancelled, dartToken>>

DTCreated ==
  /\ isolate = "created"
  /\ \/ /\ dartToken = "cancelled"
        /\ Cancel
        /\ isolate' = "abandon"
        /\ UNCHANGED pending
     \/ /\ dartToken = "active"
        /\ pending' = TRUE
        /\ isolate' = "first"
        /\ UNCHANGED vars
  /\ UNCHANGED <<lastPoll, _pollCallable, received, waitCancelled, dartToken, completer>>

DTAbandons ==
  /\ \/ isolate = "abandon" /\ FreeMarks /\ isolate' = "abandoning" /\ UNCHANGED completer
     \/ isolate = "abandoning" /\ FreeDrops /\ isolate' = "over" /\ completer' = "cancelled"
  /\ UNCHANGED <<lastPoll, pending, _pollCallable, received, waitCancelled, dartToken>>

(* A poll, the first or a next one, with the listener opened if need be.   *)
(* Which name it has makes no difference.                                  *)
DTPolls(p) ==
  /\ isolate \in {"first", "repoll"}
  /\ p = CHOOSE q \in Poll : ~Called(q)
  /\ isolate' = IF isolate = "first" THEN "firstPolling" ELSE "polling"
  /\ PollCall(p)
  /\ lastPoll' = p
  /\ _pollCallable' = "open"
  /\ UNCHANGED <<pending, received, waitCancelled, dartToken, completer>>

(* The poll returns Ready if it ran the continuation with Ready itself,    *)
(* and only the first poll's return is looked at.                          *)
DTPolled ==
  LET p == lastPoll IN
  /\ isolate \in {"firstPolling", "polling"}
  /\ PollReturned(p)
  /\ isolate' = IF isolate = "firstPolling" /\ at[p] = "answered" THEN "ready" ELSE "idle"
  /\ UNCHANGED <<vars, lastPoll, pending, _pollCallable, received, waitCancelled,
                 dartToken, completer>>

(* _onPoll, as the handler of a message.                                   *)
DTReceives(p) ==
  /\ isolate \in {"idle", "over"} /\ _pollCallable = "open"
  /\ Heard(p) # "none" /\ p \notin received
  /\ received' = received \cup {p}
  /\ isolate' = CASE ~pending                            -> isolate
                  [] pending /\ Heard(p) = "Ready"       -> "ready"
                  [] pending /\ Heard(p) = "MaybeReady"  -> "repoll"
  /\ UNCHANGED <<vars, lastPoll, pending, _pollCallable, waitCancelled, dartToken, completer>>

(* Ready: out of the map, the token's hook detached.                       *)
DTReady ==
  /\ isolate = "ready"
  /\ pending' = FALSE
  /\ isolate' = IF waitCancelled THEN "free" ELSE "complete"
  /\ completer' = IF waitCancelled THEN "cancelled" ELSE completer
  /\ UNCHANGED <<vars, lastPoll, _pollCallable, received, waitCancelled, dartToken>>

DTCompletes ==
  /\ \/ /\ isolate = "complete"
        /\ CompleteLocks
        /\ isolate' = "completing"
        /\ UNCHANGED completer
     \/ /\ isolate = "completing" /\ taking = "done"
        /\ completer' = IF result = "ok" THEN "value" ELSE "error"
        /\ isolate' = "free"
        /\ UNCHANGED vars
  /\ UNCHANGED <<lastPoll, pending, _pollCallable, received, waitCancelled, dartToken>>

(* The handle freed, the listener is closed unless others are pending.       *)
DTFrees ==
  /\ \/ isolate = "free" /\ FreeMarks /\ isolate' = "freeing" /\ UNCHANGED _pollCallable
     \/ /\ isolate = "freeing" /\ FreeDrops
        /\ _pollCallable' \in {"closed", _pollCallable}
        /\ isolate' = "over"
  /\ UNCHANGED <<lastPoll, pending, received, waitCancelled, dartToken, completer>>

(* Mutant: the call is ended at once, without waiting for the Ready.       *)
DTTokenCancelledAtOnce ==
  /\ isolate \in {"create", "created", "idle"}
  /\ dartToken = "active"
  /\ dartToken' = "cancelled"
  /\ IF pending
       THEN waitCancelled' = TRUE /\ Cancel /\ pending' = FALSE /\ isolate' = "free"
       ELSE UNCHANGED <<vars, waitCancelled, pending, isolate>>
  /\ UNCHANGED <<lastPoll, _pollCallable, received, completer>>

(* $$BoltCancellationToken.cancel, in a turn of its own or, by the         *)
(* caller's code that createFuture runs, before the call is pending.       *)
DTTokenCancelled ==
  /\ isolate \in {"create", "created", "idle"}
  /\ dartToken = "active"
  /\ dartToken' = "cancelled"
  /\ IF pending /\ ~waitCancelled
       THEN waitCancelled' = TRUE /\ Cancel
       ELSE UNCHANGED <<vars, waitCancelled>>
  /\ UNCHANGED <<isolate, lastPoll, pending, _pollCallable, received, completer>>

Turn ==
  \/ DTCreates \/ DTCreated \/ DTAbandons
  \/ (\E p \in Poll : DTPolls(p) \/ DTReceives(p)) \/ DTPolled
  \/ DTReady \/ DTCompletes \/ DTFrees

DTNext ==
  \/ (Library \/ InnerReady \/ SpuriousWake) /\ UNCHANGED dartVars
  \/ Turn
  \/ DTTokenCancelled

(* The isolate takes its turns; nobody must cancel, and the Rust future    *)
(* need never become ready.                                                *)
DTSpec ==
  /\ DTInit /\ [][DTNext]_dtVars
  /\ WF_dtVars(Library /\ UNCHANGED dartVars)
  /\ WF_dtVars(Turn)

-----------------------------------------------------------------------------
(* The listener is closed only once no thread can run it: native code that *)
(* runs a closed one aborts the process (prelude.dart:21, "Do not call     *)
(* this while native code may still invoke those callbacks").              *)
ListenerQuiet ==
  _pollCallable = "closed" => \A p \in Poll : ~Outstanding(p)
=============================================================================
