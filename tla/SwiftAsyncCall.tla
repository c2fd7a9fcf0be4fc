--------------------------- MODULE SwiftAsyncCall ---------------------------
(***************************************************************************)
(* boltffiAsyncCall (boltffi_backend/templates/target/swift/async.swift)   *)
(* driving one RustFuture: the poll driver that is called back from Rust,  *)
(* the Task it starts to poll again, and onCancel, which runs on the       *)
(* cancelling thread at any point of the call.  They meet in one atomic    *)
(* word, continuationSlot.                                                 *)
(*                                                                         *)
(* The call is not followed past a use of the freed handle: what freed     *)
(* memory holds is not modelled.                                           *)
(***************************************************************************)
EXTENDS RustFuture

VARIABLES
  continuationSlot,  \* "empty", "installed", "finished"; "stale" once a failed
                     \* install has left a released box in it
  call,              \* the body of the call
  handled,           \* polls whose callback has run
  checking,          \* callbacks between MaybeReady and canPoll()
  tasks,             \* Tasks that will poll again, by the poll they follow
  finisher,          \* the ready closure
  onCancel,          \* the cancellation handler
  resumes            \* how often the Swift continuation was resumed

swiftVars == <<continuationSlot, call, handled, checking, tasks, finisher, onCancel, resumes>>
sVars == <<vars, swiftVars>>

STypeOK ==
  /\ TypeOK
  /\ continuationSlot \in {"empty", "installed", "finished", "stale"}
  /\ call \in {"entered", "start", "driving", "refused"}
  /\ handled \in SUBSET Poll
  /\ checking \in SUBSET Poll
  /\ tasks \in SUBSET Poll
  /\ finisher \in {"no", "finish", "complete", "completing", "free", "dropping", "resume", "done"}
  /\ onCancel \in {"no", "finish", "cancel", "free", "dropping", "resume", "done"}
  /\ resumes \in 0..2

SInit ==
  /\ Init
  /\ continuationSlot = "empty"
  /\ call = "entered"
  /\ handled = {}
  /\ checking = {}
  /\ tasks = {}
  /\ finisher = "no"
  /\ onCancel = "no"
  /\ resumes = 0

(* install: an exchange; when the slot was already finished the released   *)
(* box stays in it and the caller resumes the continuation itself.         *)
Install ==
  /\ call = "entered"
  /\ \/ /\ continuationSlot = "empty"
        /\ continuationSlot' = "installed"
        /\ call' = "start"
        /\ UNCHANGED resumes
     \/ /\ continuationSlot = "finished"
        /\ continuationSlot' = "stale"
        /\ call' = "refused"
        /\ resumes' = resumes + 1
  /\ UNCHANGED <<vars, handled, checking, tasks, finisher, onCancel>>

StartDriver(p) ==
  /\ call = "start"
  /\ PollCall(p)
  /\ call' = "driving"
  /\ UNCHANGED <<continuationSlot, handled, checking, tasks, finisher, onCancel, resumes>>

(* boltffiAsyncPollCallback: Ready runs the ready closure, MaybeReady asks *)
(* canPoll().                                                              *)
Callback(p) ==
  /\ Heard(p) # "none" /\ p \notin handled
  /\ handled' = handled \cup {p}
  /\ IF Heard(p) = "Ready"
       THEN finisher' = "finish" /\ UNCHANGED checking
       ELSE checking' = checking \cup {p} /\ UNCHANGED finisher
  /\ UNCHANGED <<vars, continuationSlot, call, tasks, onCancel, resumes>>

(* canPoll() only reads the slot; the Task that follows does not again.    *)
CanPoll(p) ==
  /\ p \in checking
  /\ checking' = checking \ {p}
  /\ tasks' = IF continuationSlot # "finished" THEN tasks \cup {p} ELSE tasks
  /\ UNCHANGED <<vars, continuationSlot, call, handled, finisher, onCancel, resumes>>

TaskPolls(p, q) ==
  /\ p \in tasks
  /\ tasks' = tasks \ {p}
  /\ PollCall(q)
  /\ UNCHANGED <<continuationSlot, call, handled, checking, finisher, onCancel, resumes>>

(* finish(): whoever exchanges the continuation out ends the call.         *)
Finish(next, kept) ==
  /\ continuationSlot' = "finished"
  /\ IF continuationSlot = "finished" THEN kept ELSE next

Ready ==
  /\ \/ /\ finisher = "finish"
        /\ Finish(finisher' = "complete", finisher' = "done")
        /\ UNCHANGED <<vars, resumes>>
     \/ /\ finisher = "complete"
        /\ CompleteLocks
        /\ finisher' = "completing"
        /\ UNCHANGED <<continuationSlot, resumes>>
     \/ /\ finisher = "completing" /\ taking = "done"
        /\ finisher' = "free"
        /\ UNCHANGED <<vars, continuationSlot, resumes>>
     \/ /\ finisher = "free"
        /\ FreeMarks
        /\ finisher' = "dropping"
        /\ UNCHANGED <<continuationSlot, resumes>>
     \/ /\ finisher = "dropping"
        /\ FreeDrops
        /\ finisher' = "resume"
        /\ UNCHANGED <<continuationSlot, resumes>>
     \/ /\ finisher = "resume"
        /\ resumes' = resumes + 1
        /\ finisher' = "done"
        /\ UNCHANGED <<vars, continuationSlot>>
  /\ UNCHANGED <<call, handled, checking, tasks, onCancel>>

(* finish() took a continuation out of the slot, .withContinuation: it was *)
(* installed before, for install is refused afterwards.                    *)
(* Mutant: .withoutContinuation resumes as well.                           *)
TookAlways == TRUE
TookContinuation == call \in {"start", "driving"}

TaskCancelled ==
  /\ onCancel = "no"
  /\ resumes = 0
  /\ onCancel' = "finish"
  /\ UNCHANGED <<vars, continuationSlot, call, handled, checking, tasks, finisher, resumes>>

(* The handler: finish, then cancel and free on this thread, then resume   *)
(* the continuation if one was installed.                                  *)
OnCancel ==
  /\ \/ /\ onCancel = "finish"
        /\ Finish(onCancel' = "cancel", onCancel' = "done")
        /\ UNCHANGED <<vars, resumes>>
     \/ /\ onCancel = "cancel"
        /\ Cancel
        /\ onCancel' = "free"
        /\ UNCHANGED <<continuationSlot, resumes>>
     \/ /\ onCancel = "free"
        /\ CancelReturned
        /\ FreeMarks
        /\ onCancel' = "dropping"
        /\ UNCHANGED <<continuationSlot, resumes>>
     \/ /\ onCancel = "dropping"
        /\ FreeDrops
        /\ onCancel' = IF TookContinuation THEN "resume" ELSE "done"
        /\ UNCHANGED <<continuationSlot, resumes>>
     \/ /\ onCancel = "resume"
        /\ resumes' = resumes + 1
        /\ onCancel' = "done"
        /\ UNCHANGED <<vars, continuationSlot>>
  /\ UNCHANGED <<call, handled, checking, tasks, finisher>>

Driver ==
  \/ Install
  \/ \E p \in Poll :
       \/ StartDriver(p) \/ Callback(p) \/ CanPoll(p)
       \/ \E q \in Poll : TaskPolls(p, q)
  \/ Ready

SNext ==
  /\ ~touched
  /\ \/ (Library \/ InnerReady \/ SpuriousWake) /\ UNCHANGED swiftVars
     \/ Driver
     \/ TaskCancelled
     \/ OnCancel

SSpec ==
  /\ SInit /\ [][SNext]_sVars
  /\ WF_sVars(~touched /\ Library /\ UNCHANGED swiftVars)
  /\ WF_sVars(~touched /\ Driver)
  /\ WF_sVars(~touched /\ OnCancel)

-----------------------------------------------------------------------------
(* Until onCancel has taken the continuation and goes on to free, on its   *)
(* own thread, a handle that a poll or a Task may be about to use; never,  *)
(* when the ready closure took it first.                                   *)
InTurn ==
  \/ onCancel \in {"no", "finish", "cancel"}
  \/ finisher \in {"complete", "completing", "free", "dropping", "resume"}

(* The checked continuation is resumed at most once, however the callback, *)
(* the ready closure and onCancel meet: a second resume traps.             *)
ResumedAtMostOnce == resumes <= 1
=============================================================================
