--------------------------- MODULE PythonAsyncCall ---------------------------
(***************************************************************************)
(* _BoltFfiNativeFuture.wait (boltffi_backend/templates/target/python/     *)
(* package.py) driving one RustFuture from a task of an asyncio loop.  The *)
(* continuation Rust runs (native_module.c, boltffi_python_future_wake)    *)
(* asks the loop to set the result of the asyncio future of that poll.     *)
(*                                                                         *)
(* Of asyncio it models what the code relies on: callbacks of the loop and *)
(* steps of the task do not overlap; a cancelled task has CancelledError   *)
(* thrown at its await, also when the result was there already.            *)
(***************************************************************************)
EXTENDS RustFuture

CONSTANT NoFuture
ASSUME NoFutureAssumption == NoFuture \notin Poll

VARIABLES
  wait,       \* where the coroutine is
  pollOf,     \* the poll whose future it awaits
  ready,      \* that asyncio future
  scheduled,  \* polls whose set_result is with the loop
  informed,   \* polls whose continuation was run
  task        \* "active", or "cancelled" once Task.cancel was called

pythonVars == <<wait, pollOf, ready, scheduled, informed, task>>
pyVars == <<vars, pythonVars>>

PyTypeOK ==
  /\ TypeOK
  /\ wait \in {"poll", "polling", "await", "complete", "completing", "cancel",
               "release", "releasing", "returned", "raised"}
  /\ pollOf \in Poll \cup {NoFuture}
  /\ ready \in {"pending", "Ready", "MaybeReady", "cancelled"}
  /\ scheduled \in SUBSET Poll
  /\ informed \in SUBSET Poll
  /\ task \in {"active", "cancelled"}

PyInit ==
  /\ Init
  /\ wait = "poll"
  /\ pollOf = NoFuture
  /\ ready = "pending"
  /\ scheduled = {}
  /\ informed = {}
  /\ task = "active"

(* create_future, then the native poll.  Which name a new poll has makes   *)
(* no difference.                                                          *)
PyPolls(p) ==
  /\ wait = "poll"
  /\ p = CHOOSE q \in Poll : ~Called(q)
  /\ PollCall(p)
  /\ pollOf' = p
  /\ ready' = "pending"
  /\ wait' = "polling"
  /\ UNCHANGED <<scheduled, informed, task>>

PyPolled ==
  /\ wait = "polling"
  /\ PollReturned(pollOf)
  /\ wait' = "await"
  /\ UNCHANGED <<vars, pollOf, ready, scheduled, informed, task>>

(* boltffi_python_future_wake, under the interpreter lock.                 *)
PyFutureWake(p) ==
  /\ Heard(p) # "none" /\ p \notin informed
  /\ informed' = informed \cup {p}
  /\ scheduled' = scheduled \cup {p}
  /\ UNCHANGED <<vars, wait, pollOf, ready, task>>

(* set_result, in a turn of the loop: an InvalidStateError, which the loop *)
(* logs, if the future was cancelled.                                      *)
PySetResult(p) ==
  /\ wait # "polling"
  /\ p \in scheduled
  /\ scheduled' = scheduled \ {p}
  /\ ready' = IF p = pollOf /\ ready = "pending" THEN Heard(p) ELSE ready
  /\ UNCHANGED <<vars, wait, pollOf, informed, task>>

(* Task.cancel, by other code of the loop: the awaited future is cancelled *)
(* unless it is done.                                                      *)
PyTaskCancelled ==
  /\ wait = "await" /\ task = "active"
  /\ task' = "cancelled"
  /\ ready' = IF ready = "pending" THEN "cancelled" ELSE ready
  /\ UNCHANGED <<vars, wait, pollOf, scheduled, informed>>

(* The task is resumed.                                                    *)
PyResumes ==
  /\ wait = "await" /\ ready # "pending"
  /\ wait' = CASE task = "cancelled"                         -> "cancel"
               [] task = "active" /\ ready = "Ready"         -> "complete"
               [] task = "active" /\ ready = "MaybeReady"    -> "poll"
  /\ UNCHANGED <<vars, pollOf, ready, scheduled, informed, task>>

PyCompletes ==
  /\ \/ wait = "complete" /\ CompleteLocks /\ wait' = "completing"
     \/ wait = "completing" /\ taking = "done" /\ wait' = "release" /\ UNCHANGED vars
  /\ UNCHANGED <<pollOf, ready, scheduled, informed, task>>

(* cancel() and release() free the handle, whoever of them comes first.    *)
PyCancels ==
  /\ wait = "cancel"
  /\ Cancel
  /\ wait' = "release"
  /\ UNCHANGED <<pollOf, ready, scheduled, informed, task>>

PyReleases ==
  /\ \/ wait = "release" /\ CancelReturned /\ FreeMarks /\ wait' = "releasing"
     \/ /\ wait = "releasing" /\ FreeDrops
        /\ wait' = IF result = "ok" THEN "returned" ELSE "raised"
  /\ UNCHANGED <<pollOf, ready, scheduled, informed, task>>

PyLoop ==
  \/ \E p \in Poll : PyPolls(p) \/ PyFutureWake(p) \/ PySetResult(p)
  \/ PyPolled \/ PyResumes \/ PyCompletes \/ PyCancels \/ PyReleases

PyNext ==
  \/ (Library \/ InnerReady \/ SpuriousWake) /\ UNCHANGED pythonVars
  \/ PyLoop
  \/ PyTaskCancelled

(* The loop runs; nobody must cancel, and the Rust future need never       *)
(* become ready.                                                           *)
PySpec ==
  /\ PyInit /\ [][PyNext]_pyVars
  /\ WF_pyVars(Library /\ UNCHANGED pythonVars)
  /\ WF_pyVars(PyLoop)
=============================================================================
