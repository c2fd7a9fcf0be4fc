----------------------------- MODULE ForeignCall -----------------------------
(***************************************************************************)
(* A Rust task that awaits an async method of the host                     *)
(* (boltffi_core/src/runtime/foreign_call.rs): the ForeignCall it polls,   *)
(* the completion the host calls once, on any thread and possibly before   *)
(* start has returned, and the CallState they share through an Arc.  A     *)
(* step is one atomic access, or one use of one of the two UnsafeCells.    *)
(***************************************************************************)
CONSTANTS Waker,   \* the wakers the task may be polled with
          NoWaker

ASSUME NoWakerAssumption == NoWaker \notin Waker

VARIABLES
  completion_state, completion,  \* the answer, and whether it is there
  waker_state, waker,            \* the task's waker; the state is a set of flags
  task,                          \* where the poll is, its waker, one it took
  host,                          \* where the completion is, and the waker it took
  refs,                          \* who holds the Arc
  woken                          \* wakers woken since they were last polled with

state == <<completion_state, completion, waker_state, waker>>
vars == <<state, task, host, refs, woken>>

(* WakerState: Waiting is no flag, RegisteringWaking is both.              *)
Waiting == {}
Registering == {"Registering"}
Waking == {"Waking"}

TaskLabel == {"new", "asleep", "load", "cas", "read", "register", "write", "finish",
              "takeBack", "restore", "wakeBack", "recheck", "done", "panicked"}
HostLabel == {"called", "write", "publish", "wake", "take", "restore", "run", "release", "done"}
Cell == Waker \cup {NoWaker}

TypeOK ==
  /\ completion_state \in {"Pending", "Ready", "Taken"}
  /\ completion \in {"uninit", "payload", "moved", "dropped"}
  /\ waker_state \in SUBSET {"Registering", "Waking"}
  /\ waker \in Cell
  /\ task \in [at : TaskLabel, with : Cell, took : Cell]
  /\ host \in [at : HostLabel, took : Cell]
  /\ refs \in SUBSET {"future", "host"}
  /\ woken \in SUBSET Waker

(* start: one reference becomes the host's completion_data.                *)
Init ==
  /\ completion_state = "Pending"
  /\ completion = "uninit"
  /\ waker_state = Waiting
  /\ waker = NoWaker
  /\ task = [at |-> "new", with |-> NoWaker, took |-> NoWaker]
  /\ host = [at |-> "called", took |-> NoWaker]
  /\ refs = {"future", "host"}
  /\ woken = {}

TaskAt(l) == task.at = l /\ UNCHANGED <<host, refs>>
TaskTo(l) == task' = [task EXCEPT !.at = l]
HostAt(l) == host.at = l /\ UNCHANGED task
HostTo(l) == host' = [host EXCEPT !.at = l]

WakeUp(w) == woken' = IF w = NoWaker THEN woken ELSE woken \cup {w}

(* The last reference runs Drop.  Mutant: whatever the state.              *)
ReleaseAlways(x) ==
  /\ refs' = refs \ {x}
  /\ completion' = IF refs' = {} THEN "dropped" ELSE completion

Release(x) ==
  /\ refs' = refs \ {x}
  /\ completion' = IF refs' = {} /\ completion_state = "Ready" THEN "dropped" ELSE completion

-----------------------------------------------------------------------------
(* poll, by the task that owns the future: one at a time, with a waker     *)
(* that may change from one poll to the next, and also without a wake.     *)

Resting == task.at \in {"new", "asleep"} /\ "future" \in refs

PollCall(w) ==
  /\ Resting
  /\ task' = [at |-> "load", with |-> w, took |-> NoWaker]
  /\ woken' = woken \ {w}
  /\ UNCHANGED <<state, host, refs>>

PollLoads ==
  /\ TaskAt("load")
  /\ TaskTo(CASE completion_state = "Ready" -> "cas"
              [] completion_state = "Taken" -> "panicked"
              [] OTHER                      -> "register")
  /\ UNCHANGED <<state, woken>>

PollTakes ==
  /\ TaskAt("cas")
  /\ IF completion_state = "Ready"
       THEN completion_state' = "Taken" /\ TaskTo("read")
       ELSE UNCHANGED completion_state /\ TaskTo("load")
  /\ UNCHANGED <<completion, waker_state, waker, woken>>

PollReads ==
  /\ TaskAt("read")
  /\ completion' = "moved"
  /\ TaskTo("done")
  /\ UNCHANGED <<completion_state, waker_state, waker, woken>>

(* register.  Mutant: writes the cell whatever the state.                  *)
RegisterAnyway ==
  /\ TaskAt("register")
  /\ waker_state' = waker_state \cup Registering
  /\ TaskTo("write")
  /\ UNCHANGED <<completion_state, completion, waker, woken>>

Register ==
  /\ TaskAt("register")
  /\ IF waker_state = Waiting
       THEN waker_state' = Registering /\ TaskTo("write") /\ UNCHANGED woken
       ELSE /\ TaskTo("recheck")
            /\ IF waker_state = Waking THEN WakeUp(task.with) ELSE UNCHANGED woken
            /\ UNCHANGED waker_state
  /\ UNCHANGED <<completion_state, completion, waker>>

(* Mutant: leaves a waker that is there in place.                          *)
RegisterKeepsOld ==
  /\ TaskAt("write")
  /\ waker' = IF waker = NoWaker THEN task.with ELSE waker
  /\ TaskTo("finish")
  /\ UNCHANGED <<completion_state, completion, waker_state, woken>>

RegisterWrites ==
  /\ TaskAt("write")
  /\ waker' = task.with
  /\ TaskTo("finish")
  /\ UNCHANGED <<completion_state, completion, waker_state, woken>>

RegisterFinishes ==
  /\ TaskAt("finish")
  /\ IF waker_state = Registering
       THEN waker_state' = Waiting /\ TaskTo("recheck")
       ELSE UNCHANGED waker_state /\ TaskTo("takeBack")
  /\ UNCHANGED <<completion_state, completion, waker, woken>>

(* A wake came while the waker was registered: the poll delivers it.       *)
RegisterTakesBack ==
  /\ TaskAt("takeBack")
  /\ task' = [task EXCEPT !.at = "restore", !.took = waker]
  /\ waker' = NoWaker
  /\ UNCHANGED <<completion_state, completion, waker_state, woken>>

RegisterRestores ==
  /\ TaskAt("restore")
  /\ waker_state' = Waiting
  /\ TaskTo("wakeBack")
  /\ UNCHANGED <<completion_state, completion, waker, woken>>

RegisterWakes ==
  /\ TaskAt("wakeBack")
  /\ WakeUp(task.took)
  /\ TaskTo("recheck")
  /\ UNCHANGED state

(* Mutant: Pending without a second look at the answer.                    *)
PollTrusts ==
  /\ TaskAt("recheck")
  /\ TaskTo("asleep")
  /\ UNCHANGED <<state, woken>>

PollRechecks ==
  /\ TaskAt("recheck")
  /\ TaskTo(IF completion_state = "Pending" THEN "asleep" ELSE "load")
  /\ UNCHANGED <<state, woken>>

(* The future is dropped by its task, between two polls or once it is done.*)
DropFuture ==
  /\ task.at \in {"new", "asleep", "done"} /\ "future" \in refs
  /\ Release("future")
  /\ UNCHANGED <<completion_state, waker_state, waker, task, host, woken>>

-----------------------------------------------------------------------------
(* complete, by the host.                                                  *)

CompleteCall ==
  /\ HostAt("called")
  /\ HostTo("write")
  /\ UNCHANGED <<state, refs, woken>>

CompleteWrites ==
  /\ HostAt("write")
  /\ completion' = "payload"
  /\ HostTo("publish")
  /\ UNCHANGED <<completion_state, waker_state, waker, refs, woken>>

CompletePublishes ==
  /\ HostAt("publish")
  /\ completion_state' = "Ready"
  /\ HostTo("wake")
  /\ UNCHANGED <<completion, waker_state, waker, refs, woken>>

(* Mutant: takes the waker that the task is just registering.              *)
WakeMarksAnyway ==
  /\ HostAt("wake")
  /\ waker_state' = waker_state \cup Waking
  /\ HostTo("take")
  /\ UNCHANGED <<completion_state, completion, waker, refs, woken>>

(* fetch_or.                                                               *)
WakeMarks ==
  /\ HostAt("wake")
  /\ waker_state' = waker_state \cup Waking
  /\ HostTo(IF waker_state = Waiting THEN "take" ELSE "release")
  /\ UNCHANGED <<completion_state, completion, waker, refs, woken>>

WakeTakes ==
  /\ HostAt("take")
  /\ host' = [at |-> "restore", took |-> waker]
  /\ waker' = NoWaker
  /\ UNCHANGED <<completion_state, completion, waker_state, refs, woken>>

WakeRestores ==
  /\ HostAt("restore")
  /\ waker_state' = Waiting
  /\ HostTo("run")
  /\ UNCHANGED <<completion_state, completion, waker, refs, woken>>

WakeRuns ==
  /\ HostAt("run")
  /\ WakeUp(host.took)
  /\ HostTo("release")
  /\ UNCHANGED <<state, refs>>

HostReleases ==
  /\ HostAt("release")
  /\ Release("host")
  /\ HostTo("done")
  /\ UNCHANGED <<completion_state, waker_state, waker, woken>>

-----------------------------------------------------------------------------
Poll ==
  \/ PollLoads \/ PollTakes \/ PollReads
  \/ Register \/ RegisterWrites \/ RegisterFinishes
  \/ RegisterTakesBack \/ RegisterRestores \/ RegisterWakes
  \/ PollRechecks

Complete ==
  \/ CompleteWrites \/ CompletePublishes
  \/ WakeMarks \/ WakeTakes \/ WakeRestores \/ WakeRuns
  \/ HostReleases

Next ==
  \/ \E w \in Waker : PollCall(w)
  \/ Poll
  \/ DropFuture
  \/ CompleteCall
  \/ Complete

(* The executor polls a task whose waker was woken, and for the first time *)
(* unasked; it may poll at any other time.  The host may never complete,   *)
(* and the task may never be dropped.                                      *)
PollDue ==
  /\ task.at = "new" \/ task.with \in woken
  /\ \E w \in Waker : PollCall(w)

Fairness == WF_vars(Poll) /\ WF_vars(Complete) /\ WF_vars(PollDue)

Spec == Init /\ [][Next]_vars /\ Fairness

-----------------------------------------------------------------------------
(* The two UnsafeCells: the waker is never used by the poll and the        *)
(* completion at once, and the answer is written before it is read, read   *)
(* before the state is gone, and by one of them.                           *)
CellsExclusive ==
  /\ ~(task.at \in {"write", "takeBack"} /\ host.at = "take")
  /\ task.at = "read" => completion = "payload" /\ host.at \notin {"called", "write", "publish"}

(* The answer of the host is neither lost nor dropped twice: at the end of *)
(* the CallState it was moved to the task or dropped, also when it comes   *)
(* after the future was dropped (the tests drops_late_payload... and       *)
(* drops_ready_payload...).  Nothing is read from a dropped CallState.     *)
PayloadOnce ==
  /\ refs = {} => completion \in {"moved", "dropped"}
  /\ task.at = "done" <=> completion = "moved"
  /\ task.at \notin {"new", "asleep", "done"} => "future" \in refs
  /\ host.at # "done" => "host" \in refs

(* No lost wake: a task asleep on a call that was answered has been woken  *)
(* since its last poll, or the completion is on its way to its waker.      *)
WakeArrives ==
  task.at = "asleep" =>
    \/ host.at \in {"called", "write", "publish", "wake"} /\ waker = task.with
    \/ host.at = "take" /\ waker = task.with
    \/ host.at \in {"restore", "run"} /\ host.took = task.with
    \/ task.with \in woken

(* The states of the lock that the flags of waker_state are.               *)
FlagsAgree ==
  /\ "Registering" \in waker_state
       <=> task.at \in {"write", "finish", "takeBack", "restore"}
  /\ "Waking" \in waker_state
       => \/ host.at \in {"take", "restore"}
          \/ /\ task.at \in {"write", "finish", "takeBack", "restore"}
             /\ host.at \in {"release", "done"}
  /\ host.at \in {"take", "restore"} => waker_state = Waking
  /\ task.at \in {"takeBack", "restore"} => waker_state = Registering \cup Waking

(* What the poll knows of the answer: it goes to sleep only with its waker *)
(* in the cell, unless the answer is there to be found by the recheck.     *)
LocalsAgree ==
  /\ task.at \notin {"new", "done"} => task.with \in Waker
  /\ task.at \in {"finish", "takeBack"} => waker = task.with
  /\ task.at \in {"restore", "wakeBack"} => task.took = task.with
  /\ task.at = "wakeBack" => completion_state = "Ready"
  /\ task.at = "recheck" /\ completion_state = "Pending" => waker = task.with

StateAgrees ==
  /\ completion_state = "Pending" <=> host.at \in {"called", "write", "publish"}
  /\ completion_state = "Taken" <=> task.at \in {"read", "done"}
  /\ completion = "uninit" <=> host.at \in {"called", "write"}
  /\ completion = "dropped" <=> refs = {} /\ task.at # "done"
  /\ task.at # "panicked"
  /\ task.at = "cas" => completion_state = "Ready"
  /\ host.at = "done" <=> "host" \notin refs

CallInv ==
  /\ TypeOK
  /\ FlagsAgree
  /\ LocalsAgree
  /\ StateAgrees
  /\ CellsExclusive
  /\ PayloadOnce
  /\ WakeArrives

(* What the poll and the completion come to for the task.                  *)
answerBar ==
  CASE completion_state = "Pending"  -> "none"
    [] completion_state = "Taken"    -> "given"
    [] completion = "dropped"        -> "dropped"
    [] OTHER                         -> "there"

taskBar ==
  IF "future" \notin refs THEN "gone"
  ELSE CASE task.at \in {"new", "asleep"} -> task.at
         [] task.at \in {"read", "done"}  -> "done"
         [] OTHER                         -> "polling"

Awaited == INSTANCE AwaitedAnswer WITH answer <- answerBar, task <- taskBar, with <- task.with

(* The loads, the lock of the waker cell and the recheck come to a future  *)
(* that is polled, answered and woken in one step each: Pending is true    *)
(* when it is said, no wake comes before the answer, the last waker's does *)
(* come, and the answer is given once or dropped once.                     *)
ImplementsAwaited == Awaited!Spec

(* Liveness: once the host has answered, the task gets the answer, however *)
(* the completion raced its polls and whatever wakers it polled with,      *)
(* unless the future was dropped.                                          *)
AnswerArrives ==
  host.at # "called" ~> (task.at = "done" \/ "future" \notin refs)
=============================================================================
