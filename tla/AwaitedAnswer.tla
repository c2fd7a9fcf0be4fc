--------------------------- MODULE AwaitedAnswer ---------------------------
(***************************************************************************)
(* What a Rust task may expect of a ForeignCall                            *)
(* (boltffi_core/src/runtime/foreign_call.rs): a future with one answer,   *)
(* in which a poll, the answer and a wake each take effect in one step.    *)
(* RustFuture takes the Rust future inside it at this level.               *)
(***************************************************************************)
CONSTANTS Waker, NoWaker

VARIABLES answer,  \* of the host: "none", "there", "given" to the task, "dropped"
          task,    \* "new", "polling", "asleep", "done", "gone"
          with,    \* the waker of its last poll
          woken    \* wakers woken since they were last polled with

vars == <<answer, task, with, woken>>

Init ==
  /\ answer = "none"
  /\ task = "new"
  /\ with = NoWaker
  /\ woken = {}

PollStarts(w) ==
  /\ task \in {"new", "asleep"}
  /\ task' = "polling"
  /\ with' = w
  /\ woken' = woken \ {w}
  /\ UNCHANGED answer

(* Pending: the answer is not there.                                       *)
PollPends ==
  /\ task = "polling" /\ answer = "none"
  /\ task' = "asleep"
  /\ UNCHANGED <<answer, with, woken>>

PollTakes ==
  /\ task = "polling" /\ answer = "there"
  /\ task' = "done"
  /\ answer' = "given"
  /\ UNCHANGED <<with, woken>>

Answers ==
  /\ answer = "none"
  /\ answer' = "there"
  /\ UNCHANGED <<task, with, woken>>

(* Not before the answer; the task may have been polled with another waker *)
(* meanwhile.                                                              *)
Wakes(w) ==
  /\ answer \in {"there", "given"}
  /\ woken' = woken \cup {w}
  /\ UNCHANGED <<answer, task, with>>

(* The future goes, and its answer with it, now or once the host lets go.  *)
Drops ==
  /\ task \in {"new", "asleep", "done"}
  /\ task' = "gone"
  /\ answer' \in {answer} \cup (IF answer = "there" THEN {"dropped"} ELSE {})
  /\ UNCHANGED <<with, woken>>

Discards ==
  /\ task = "gone" /\ answer = "there"
  /\ answer' = "dropped"
  /\ UNCHANGED <<task, with, woken>>

Next ==
  \/ \E w \in Waker : PollStarts(w) \/ Wakes(w)
  \/ PollPends \/ PollTakes
  \/ Answers
  \/ Drops \/ Discards

WakesSleeper == task = "asleep" /\ with \notin woken /\ Wakes(with)

PollDue ==
  /\ task = "new" \/ with \in woken
  /\ \E w \in Waker : PollStarts(w)

(* A poll returns, a task that sleeps over its answer is woken by the      *)
(* waker of its last poll, and an answer nobody wants is dropped.          *)
Spec ==
  /\ Init /\ [][Next]_vars
  /\ WF_vars(PollPends \/ PollTakes)
  /\ WF_vars(WakesSleeper)
  /\ WF_vars(PollDue)
  /\ WF_vars(Discards)
=============================================================================
