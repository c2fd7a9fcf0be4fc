-------------------------- MODULE ForeignCallProofs --------------------------
(***************************************************************************)
(* The waker cell and the answer of a ForeignCall are each used by one     *)
(* side at a time, the answer is neither lost nor dropped twice, and no    *)
(* task sleeps on an answered call without having been woken: for every    *)
(* set of wakers.  The invariant is CallInv, whose strengthening parts say *)
(* which labels of the two sides go with which flags of waker_state.       *)
(***************************************************************************)
EXTENDS ForeignCall, TLAPS

USE DEF Waiting, Registering, Waking, Cell, TaskLabel, HostLabel

(* A call that was just started: its state is new, and start gave the      *)
(* host its own reference.                                                 *)
LEMMA InitCall == Init => CallInv
  BY NoWakerAssumption
     DEF Init, CallInv, TypeOK, FlagsAgree, LocalsAgree, StateAgrees,
         CellsExclusive, PayloadOnce, WakeArrives

(* Every step of the poll and of the completion keeps the invariant: while *)
(* the two flags of waker_state say who may use the cell, the labels of    *)
(* both sides agree with them.                                             *)
LEMMA StepCall == CallInv /\ [Next]_vars => CallInv'
<1> SUFFICES ASSUME CallInv, [Next]_vars PROVE CallInv'
  OBVIOUS
<1> USE NoWakerAssumption DEF state, TaskAt, TaskTo, HostAt, HostTo,
        CallInv, TypeOK, FlagsAgree, LocalsAgree, StateAgrees,
        CellsExclusive, PayloadOnce, WakeArrives
<1>1. ASSUME NEW w \in Waker, PollCall(w) PROVE CallInv'
  BY <1>1 DEF PollCall, Resting
(* The other steps of the task.                                            *)
<1>2. CASE PollLoads
  BY <1>2 DEF PollLoads
<1>3. CASE PollTakes
  BY <1>3 DEF PollTakes
<1>4. CASE PollReads
  BY <1>4 DEF PollReads
<1>5. CASE Register
  BY <1>5 DEF Register, WakeUp
<1>6. CASE RegisterWrites
  BY <1>6 DEF RegisterWrites
<1>7. CASE RegisterFinishes
  BY <1>7 DEF RegisterFinishes
<1>8. CASE RegisterTakesBack
  BY <1>8 DEF RegisterTakesBack
<1>9. CASE RegisterRestores
  BY <1>9 DEF RegisterRestores
<1>10. CASE RegisterWakes
  BY <1>10 DEF RegisterWakes, WakeUp
<1>11. CASE PollRechecks
  BY <1>11 DEF PollRechecks
<1>12. CASE DropFuture
  BY <1>12 DEF DropFuture, Release
(* The steps of the host.                                                  *)
<1>13. CASE CompleteCall
  BY <1>13 DEF CompleteCall
<1>14. CASE CompleteWrites
  BY <1>14 DEF CompleteWrites
<1>15. CASE CompletePublishes
  BY <1>15 DEF CompletePublishes
<1>16. CASE WakeMarks
  BY <1>16 DEF WakeMarks
<1>17. CASE WakeTakes
  BY <1>17 DEF WakeTakes
<1>18. CASE WakeRestores
  BY <1>18 DEF WakeRestores
<1>19. CASE WakeRuns
  BY <1>19 DEF WakeRuns, WakeUp
<1>20. CASE HostReleases
  BY <1>20 DEF HostReleases, Release
<1>21. CASE UNCHANGED vars
  BY <1>21 DEF vars
<1> QED
  BY <1>1, <1>2, <1>3, <1>4, <1>5, <1>6, <1>7, <1>8, <1>9, <1>10, <1>11,
     <1>12, <1>13, <1>14, <1>15, <1>16, <1>17, <1>18, <1>19, <1>20, <1>21
     DEF Next, Poll, Complete

(* The invariant holds in every reachable state, for every set of wakers.  *)
THEOREM CallInvariant == Spec => []CallInv
<1>1. Init => CallInv
  BY InitCall
<1>2. CallInv /\ [Next]_vars => CallInv'
  BY StepCall
<1> QED
  BY <1>1, <1>2, PTL DEF Spec

(* complete and poll never use the waker cell at once, and the answer is   *)
(* read only after complete wrote it (foreign_call.rs, the two UnsafeCells *)
(* behind `unsafe impl Sync for CallState`).                               *)
THEOREM CellsAreExclusive == Spec => []CellsExclusive
<1>1. CallInv => CellsExclusive
  BY DEF CallInv
<1> QED
  BY <1>1, CallInvariant, PTL

(* The answer is moved to the task or dropped with the CallState, exactly  *)
(* one of the two, and no side uses a CallState that is gone.              *)
THEOREM AnswerIsDisposedOnce == Spec => []PayloadOnce
<1>1. CallInv => PayloadOnce
  BY DEF CallInv
<1> QED
  BY <1>1, CallInvariant, PTL

(* No task is asleep on an answered call without its last waker having     *)
(* been woken, or about to be: register and wake race without a lost wake. *)
THEOREM NoWakeIsLost == Spec => []WakeArrives
<1>1. CallInv => WakeArrives
  BY DEF CallInv
<1> QED
  BY <1>1, CallInvariant, PTL

-----------------------------------------------------------------------------
(* What the mapping comes to: the shared state is gone with the last       *)
(* reference, and the future, while it is there, is where its poll is.     *)
Bars ==
  /\ completion_state = "Pending" => answerBar = "none"
  /\ completion_state = "Taken" => answerBar = "given"
  /\ completion_state = "Ready" => answerBar = IF refs = {} THEN "dropped" ELSE "there"
  /\ taskBar = IF "future" \notin refs THEN "gone"
               ELSE IF task.at \in {"new", "asleep"} THEN task.at
               ELSE IF task.at \in {"read", "done"} THEN "done" ELSE "polling"

LEMMA CallBars == CallInv => Bars
<1> SUFFICES ASSUME CallInv PROVE Bars
  OBVIOUS
<1> USE DEF CallInv, TypeOK, StateAgrees, PayloadOnce
<1>1. completion = "dropped" => refs = {}
  OBVIOUS
<1>2. completion_state = "Ready" /\ refs = {} => completion = "dropped"
  OBVIOUS
<1>3. /\ completion_state = "Pending" => answerBar = "none"
      /\ completion_state = "Taken" => answerBar = "given"
  BY DEF answerBar
<1>4. completion_state = "Ready" => answerBar = IF refs = {} THEN "dropped" ELSE "there"
  BY <1>1, <1>2 DEF answerBar
<1>5. "future" \notin refs => taskBar = "gone"
  BY DEF taskBar
<1>6. "future" \in refs =>
        taskBar = IF task.at \in {"new", "asleep"} THEN task.at
                  ELSE IF task.at \in {"read", "done"} THEN "done" ELSE "polling"
  BY DEF taskBar
<1>7. QED
  BY <1>3, <1>4, <1>5, <1>6 DEF Bars

LEMMA BarsStay ==
  ASSUME CallInv, CallInv' PROVE Bars /\ Bars'
<1>1. Bars
  BY CallBars
<1>2. Bars'
  BY CallBars, PTL
<1>3. QED
  BY <1>1, <1>2

LEMMA PollAwaits ==
  ASSUME CallInv, CallInv', Poll
  PROVE  [Awaited!Next]_Awaited!vars
<1>1. /\ UNCHANGED refs /\ "future" \in refs /\ refs' # {}
      /\ task'.with = task.with /\ task.with \in Waker
  <2>1. /\ task.at \in {"load", "cas", "read", "register", "write", "finish", "takeBack", "restore",
                       "wakeBack", "recheck"}
        /\ UNCHANGED refs
    BY DEF Poll, PollLoads, PollTakes, PollReads, Register, RegisterWrites, RegisterFinishes,
           RegisterTakesBack, RegisterRestores, RegisterWakes, PollRechecks, TaskAt
  <2>2. task'.with = task.with
    <3> USE DEF TaskTo, CallInv, TypeOK
    <3>1. CASE PollLoads \/ PollTakes \/ PollReads \/ PollRechecks
      BY <3>1 DEF PollLoads, PollTakes, PollReads, PollRechecks
    <3>2. CASE Register \/ RegisterWrites \/ RegisterFinishes
      BY <3>2 DEF Register, RegisterWrites, RegisterFinishes
    <3>3. CASE RegisterTakesBack \/ RegisterRestores \/ RegisterWakes
      BY <3>3 DEF RegisterTakesBack, RegisterRestores, RegisterWakes
    <3>4. QED
      BY <3>1, <3>2, <3>3 DEF Poll
  <2>3. QED
    BY <2>1, <2>2 DEF CallInv, TypeOK, LocalsAgree, PayloadOnce
<1>b. Bars /\ Bars'
  BY BarsStay
<1> USE <1>1, <1>b DEF Bars, TaskAt, TaskTo, Awaited!vars, Awaited!Next
<1>2. ASSUME woken' = woken, completion_state' = completion_state, taskBar' = taskBar
      PROVE  UNCHANGED Awaited!vars
  BY <1>2 DEF CallInv, TypeOK
<1>3. CASE PollLoads
  BY <1>2, <1>3 DEF PollLoads, CallInv, TypeOK, StateAgrees, state
<1>4. CASE PollTakes /\ completion_state = "Ready"
  BY <1>4 DEF PollTakes, Awaited!PollTakes, CallInv, TypeOK
<1>5. CASE PollTakes /\ completion_state # "Ready"
  BY <1>2, <1>5 DEF PollTakes, CallInv, StateAgrees
<1>6. CASE PollReads
  BY <1>2, <1>6 DEF PollReads
<1>7. CASE RegisterWrites \/ RegisterFinishes \/ RegisterTakesBack \/ RegisterRestores
  BY <1>2, <1>7
  DEF RegisterWrites, RegisterFinishes, RegisterTakesBack, RegisterRestores, CallInv, TypeOK
<1>8. CASE Register
  <2>1. taskBar' = taskBar /\ completion_state' = completion_state
    BY <1>8 DEF Register, CallInv, TypeOK
  <2>2. CASE woken' = woken
    BY <1>2, <2>1, <2>2
  <2>3. CASE waker_state = Waking /\ WakeUp(task.with)
    <3>1. completion_state = "Ready"
      BY <1>8, <2>3 DEF Register, CallInv, TypeOK, FlagsAgree, StateAgrees
    <3>2. Awaited!Wakes(task.with)
      BY <2>1, <2>3, <3>1, NoWakerAssumption DEF WakeUp, Awaited!Wakes
    <3>3. QED
      BY <3>2
  <2>4. QED
    BY <1>8, <2>2, <2>3 DEF Register
<1>9. CASE RegisterWakes
  <2>1. completion_state = "Ready" /\ task.took = task.with
    BY <1>9 DEF RegisterWakes, CallInv, LocalsAgree
  <2>2. Awaited!Wakes(task.with)
    BY <1>9, <2>1, NoWakerAssumption DEF RegisterWakes, state, WakeUp, Awaited!Wakes
  <2>3. QED
    BY <2>2
<1>10. CASE PollRechecks /\ completion_state = "Pending"
  BY <1>10 DEF PollRechecks, state, Awaited!PollPends
<1>11. CASE PollRechecks /\ completion_state # "Pending"
  BY <1>2, <1>11 DEF PollRechecks, state
<1>12. QED
  BY <1>3, <1>4, <1>5, <1>6, <1>7, <1>8, <1>9, <1>10, <1>11 DEF Poll

LEMMA CompleteAwaits ==
  ASSUME CallInv, CallInv', CompleteCall \/ Complete
  PROVE  [Awaited!Next]_Awaited!vars
<1>1. UNCHANGED task /\ "host" \in refs
  BY DEF CallInv, PayloadOnce, CompleteCall, Complete, CompleteWrites, CompletePublishes, WakeMarks,
         WakeTakes, WakeRestores, WakeRuns, HostReleases, HostAt
<1>b. Bars /\ Bars'
  BY BarsStay
<1> USE <1>1, <1>b DEF Bars, HostAt, HostTo, Awaited!vars, Awaited!Next
<1>2. ASSUME woken' = woken, completion_state' = completion_state, refs' = refs
      PROVE  UNCHANGED Awaited!vars
  BY <1>2 DEF CallInv, TypeOK
<1>3. CASE CompleteCall \/ CompleteWrites \/ WakeMarks \/ WakeTakes \/ WakeRestores
  BY <1>2, <1>3 DEF CompleteCall, CompleteWrites, WakeMarks, WakeTakes, WakeRestores, state
<1>4. CASE CompletePublishes
  <2>1. completion_state = "Pending"
    BY <1>4 DEF CompletePublishes, CallInv, StateAgrees
  <2>2. Awaited!Answers
    BY <1>4, <2>1 DEF CompletePublishes, Awaited!Answers
  <2>3. QED
    BY <2>2
<1>5. CASE WakeRuns /\ host.took = NoWaker
  BY <1>2, <1>5 DEF WakeRuns, state, WakeUp
<1>6. CASE WakeRuns /\ host.took # NoWaker
  <2>1. host.took \in Waker /\ completion_state \in {"Ready", "Taken"}
    BY <1>6 DEF WakeRuns, CallInv, TypeOK, StateAgrees, Cell
  <2>2. Awaited!Wakes(host.took)
    BY <1>6, <2>1 DEF WakeRuns, state, WakeUp, Awaited!Wakes
  <2>3. QED
    BY <2>1, <2>2
<1>7. CASE HostReleases
  <2>1. completion_state \in {"Ready", "Taken"} /\ refs' = refs \ {"host"}
    BY <1>7 DEF HostReleases, Release, CallInv, TypeOK, StateAgrees
  <2>2. CASE completion_state = "Ready" /\ "future" \notin refs
    <3>1. Awaited!Discards
      BY <1>7, <2>1, <2>2 DEF HostReleases, Release, Awaited!Discards, CallInv, TypeOK
    <3>2. QED
      BY <3>1
  <2>3. CASE completion_state = "Taken" \/ "future" \in refs
    BY <1>7, <2>1, <2>3 DEF HostReleases, CallInv, TypeOK
  <2>4. QED
    BY <2>1, <2>2, <2>3
<1>8. QED
  BY <1>3, <1>4, <1>5, <1>6, <1>7 DEF Complete

(* The two sides, cut into atomic accesses, come to a future that is       *)
(* polled, answered and woken in one step each, for every set of wakers:   *)
(* the safety part of ImplementsAwaited.                                   *)
THEOREM ImplementsOneAnswer ==
  Spec => Awaited!Init /\ [][Awaited!Next]_Awaited!vars
<1>1. Init => Awaited!Init
  BY DEF Init, Awaited!Init, answerBar, taskBar
<1>2. ASSUME CallInv, [Next]_vars PROVE [Awaited!Next]_Awaited!vars
  <2>1. CallInv'
    BY <1>2, StepCall
  <2>2. ASSUME NEW w \in Waker, PollCall(w) PROVE Awaited!PollStarts(w)
    BY <1>2, <2>1, <2>2, BarsStay DEF Bars, PollCall, Resting, state, Awaited!PollStarts, CallInv, StateAgrees, TypeOK
  <2>3. CASE DropFuture
    <3>1. Awaited!Drops
      BY <1>2, <2>1, <2>3, BarsStay DEF Bars, DropFuture, Release, Awaited!Drops, CallInv, TypeOK, StateAgrees
    <3>2. QED
      BY <3>1 DEF Awaited!Next
  <2>4. CASE UNCHANGED vars
    BY <2>4 DEF vars, state, answerBar, taskBar, Awaited!vars
  <2>5. QED
    BY <1>2, <2>1, <2>2, <2>3, <2>4, PollAwaits, CompleteAwaits DEF Next, Awaited!Next
<1>3. QED
  BY <1>1, <1>2, CallInvariant, PTL DEF Spec
=============================================================================
