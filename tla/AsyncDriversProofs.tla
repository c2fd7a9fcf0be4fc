-------------------------- MODULE AsyncDriversProofs --------------------------
(***************************************************************************)
(* Proofs about the drivers of the host languages, for any number of polls *)
(* and of spurious wakes: each keeps to the handshake the Rust side relies *)
(* on, and what each promises its caller.                                  *)
(*                                                                         *)
(* First a RustFuture under any host that keeps to the handshake: the      *)
(* handle is not used after its free, complete tells the truth, and no     *)
(* continuation stays parked with no wake to come.                         *)
(*                                                                         *)
(* A driver knows of the Rust future only what its polls were told, which  *)
(* of them still run, and what it did with the handle itself.  The second  *)
(* part says how the steps of the Rust side look from there; the drivers   *)
(* are then treated with the Rust side out of sight.                       *)
(***************************************************************************)
EXTENDS AsyncDrivers, TLAPS

(* The slot and the polls agree on which continuation is where.            *)
SlotAgrees ==
  /\ \A p \in Poll : phase[p] = "parked" <=> slot = p
  /\ \A p \in Poll :
       /\ at[p] \in {"idle", "entered", "checked", "pending", "ready", "answered"} =>
            phase[p] = "fresh"
       /\ at[p] \in {"parked", "taking", "refused"} => phase[p] # "fresh"
       /\ signal[p] = "cancelled" => slot = "Cancelled"

(* One poll is outstanding at a time, none once the host was told Ready,   *)
(* and the host completes only then.                                       *)
HostIsSerial ==
  /\ \A p, q \in Poll : Outstanding(p) /\ Outstanding(q) => p = q
  /\ ToldReady => \A p \in Poll : ~Outstanding(p)
  /\ taking # "no" => ToldReady

(* The host frees before it completes or after.                            *)
FreeIsLate == freed # "no" => taking \in {"no", "done"}

(* Nothing borrows the handle once it is being freed, and no cancel either *)
(* when it goes.                                                           *)
FreeIsQuiet ==
  /\ freed # "no" => \A p \in Poll : ~InsidePoll(p)
  /\ freed # "passed"
  /\ freed = "dropped" => CancelReturned

(* Ready means that there is something to take, a cancellation at least.   *)
ReadyIsMeant ==
  /\ \A p \in Poll : at[p] \in {"ready", "answered"} => isFinished \/ isCancelled
  /\ taking = "empty" => isCancelled
  /\ exec = "Consumed" => taking = "done"
  /\ exec = "Complete" => inner = "ready"
  /\ isCancelled => cancels \/ freed # "no"

(* A poll that found the Rust future pending, and one that has parked,     *)
(* have a wake coming, or its effect waits in the slot.                    *)
WakeComes ==
  \A p \in Poll :
    \/ at[p] # "pending" /\ phase[p] # "parked"
    \/ inner = "pending" /\ waker
    \/ waking > 0
    \/ at[p] = "pending" /\ slot \in {"Waked", "Cancelled"}

WakesAreCounted == waking <= spurious + (IF inner = "ready" THEN 1 ELSE 0)

(* What does not depend on when the handle is freed, and what does.        *)
FutureCore ==
  /\ TypeOK
  /\ SlotAgrees
  /\ HostIsSerial
  /\ FreeIsLate
  /\ ReadyIsMeant
  /\ WakeComes
  /\ WakesAreCounted
  /\ OutcomeSound

FutureInv == FutureCore /\ FreeIsQuiet /\ NoUseAfterFree

-----------------------------------------------------------------------------
LEMMA FutureInit == Init => FutureInv
<1> SUFFICES ASSUME Init PROVE FutureInv
  OBVIOUS
<1> USE SpuriousAssumption, PollAssumption DEF Init, Slot!Init
<1>1. TypeOK
  <2>1. /\ slot \in {"Empty", "Waked", "Cancelled"} \cup Poll
        /\ phase \in [Poll -> {"fresh", "parked", "claimed", "delivered"}]
        /\ signal \in [Poll -> {"none", "wake", "cancelled"}]
    OBVIOUS
  <2>2. /\ exec \in {"Running", "Complete", "Failed", "Consumed"}
        /\ inner \in {"pending", "ready"}
        /\ waker \in BOOLEAN
    OBVIOUS
  <2>3. /\ waking \in 0..(MaxSpurious + 1)
        /\ spurious \in 0..MaxSpurious
    <3>1. waking = 0 /\ spurious = 0
      OBVIOUS
    <3>2. MaxSpurious \in Nat
      BY SpuriousAssumption
    <3> HIDE DEF Init
    <3>3. QED
      BY <3>1, <3>2
  <2>4. at \in [Poll -> {"idle", "entered", "checked", "pending", "ready", "answered",
                          "parked", "taking", "refused"}]
    OBVIOUS
  <2>5. /\ taking \in {"no", "locked", "empty", "done"}
        /\ result \in {"none", "ok", "failed", "cancelled", "internal"}
        /\ freed \in {"no", "marked", "passed", "dropped"}
        /\ touched \in BOOLEAN
        /\ cancels \in BOOLEAN
    OBVIOUS
  <2>6. QED
    BY <2>1, <2>2, <2>3, <2>4, <2>5 DEF TypeOK
<1>2. SlotAgrees /\ HostIsSerial /\ FreeIsLate /\ FreeIsQuiet
  BY DEF SlotAgrees, HostIsSerial, Outstanding, Called, ToldReady, Heard, FreeIsLate, FreeIsQuiet
<1>3. ReadyIsMeant /\ WakeComes /\ WakesAreCounted
  BY DEF ReadyIsMeant, isFinished, isCancelled, WakeComes, WakesAreCounted
<1>4. NoUseAfterFree /\ OutcomeSound
  BY DEF NoUseAfterFree, OutcomeSound
<1>5. QED
  BY <1>1, <1>2, <1>3, <1>4 DEF FutureInv, FutureCore

(* One lemma for each action, which says of each part of the invariant     *)
(* what it rests on.                                                       *)

LEMMA HastyPollsKeeps ==
  ASSUME FutureCore, NEW p \in Poll, HastyPolls(p)
  PROVE  FutureCore'
<1> USE SpuriousAssumption, PollAssumption DEF FutureCore, HastyPolls, PollCall, Touch, Move,
      slotVars, rustVars, hostVars
<1>1. TypeOK'
  BY DEF TypeOK
<1>2. SlotAgrees'
  BY <1>1 DEF TypeOK, SlotAgrees
<1>3. HostIsSerial'
  BY <1>1 DEF TypeOK, HostIsSerial, Outstanding, Called, Heard, ToldReady
<1>4. FreeIsLate'
  BY DEF FreeIsLate
<1>5. ReadyIsMeant'
  BY <1>1 DEF TypeOK, ReadyIsMeant, isFinished, isCancelled
<1>6. WakeComes'
  BY <1>1 DEF TypeOK, WakeComes
<1>7. WakesAreCounted'
  BY <1>1 DEF TypeOK, WakesAreCounted
<1>8. OutcomeSound'
  BY <1>1 DEF TypeOK, OutcomeSound, isCancelled
<1>9. QED
  BY <1>1, <1>2, <1>3, <1>4, <1>5, <1>6, <1>7, <1>8

LEMMA PollReadsCancelledKeeps ==
  ASSUME FutureCore, NEW p \in Poll, PollReadsCancelled(p)
  PROVE  FutureCore'
<1> USE SpuriousAssumption, PollAssumption DEF FutureCore, PollReadsCancelled, Touch, Move,
      slotVars, rustVars, hostVars
<1>1. TypeOK'
  BY DEF TypeOK
<1>2. SlotAgrees'
  BY <1>1 DEF TypeOK, SlotAgrees
<1>3. HostIsSerial'
  BY <1>1 DEF TypeOK, HostIsSerial, Outstanding, Called, Heard, ToldReady
<1>4. FreeIsLate'
  BY DEF FreeIsLate
<1>5. ReadyIsMeant'
  BY <1>1 DEF TypeOK, ReadyIsMeant, isFinished, isCancelled
<1>6. WakeComes'
  BY <1>1 DEF TypeOK, WakeComes
<1>7. WakesAreCounted'
  BY <1>1 DEF TypeOK, WakesAreCounted
<1>8. OutcomeSound'
  BY <1>1 DEF TypeOK, OutcomeSound, isCancelled
<1>9. QED
  BY <1>1, <1>2, <1>3, <1>4, <1>5, <1>6, <1>7, <1>8

LEMMA PollOnceKeeps ==
  ASSUME FutureCore, NEW p \in Poll, PollOnce(p)
  PROVE  FutureCore'
<1> USE SpuriousAssumption, PollAssumption DEF FutureCore, PollOnce, Touch, Move, slotVars,
      rustVars, hostVars
<1>1. TypeOK'
  <2>1. exec' \in {"Running", "Complete", "Failed", "Consumed"} /\ waker' \in BOOLEAN
    BY DEF TypeOK
  <2>2. at' \in [Poll -> {"idle", "entered", "checked", "pending", "ready", "answered",
                          "parked", "taking", "refused"}]
    BY DEF TypeOK
  <2>3. touched' \in BOOLEAN /\ inner' = inner
    BY DEF TypeOK
  <2>4. QED
    BY <2>1, <2>2, <2>3 DEF TypeOK
<1>2. SlotAgrees'
  BY <1>1 DEF TypeOK, SlotAgrees
<1>3. HostIsSerial'
  BY <1>1 DEF TypeOK, HostIsSerial, Outstanding, Called, Heard, ToldReady
<1>4. FreeIsLate'
  BY DEF FreeIsLate
<1>5. ReadyIsMeant'
  BY <1>1 DEF TypeOK, ReadyIsMeant, isFinished, isCancelled
<1>6. WakeComes'
  BY <1>1 DEF TypeOK, WakeComes
<1>7. WakesAreCounted'
  BY <1>1 DEF TypeOK, WakesAreCounted
<1>8. OutcomeSound'
  BY <1>1 DEF TypeOK, OutcomeSound, isCancelled
<1>9. QED
  BY <1>1, <1>2, <1>3, <1>4, <1>5, <1>6, <1>7, <1>8

LEMMA PollAnswersKeeps ==
  ASSUME FutureCore, NEW p \in Poll, PollAnswers(p)
  PROVE  FutureCore'
<1> USE SpuriousAssumption, PollAssumption DEF FutureCore, PollAnswers, Touch, Move, slotVars,
      rustVars, hostVars
<1>1. TypeOK'
  BY DEF TypeOK
<1>2. SlotAgrees'
  BY <1>1 DEF TypeOK, SlotAgrees
<1>3. HostIsSerial'
  BY <1>1 DEF TypeOK, HostIsSerial, Outstanding, Called, Heard, ToldReady
<1>4. FreeIsLate'
  BY DEF FreeIsLate
<1>5. ReadyIsMeant'
  BY <1>1 DEF TypeOK, ReadyIsMeant, isFinished, isCancelled
<1>6. WakeComes'
  BY <1>1 DEF TypeOK, WakeComes
<1>7. WakesAreCounted'
  BY <1>1 DEF TypeOK, WakesAreCounted
<1>8. OutcomeSound'
  BY <1>1 DEF TypeOK, OutcomeSound, isCancelled
<1>9. QED
  BY <1>1, <1>2, <1>3, <1>4, <1>5, <1>6, <1>7, <1>8

LEMMA PollStoresKeeps ==
  ASSUME FutureCore, NEW p \in Poll, PollStores(p)
  PROVE  FutureCore'
<1> USE SpuriousAssumption, PollAssumption DEF FutureCore, PollStores, Slot!Offers, Slot!Park,
      Slot!TakeBufferedWake, Slot!Refuse, Slot!Claim, Touch, Move, slotVars, rustVars, hostVars
<1>1. TypeOK'
  BY DEF TypeOK
<1>2. SlotAgrees'
  BY <1>1 DEF TypeOK, SlotAgrees
<1>3. HostIsSerial'
  BY <1>1 DEF TypeOK, HostIsSerial, Outstanding, Called, Heard, ToldReady
<1>4. FreeIsLate'
  BY DEF FreeIsLate
<1>5. ReadyIsMeant'
  BY <1>1 DEF TypeOK, ReadyIsMeant, isFinished, isCancelled
<1>6. WakeComes'
  BY <1>1 DEF TypeOK, WakeComes, SlotAgrees, HostIsSerial, Outstanding, Called, Heard, ToldReady
<1>7. WakesAreCounted'
  BY <1>1 DEF TypeOK, WakesAreCounted
<1>8. OutcomeSound'
  BY <1>1 DEF TypeOK, OutcomeSound, isCancelled
<1>9. QED
  BY <1>1, <1>2, <1>3, <1>4, <1>5, <1>6, <1>7, <1>8

LEMMA DeliverKeeps ==
  ASSUME FutureCore, NEW p \in Poll, Deliver(p)
  PROVE  FutureCore'
<1> USE SpuriousAssumption, PollAssumption DEF FutureCore, Deliver, Slot!Deliver, Touch, Move,
      slotVars, rustVars, hostVars
<1>1. TypeOK'
  BY DEF TypeOK
<1>2. SlotAgrees'
  BY <1>1 DEF TypeOK, SlotAgrees
<1>3. HostIsSerial'
  BY <1>1 DEF TypeOK, HostIsSerial, Outstanding, Called, Heard, ToldReady, SlotAgrees
<1>4. FreeIsLate'
  BY DEF FreeIsLate
<1>5. ReadyIsMeant'
  BY <1>1 DEF TypeOK, ReadyIsMeant, isFinished, isCancelled
<1>6. WakeComes'
  BY <1>1 DEF TypeOK, WakeComes
<1>7. WakesAreCounted'
  BY <1>1 DEF TypeOK, WakesAreCounted
<1>8. OutcomeSound'
  BY <1>1 DEF TypeOK, OutcomeSound, isCancelled
<1>9. QED
  BY <1>1, <1>2, <1>3, <1>4, <1>5, <1>6, <1>7, <1>8

LEMMA CompleteWithoutKeeps ==
  ASSUME FutureCore, CompleteWithout
  PROVE  FutureCore'
<1> USE SpuriousAssumption, PollAssumption DEF FutureCore, CompleteWithout, Touch, Move, slotVars,
      rustVars, hostVars
<1>1. TypeOK'
  BY DEF TypeOK
<1>2. SlotAgrees'
  BY <1>1 DEF TypeOK, SlotAgrees
<1>3. HostIsSerial'
  BY <1>1 DEF TypeOK, HostIsSerial, Outstanding, Called, Heard, ToldReady
<1>4. FreeIsLate'
  BY DEF FreeIsLate
<1>5. ReadyIsMeant'
  BY <1>1 DEF TypeOK, ReadyIsMeant, isFinished, isCancelled
<1>6. WakeComes'
  BY <1>1 DEF TypeOK, WakeComes
<1>7. WakesAreCounted'
  BY <1>1 DEF TypeOK, WakesAreCounted
<1>8. OutcomeSound'
  BY <1>1 DEF TypeOK, OutcomeSound, isCancelled, ReadyIsMeant, isFinished, FreeIsLate
<1>9. QED
  BY <1>1, <1>2, <1>3, <1>4, <1>5, <1>6, <1>7, <1>8

LEMMA WakeKeeps ==
  ASSUME FutureCore, Wake
  PROVE  FutureCore'
<1> USE SpuriousAssumption, PollAssumption DEF FutureCore, Wake, Slot!WakeParked, Slot!BufferWake,
      Slot!Claim, Touch, Move, slotVars, rustVars, hostVars
<1>1. TypeOK'
  BY DEF TypeOK
<1>2. SlotAgrees'
  BY <1>1 DEF TypeOK, SlotAgrees
<1>3. HostIsSerial'
  BY <1>1 DEF TypeOK, HostIsSerial, Outstanding, Called, Heard, ToldReady, SlotAgrees
<1>4. FreeIsLate'
  BY DEF FreeIsLate
<1>5. ReadyIsMeant'
  BY <1>1 DEF TypeOK, ReadyIsMeant, isFinished, isCancelled
<1>6. WakeComes'
  BY <1>1 DEF TypeOK, WakeComes, SlotAgrees, HostIsSerial, Outstanding, Called, Heard, ToldReady
<1>7. WakesAreCounted'
  BY <1>1 DEF TypeOK, WakesAreCounted
<1>8. OutcomeSound'
  BY <1>1 DEF TypeOK, OutcomeSound, isCancelled
<1>9. QED
  BY <1>1, <1>2, <1>3, <1>4, <1>5, <1>6, <1>7, <1>8

LEMMA InnerReadyKeeps ==
  ASSUME FutureCore, InnerReady
  PROVE  FutureCore'
<1> USE SpuriousAssumption, PollAssumption DEF FutureCore, InnerReady, Touch, Move, slotVars,
      rustVars, hostVars
<1>1. TypeOK'
  <2>1. waking \in Nat /\ spurious \in 0..MaxSpurious /\ waking <= spurious
    BY DEF TypeOK, WakesAreCounted
  <2>2. waking' \in 0..(MaxSpurious + 1)
    BY <2>1
  <2>3. UNCHANGED <<slot, phase, signal, exec, spurious, at, taking, result, freed, touched, cancels>>
    OBVIOUS
  <2>4. inner' \in {"pending", "ready"} /\ waker' \in BOOLEAN
    OBVIOUS
  <2> HIDE DEF InnerReady
  <2>5. QED
    BY <2>2, <2>3, <2>4 DEF TypeOK
<1>2. SlotAgrees'
  BY <1>1 DEF TypeOK, SlotAgrees
<1>3. HostIsSerial'
  BY <1>1 DEF TypeOK, HostIsSerial, Outstanding, Called, Heard, ToldReady
<1>4. FreeIsLate'
  BY DEF FreeIsLate
<1>5. ReadyIsMeant'
  BY <1>1 DEF TypeOK, ReadyIsMeant, isFinished, isCancelled
<1>6. WakeComes'
  BY <1>1 DEF TypeOK, WakeComes
<1>7. WakesAreCounted'
  BY <1>1 DEF TypeOK, WakesAreCounted
<1>8. OutcomeSound'
  BY <1>1 DEF TypeOK, OutcomeSound, isCancelled
<1>9. QED
  BY <1>1, <1>2, <1>3, <1>4, <1>5, <1>6, <1>7, <1>8

LEMMA SpuriousWakeKeeps ==
  ASSUME FutureCore, SpuriousWake
  PROVE  FutureCore'
<1> USE SpuriousAssumption, PollAssumption DEF FutureCore, SpuriousWake, Touch, Move, slotVars,
      rustVars, hostVars
<1>1. TypeOK'
  BY DEF TypeOK, WakesAreCounted
<1>2. SlotAgrees'
  BY <1>1 DEF TypeOK, SlotAgrees
<1>3. HostIsSerial'
  BY <1>1 DEF TypeOK, HostIsSerial, Outstanding, Called, Heard, ToldReady
<1>4. FreeIsLate'
  BY DEF FreeIsLate
<1>5. ReadyIsMeant'
  BY <1>1 DEF TypeOK, ReadyIsMeant, isFinished, isCancelled
<1>6. WakeComes'
  BY <1>1 DEF TypeOK, WakeComes
<1>7. WakesAreCounted'
  BY <1>1 DEF TypeOK, WakesAreCounted
<1>8. OutcomeSound'
  BY <1>1 DEF TypeOK, OutcomeSound, isCancelled
<1>9. QED
  BY <1>1, <1>2, <1>3, <1>4, <1>5, <1>6, <1>7, <1>8

LEMMA HostCompletesKeeps ==
  ASSUME FutureCore, HostCompletes
  PROVE  FutureCore'
<1> USE SpuriousAssumption, PollAssumption DEF FutureCore, HostCompletes, CompleteLocks, Touch,
      Move, slotVars, rustVars, hostVars
<1>1. TypeOK'
  BY DEF TypeOK
<1>2. SlotAgrees'
  BY <1>1 DEF TypeOK, SlotAgrees
<1>3. HostIsSerial'
  BY <1>1 DEF TypeOK, HostIsSerial, Outstanding, Called, Heard, ToldReady
<1>4. FreeIsLate'
  BY DEF FreeIsLate
<1>5. ReadyIsMeant'
  BY <1>1 DEF TypeOK, ReadyIsMeant, isFinished, isCancelled, SlotAgrees, HostIsSerial,
     Outstanding, Called, Heard, ToldReady
<1>6. WakeComes'
  BY <1>1 DEF TypeOK, WakeComes
<1>7. WakesAreCounted'
  BY <1>1 DEF TypeOK, WakesAreCounted
<1>8. OutcomeSound'
  BY <1>1 DEF TypeOK, OutcomeSound, isCancelled, ReadyIsMeant, isFinished, FreeIsLate
<1>9. QED
  BY <1>1, <1>2, <1>3, <1>4, <1>5, <1>6, <1>7, <1>8

LEMMA CancelKeeps ==
  ASSUME FutureCore, Cancel
  PROVE  FutureCore'
<1> USE SpuriousAssumption, PollAssumption DEF FutureCore, Cancel, MarkCancelled,
      Slot!CancelParked, Slot!CancelIdle, Slot!Claim, isCancelled, Touch, Move, slotVars,
     rustVars, hostVars
<1>1. TypeOK'
  BY DEF TypeOK
<1>2. SlotAgrees'
  BY <1>1 DEF TypeOK, SlotAgrees
<1>3. HostIsSerial'
  BY <1>1 DEF TypeOK, HostIsSerial, Outstanding, Called, Heard, ToldReady, SlotAgrees
<1>4. FreeIsLate'
  BY DEF FreeIsLate
<1>5. ReadyIsMeant'
  BY <1>1 DEF TypeOK, ReadyIsMeant, isFinished, isCancelled
<1>6. WakeComes'
  BY <1>1 DEF TypeOK, WakeComes
<1>7. WakesAreCounted'
  BY <1>1 DEF TypeOK, WakesAreCounted
<1>8. OutcomeSound'
  BY <1>1 DEF TypeOK, OutcomeSound, isCancelled
<1>9. QED
  BY <1>1, <1>2, <1>3, <1>4, <1>5, <1>6, <1>7, <1>8

LEMMA HastyFreesKeeps ==
  ASSUME FutureCore, HastyFrees
  PROVE  FutureCore'
<1> USE SpuriousAssumption, PollAssumption DEF FutureCore, HastyFrees, FreeMarks, FreeDrops,
      MarkCancelled, Slot!CancelParked, Slot!CancelIdle, Slot!Claim, isCancelled, Touch, Move,
     slotVars, rustVars, hostVars
<1>1. TypeOK'
  BY DEF TypeOK
<1>2. SlotAgrees'
  BY <1>1 DEF TypeOK, SlotAgrees
<1>3. HostIsSerial'
  BY <1>1 DEF TypeOK, HostIsSerial, Outstanding, Called, Heard, ToldReady, SlotAgrees
<1>4. FreeIsLate'
  BY DEF FreeIsLate
<1>5. ReadyIsMeant'
  BY <1>1 DEF TypeOK, ReadyIsMeant, isFinished, isCancelled
<1>6. WakeComes'
  BY <1>1 DEF TypeOK, WakeComes
<1>7. WakesAreCounted'
  BY <1>1 DEF TypeOK, WakesAreCounted
<1>8. OutcomeSound'
  BY <1>1 DEF TypeOK, OutcomeSound, isCancelled
<1>9. QED
  BY <1>1, <1>2, <1>3, <1>4, <1>5, <1>6, <1>7, <1>8

LEMMA CoreStutters ==
  ASSUME FutureCore, UNCHANGED vars
  PROVE  FutureCore'
<1> USE DEF FutureCore, vars, slotVars, rustVars, hostVars
<1>1. (TypeOK /\ SlotAgrees /\ HostIsSerial)'
  BY DEF TypeOK, SlotAgrees, HostIsSerial, Outstanding, Called, ToldReady, Heard
<1>2. (FreeIsLate /\ ReadyIsMeant /\ WakeComes)'
  BY DEF FreeIsLate, ReadyIsMeant, isFinished, isCancelled, WakeComes
<1>3. (WakesAreCounted /\ OutcomeSound)'
  BY DEF WakesAreCounted, OutcomeSound
<1>4. QED
  BY <1>1, <1>2, <1>3

LEMMA CoreStep == FutureCore /\ [HastyNext]_vars => FutureCore'
<1> SUFFICES ASSUME FutureCore, [HastyNext]_vars PROVE FutureCore'
  OBVIOUS
<1>1. CASE Library
  BY <1>1, PollReadsCancelledKeeps, PollOnceKeeps, PollAnswersKeeps, PollStoresKeeps, DeliverKeeps,
     CompleteWithoutKeeps, WakeKeeps DEF Library
<1>2. CASE InnerReady \/ SpuriousWake
  BY <1>2, InnerReadyKeeps, SpuriousWakeKeeps
<1>3. ASSUME NEW p \in Poll, HastyPolls(p) PROVE FutureCore'
  BY <1>3, HastyPollsKeeps
<1>4. CASE HostCompletes \/ Cancel \/ HastyFrees
  BY <1>4, HostCompletesKeeps, CancelKeeps, HastyFreesKeeps
<1>5. CASE UNCHANGED vars
  BY <1>5, CoreStutters
<1>6. QED
  BY <1>1, <1>2, <1>3, <1>4, <1>5 DEF HastyNext

LEMMA HandshakeIsHasty == Next => HastyNext
  BY DEF Next, HastyNext, HostPolls, HastyPolls, HostCancels, HostFrees, HastyFrees

(* Only cancel and free set out to run what is parked as cancelled.        *)
LEMMA RustDelivers ==
  ASSUME FutureCore, CancelReturned, Library \/ InnerReady \/ SpuriousWake
  PROVE  CancelReturned'
<1> USE PollAssumption DEF FutureCore, TypeOK, SlotAgrees, CancelReturned, CancelDelivers, Move,
      slotVars, rustVars, hostVars
<1>1. ASSUME NEW p \in Poll, PollReadsCancelled(p) \/ PollOnce(p) \/ PollAnswers(p)
      PROVE  CancelReturned'
  BY <1>1 DEF PollReadsCancelled, PollOnce, PollAnswers
<1>2. ASSUME NEW p \in Poll, PollStores(p) PROVE CancelReturned'
  BY <1>2 DEF PollStores, Slot!Park, Slot!TakeBufferedWake, Slot!Refuse, Slot!Claim
<1>3. ASSUME NEW p \in Poll, Deliver(p) PROVE CancelReturned'
  BY <1>3 DEF Deliver, Slot!Deliver
<1>4. CASE CompleteWithout
  BY <1>4 DEF CompleteWithout
<1>5. CASE Wake
  BY <1>5 DEF Wake, Slot!WakeParked, Slot!BufferWake, Slot!Claim
<1>6. CASE InnerReady \/ SpuriousWake
  BY <1>6 DEF InnerReady, SpuriousWake
<1>7. QED
  BY <1>1, <1>2, <1>3, <1>4, <1>5, <1>6 DEF Library

LEMMA CallDelivers ==
  ASSUME CancelReturned, UNCHANGED vars \/ CompleteLocks \/ FreeDrops
  PROVE  CancelReturned'
BY DEF CancelReturned, CancelDelivers, vars, slotVars, CompleteLocks, FreeDrops

(* A poll, a cancel, and a call that is made borrow a handle that is still *)
(* there.                                                                  *)
LEMMA BorrowsStep ==
  ASSUME FutureInv, [Next]_vars
  PROVE  FreeIsQuiet' /\ NoUseAfterFree'
<1> USE DEF FutureInv, FreeIsQuiet, NoUseAfterFree, InsidePoll, Touch, Move
<1>1. TypeOK /\ FreeIsLate
  BY DEF FutureCore
<1>2. ASSUME NEW p \in Poll, PollReadsCancelled(p) \/ PollOnce(p) \/ PollStores(p) \/ HostPolls(p)
      PROVE  FreeIsQuiet' /\ NoUseAfterFree'
  <2>1. freed = "no"
    BY <1>2 DEF PollReadsCancelled, PollOnce, PollStores, HostPolls
  <2>2. freed' = freed /\ touched' = (touched \/ freed = "dropped")
    BY <1>2 DEF PollReadsCancelled, PollOnce, PollStores, HostPolls, PollCall
  <2>3. QED
    BY <2>1, <2>2
<1>3. CASE Library \/ InnerReady \/ SpuriousWake
  <2>1. CancelReturned => CancelReturned'
    BY <1>3, RustDelivers
  <2>2. ASSUME NEW p \in Poll, PollAnswers(p) PROVE FreeIsQuiet' /\ NoUseAfterFree'
    BY <1>1, <2>1, <2>2 DEF PollAnswers, hostVars, TypeOK
  <2>3. ASSUME NEW p \in Poll, Deliver(p) PROVE FreeIsQuiet' /\ NoUseAfterFree'
    BY <2>1, <2>3 DEF Deliver, CancelReturned
  <2>4. CASE CompleteWithout
    BY <1>1, <2>1, <2>4 DEF CompleteWithout, FreeIsLate
  <2>5. CASE Wake \/ InnerReady \/ SpuriousWake
    BY <2>1, <2>5 DEF Wake, InnerReady, SpuriousWake, hostVars
  <2>6. QED
    BY <1>2, <1>3, <2>2, <2>3, <2>4, <2>5 DEF Library
<1>4. CASE HostCompletes \/ HostCancels
  BY <1>4 DEF HostCompletes, CompleteLocks, HostCancels, Cancel
<1>5. CASE HostFrees
  <2>1. FreeDrops => CancelReturned'
    BY CallDelivers DEF FreeDrops
  <2>2. QED
    BY <1>5, <2>1 DEF HostFrees, FreeMarks, FreeDrops
<1>6. CASE UNCHANGED vars
  BY <1>6, CallDelivers DEF vars, hostVars
<1>7. QED
  BY <1>2, <1>3, <1>4, <1>5, <1>6 DEF Next

LEMMA FutureStep == FutureInv /\ [Next]_vars => FutureInv'
<1> SUFFICES ASSUME FutureInv, [Next]_vars PROVE FutureInv'
  OBVIOUS
<1>1. FutureCore'
  BY CoreStep, HandshakeIsHasty DEF FutureInv
<1>2. QED
  BY <1>1, BorrowsStep DEF FutureInv

-----------------------------------------------------------------------------
(* What holds between the slot, the polls, the execution state and the     *)
(* wakes under way, in every reachable state of any number of polls.       *)
THEOREM FutureInvariant == Spec => []FutureInv
  BY FutureInit, FutureStep, PTL DEF Spec

(* Type correctness; the wakes are bounded by the spurious ones and one.   *)
THEOREM FutureTyped == Spec => []TypeOK
  BY FutureInvariant, PTL DEF FutureInv, FutureCore

(* complete returns a result that there is, or CANCELLED after a cancel,   *)
(* and never the internal error that a poll too early would get.           *)
THEOREM OutcomeIsSound == Spec => []OutcomeSound
  BY FutureInvariant, PTL DEF FutureInv, FutureCore

(* However wakes fall between the steps of a poll, no continuation is left *)
(* parked over a future that is ready with no wake to come.                *)
THEOREM NobodyWaitsInSilence == Spec => []NoSilentWait
<1>1. FutureInv => NoSilentWait
  BY SpuriousAssumption DEF FutureInv, FutureCore, SlotAgrees, WakeComes, NoSilentWait, TypeOK
<1>2. QED
  BY <1>1, FutureInvariant, PTL

-----------------------------------------------------------------------------
(* The Rust future as a driver sees it.                                    *)

told == [p \in Poll |-> IF Called(p) THEN Heard(p) ELSE "uncalled"]
inside == {p \in Poll : InsidePoll(p)}

Told(p) == told[p] \in {"MaybeReady", "Ready"}
Over(p) == told[p] \in {"uncalled", "MaybeReady"}
AllOver == \A p \in Poll : Over(p)
OthersOver(c) == \A p \in Poll : p # c => Over(p)

(* Polls that were made may be told, and may return.                       *)
OnlyHears ==
  /\ \A p \in Poll : told'[p] # told[p] =>
       told[p] = "none" /\ told'[p] \in {"MaybeReady", "Ready"}
  /\ inside' \subseteq inside

(* What the invariant of the Rust side says of this view.                  *)
View ==
  /\ told \in [Poll -> {"uncalled", "none", "MaybeReady", "Ready"}]
  /\ inside \subseteq {p \in Poll : told[p] = "none"}
  /\ \A p \in Poll : Called(p) <=> told[p] # "uncalled"
  /\ \A p \in Poll : Heard(p) # "none" => Told(p)
  /\ \A p \in Poll : Told(p) => told[p] = Heard(p)
  /\ \A p, q \in Poll : told[p] = "none" => told[q] # "Ready"
  /\ (\A p \in Poll : told[p] # "none") => CancelReturned
  /\ taking \in {"no", "locked", "empty", "done"}
  /\ freed \in {"no", "marked", "passed", "dropped"}

LEMMA CoreView == ASSUME FutureCore PROVE View
<1> USE DEF FutureCore, TypeOK, SlotAgrees, told, inside, Called, Heard, InsidePoll, Told
<1>1. told \in [Poll -> {"uncalled", "none", "MaybeReady", "Ready"}]
  OBVIOUS
<1>2. inside \subseteq {p \in Poll : told[p] = "none"}
  OBVIOUS
<1>3. \A p \in Poll : Called(p) <=> told[p] # "uncalled"
  OBVIOUS
<1>4. \A p \in Poll : Heard(p) # "none" => Told(p)
  OBVIOUS
<1>5. \A p \in Poll : Told(p) => told[p] = Heard(p)
  OBVIOUS
<1>6. \A p, q \in Poll : told[p] = "none" => told[q] # "Ready"
  BY DEF HostIsSerial, ToldReady, Outstanding
<1>7. (\A p \in Poll : told[p] # "none") => CancelReturned
  BY DEF CancelReturned, CancelDelivers
<1>8. taking \in {"no", "locked", "empty", "done"} /\ freed \in {"no", "marked", "passed", "dropped"}
  OBVIOUS
<1>9. QED
  BY <1>1, <1>2, <1>3, <1>4, <1>5, <1>6, <1>7, <1>8 DEF View

LEMMA FutureView == ASSUME FutureInv PROVE View
BY CoreView DEF FutureInv

(* What the steps of the Rust side, and the calls of the host, change of   *)
(* this view.                                                              *)
LEMMA RustHears ==
  ASSUME FutureCore, Library \/ InnerReady \/ SpuriousWake
  PROVE  /\ OnlyHears /\ freed' = freed
         /\ taking' = taking \/ (taking = "empty" /\ taking' = "done")
<1> USE DEF OnlyHears, told, inside, Called, Heard, InsidePoll, slotVars, rustVars, hostVars,
      FutureCore, TypeOK, Touch, Move
<1>1. ASSUME NEW p \in Poll, PollReadsCancelled(p)
      PROVE  OnlyHears /\ freed' = freed /\ taking' = taking
  BY <1>1 DEF PollReadsCancelled
<1>2. ASSUME NEW p \in Poll, PollOnce(p)
      PROVE  OnlyHears /\ freed' = freed /\ taking' = taking
  BY <1>2 DEF PollOnce
<1>3. ASSUME NEW p \in Poll, PollAnswers(p)
      PROVE  OnlyHears /\ freed' = freed /\ taking' = taking
  BY <1>3 DEF PollAnswers, SlotAgrees
<1>4. ASSUME NEW p \in Poll, PollStores(p)
      PROVE  OnlyHears /\ freed' = freed /\ taking' = taking
  BY <1>4 DEF PollStores, Slot!Park, Slot!TakeBufferedWake, Slot!Refuse, Slot!Claim, SlotAgrees
<1>5. ASSUME NEW p \in Poll, Deliver(p)
      PROVE  OnlyHears /\ freed' = freed /\ taking' = taking
  BY <1>5 DEF Deliver, Slot!Deliver, SlotAgrees
<1>6. ASSUME CompleteWithout
      PROVE  OnlyHears /\ freed' = freed /\ taking = "empty" /\ taking' = "done"
  BY <1>6 DEF CompleteWithout
<1>7. ASSUME Wake PROVE OnlyHears /\ freed' = freed /\ taking' = taking
  BY <1>7, PollAssumption
  DEF Wake, Slot!WakeParked, Slot!BufferWake, Slot!Claim, SlotAgrees
<1>8. ASSUME InnerReady \/ SpuriousWake PROVE OnlyHears /\ freed' = freed /\ taking' = taking
  BY <1>8 DEF InnerReady, SpuriousWake
<1>9. QED
  BY <1>1, <1>2, <1>3, <1>4, <1>5, <1>6, <1>7, <1>8 DEF Library

LEMMA CancelHears ==
  ASSUME FutureCore, Cancel
  PROVE  OnlyHears /\ freed' = freed /\ taking' = taking
  BY PollAssumption
  DEF OnlyHears, told, inside, Called, Heard, InsidePoll, FutureCore, TypeOK, SlotAgrees, Cancel,
      MarkCancelled, Slot!CancelParked, Slot!CancelIdle, Slot!Claim, slotVars

LEMMA CompleteHears ==
  ASSUME FutureCore, CompleteLocks
  PROVE  OnlyHears /\ freed' = freed /\ taking = "no" /\ taking' \in {"empty", "done"}
  BY DEF OnlyHears, told, inside, Called, Heard, InsidePoll, CompleteLocks, slotVars

LEMMA FreeHears ==
  ASSUME FutureCore
  PROVE  /\ FreeMarks =>
              /\ OnlyHears /\ freed = "no" /\ taking' = taking
              /\ CancelReturned => freed' = "marked"
         /\ FreeDrops => OnlyHears /\ freed # "no" /\ freed' = "dropped" /\ taking' = taking
<1>1. ASSUME FreeMarks PROVE OnlyHears
  BY <1>1, PollAssumption
  DEF OnlyHears, told, inside, Called, Heard, InsidePoll, FutureCore, TypeOK, SlotAgrees, FreeMarks,
      MarkCancelled, Slot!CancelParked, Slot!CancelIdle, Slot!Claim, slotVars
<1>2. ASSUME FreeDrops PROVE OnlyHears
  BY <1>2 DEF OnlyHears, told, inside, Called, Heard, InsidePoll, FreeDrops, slotVars
<1>3. QED
  BY <1>1, <1>2 DEF FreeMarks, FreeDrops

LEMMA PollIsHeard ==
  ASSUME FutureCore, NEW p \in Poll, PollCall(p)
  PROVE  /\ told[p] = "uncalled" /\ told' = [told EXCEPT ![p] = "none"]
         /\ inside' = inside \cup {p}
         /\ freed' = freed /\ taking' = taking
<1>1. told[p] = "uncalled" /\ told' = [told EXCEPT ![p] = "none"]
  BY DEF told, Called, Heard, PollCall, Move, slotVars, FutureCore, TypeOK, SlotAgrees
<1>2. inside' = inside \cup {p}
  BY DEF inside, InsidePoll, PollCall, Move, FutureCore, TypeOK
<1>3. QED
  BY <1>1, <1>2 DEF PollCall

(* When the polls that were made are over, another may be.                 *)
LEMMA OverIsSerial ==
  ASSUME FutureCore, AllOver
  PROVE  ~ToldReady /\ \A q \in Poll : ~Outstanding(q)
<1>1. View
  BY CoreView
<1>2. ASSUME NEW q \in Poll PROVE Heard(q) # "Ready"
  BY <1>1 DEF View, AllOver, Over, Told
<1>3. ASSUME NEW q \in Poll PROVE ~Outstanding(q)
  BY <1>1 DEF View, AllOver, Over, Told, Outstanding
<1>4. QED
  BY <1>2, <1>3 DEF ToldReady

LEMMA NothingHeard ==
  ASSUME UNCHANGED vars
  PROVE  OnlyHears /\ told' = told /\ inside' = inside /\ freed' = freed /\ taking' = taking
BY DEF OnlyHears, told, inside, Called, Heard, InsidePoll, vars, slotVars, hostVars

(* A step of the Rust side, or none: what follows from Next for the view.  *)
Follows == FutureInv' /\ View' /\ [Next]_vars

LEMMA Following ==
  ASSUME FutureInv, [Next]_vars PROVE Follows
<1>1. FutureInv'
  BY FutureStep
<1>2. View'
  BY <1>1, FutureView, PTL
<1>3. QED
  BY <1>1, <1>2 DEF Follows

LEMMA RustFollows ==
  ASSUME FutureInv, Library \/ InnerReady \/ SpuriousWake
  PROVE  /\ Follows /\ OnlyHears
         /\ freed' = freed
         /\ taking' = taking \/ (taking = "empty" /\ taking' = "done")
         /\ CancelReturned => CancelReturned'
BY RustHears, RustDelivers, Following DEF Next, FutureInv

LEMMA CancelFollows ==
  ASSUME FutureInv, freed = "no", Cancel
  PROVE  Follows /\ OnlyHears /\ freed' = freed /\ taking' = taking
BY CancelHears, Following DEF Next, HostCancels, FutureInv

LEMMA CompleteFollows ==
  ASSUME FutureInv, freed = "no", NEW p \in Poll, told[p] = "Ready", CompleteLocks
  PROVE  /\ Follows /\ OnlyHears
         /\ freed' = freed /\ taking = "no" /\ taking' \in {"empty", "done"}
         /\ CancelReturned => CancelReturned'
<1>1. ToldReady
  BY FutureView DEF View, ToldReady, Told
<1>2. QED
  BY <1>1, CompleteHears, CallDelivers, Following DEF Next, HostCompletes, FutureInv

LEMMA FreeFollows ==
  ASSUME FutureInv
  PROVE  /\ taking \in {"no", "done"} /\ inside = {} /\ CancelReturned /\ FreeMarks =>
              /\ Follows /\ OnlyHears
              /\ freed = "no" /\ freed' = "marked" /\ taking' = taking
         /\ FreeDrops =>
              /\ Follows /\ OnlyHears
              /\ freed # "no" /\ freed' = "dropped" /\ taking' = taking
<1>1. inside = {} => \A p \in Poll : ~InsidePoll(p)
  BY DEF inside
<1>2. QED
  BY <1>1, FreeHears, Following DEF Next, HostFrees, FutureInv

(* A poll that is made when all before it were told MaybeReady.            *)
LEMMA PollFollows ==
  ASSUME FutureInv, freed = "no", AllOver, NEW p \in Poll, PollCall(p)
  PROVE  /\ Follows
         /\ told[p] = "uncalled" /\ told' = [told EXCEPT ![p] = "none"]
         /\ inside' = inside \cup {p}
         /\ freed' = freed /\ taking' = taking
<1>1. HostPolls(p)
  BY OverIsSerial DEF HostPolls, FutureInv
<1>2. QED
  BY <1>1, PollIsHeard, Following DEF Next, FutureInv

LEMMA StutterFollows ==
  ASSUME FutureInv, UNCHANGED vars
  PROVE  /\ Follows /\ OnlyHears
         /\ told' = told /\ inside' = inside
         /\ freed' = freed /\ taking' = taking
         /\ CancelReturned => CancelReturned'
BY Following, NothingHeard, CallDelivers

LEMMA ReturnedIsOutside == \A p \in Poll : PollReturned(p) => p \notin inside
  BY DEF PollReturned, inside, InsidePoll

-----------------------------------------------------------------------------
(* What a driver did with the handle, by where it is: `completing`, with   *)
(* the call over (`closing`), `freeing`, and `after` the free.             *)
Handle(loc, completing, closing, freeing, after) ==
  /\ taking \in IF loc \in completing THEN {"empty", "done"}
                 ELSE IF loc \in closing \cup freeing \cup after THEN {"no", "done"}
                 ELSE {"no"}
  /\ freed = IF loc \in freeing THEN "marked" ELSE IF loc \in after THEN "dropped" ELSE "no"

(* Kotlin.                                                                 *)
KSuspending == {"inline", "block", "polling", "suspended"}

KMap ==
  /\ map \subseteq {current}
  /\ map # {} => co \in KSuspending /\ (resumed = "none" \/ handler = "remove")
  /\ \A p \in resuming : Told(p) /\ p \notin map
  /\ HandlerBusy => co \in KSuspending

KPolls ==
  /\ co \in KSuspending \cup {"complete"} => current \in Poll
  /\ co \in {"loop", "inline", "block"} => AllOver
  /\ co \in {"inline", "block"} => told[current] = "uncalled"
  /\ co \in {"polling", "suspended"} => OthersOver(current) /\ told[current] # "uncalled"
  /\ co # "polling" => inside = {}
  /\ co \in KSuspending /\ resumed \in {"MaybeReady", "Ready"} => told[current] = resumed
  /\ co = "complete" => told[current] = "Ready"
  /\ co \in {"complete", "completing", "finally"} => CancelReturned

KotlinInv ==
  /\ KTypeOK /\ KMap /\ KPolls
  /\ Handle(co, {"completing"}, {"finally"}, {"freeing"}, {"returned", "thrown"})

LEMMA KotlinInit == KInit => KotlinInv
  BY NoPollAssumption, FutureInit, FutureView
  DEF KInit, KotlinInv, KTypeOK, KMap, KPolls, Handle, KSuspending, HandlerBusy, AllOver, Over,
      FutureInv, FutureCore, View, Init, told, inside, Called, InsidePoll

LEMMA KotlinStep ==
  ASSUME FutureInv, KotlinInv, KNext
  PROVE  Follows /\ KotlinInv'
<1>1. View
  BY FutureView
<1> USE <1>1, NoPollAssumption DEF KotlinInv, KMap, KPolls, Handle, KSuspending, HandlerBusy, AllOver,
      Over, OthersOver, Told, OnlyHears, View
<1>2. Follows => TypeOK'
  BY DEF Follows, FutureInv, FutureCore
<1> USE <1>2 DEF KTypeOK
<1>3. ASSUME (Library \/ InnerReady \/ SpuriousWake) /\ UNCHANGED kotlinVars
      PROVE  Follows /\ KotlinInv'
  BY <1>3, RustFollows DEF kotlinVars, Follows
<1>4. ASSUME NEW p \in Poll, Suspend(p) PROVE Follows /\ KotlinInv'
  BY <1>4, StutterFollows DEF Suspend, Fresh, Follows
<1>5. ASSUME InlineHandlerReturns PROVE Follows /\ KotlinInv'
  BY <1>5, StutterFollows DEF InlineHandlerReturns, Follows
<1>6. ASSUME BlockPolls PROVE Follows /\ KotlinInv'
  BY <1>6, PollFollows DEF BlockPolls, Follows
<1>7. ASSUME BlockReturns PROVE Follows /\ KotlinInv'
  BY <1>7, StutterFollows, ReturnedIsOutside DEF BlockReturns, Follows
<1>8. ASSUME NEW p \in Poll, CallbackRemoves(p) PROVE Follows /\ KotlinInv'
  BY <1>8, StutterFollows DEF CallbackRemoves, Follows
<1>9. ASSUME NEW p \in Poll, CallbackResumes(p) PROVE Follows /\ KotlinInv'
  BY <1>9, StutterFollows DEF CallbackResumes, Follows
<1>10. ASSUME JobCancels PROVE Follows /\ KotlinInv'
  BY <1>10, StutterFollows DEF JobCancels, Follows
<1>11. ASSUME HandlerRemoves PROVE Follows /\ KotlinInv'
  BY <1>11, StutterFollows DEF HandlerRemoves, Follows
<1>12. ASSUME HandlerCancels PROVE Follows /\ KotlinInv'
  BY <1>12, CancelFollows DEF HandlerCancels, Follows
<1>13. ASSUME Dispatch PROVE Follows /\ KotlinInv'
  BY <1>13, StutterFollows DEF Dispatch, Follows
<1>14. ASSUME KCompletes PROVE Follows /\ KotlinInv'
  BY <1>14, CompleteFollows DEF KCompletes, Follows
<1>15. ASSUME KCompleted PROVE Follows /\ KotlinInv'
  BY <1>15, StutterFollows DEF KCompleted, Follows
<1>16. ASSUME KFrees \/ KFreed PROVE Follows /\ KotlinInv'
  BY <1>16, FreeFollows DEF KFrees, KFreed, Follows
<1>17. QED
  BY <1>3, <1>4, <1>5, <1>6, <1>7, <1>8, <1>9, <1>10, <1>11, <1>12, <1>13, <1>14, <1>15, <1>16 DEF KNext, Coroutine

-----------------------------------------------------------------------------
(* Python.                                                                 *)
PyPollsAgree ==
  /\ wait = "poll" => AllOver
  /\ wait \in {"polling", "await"} =>
       pollOf \in Poll /\ OthersOver(pollOf) /\ told[pollOf] # "uncalled"
  /\ wait # "polling" => inside = {}
  /\ ready \in {"Ready", "MaybeReady"} => pollOf \in Poll /\ told[pollOf] = ready
  /\ ready = "cancelled" => task = "cancelled"
  /\ wait = "complete" => ready = "Ready"
  /\ \A p \in scheduled : Told(p)

PythonInv ==
  /\ PyTypeOK /\ PyPollsAgree
  /\ Handle(wait, {"completing"}, {"release"}, {"releasing"}, {"returned", "raised"})

LEMMA PythonInit == PyInit => PythonInv
  BY NoFutureAssumption, FutureInit, FutureView
  DEF PyInit, PythonInv, PyTypeOK, PyPollsAgree, Handle, AllOver, Over, FutureInv, FutureCore, View, Init,
      told, inside, Called, InsidePoll

LEMMA PythonStep ==
  ASSUME FutureInv, PythonInv, PyNext
  PROVE  Follows /\ PythonInv'
<1>1. View
  BY FutureView
<1> USE <1>1, NoFutureAssumption DEF PythonInv, PyPollsAgree, Handle, AllOver, Over, OthersOver, Told,
      OnlyHears, View
<1>2. Follows => TypeOK'
  BY DEF Follows, FutureInv, FutureCore
<1> USE <1>2 DEF PyTypeOK
<1>3. ASSUME (Library \/ InnerReady \/ SpuriousWake) /\ UNCHANGED pythonVars
      PROVE  Follows /\ PythonInv'
  BY <1>3, RustFollows DEF pythonVars, Follows
<1>4. ASSUME NEW p \in Poll, PyPolls(p) PROVE Follows /\ PythonInv'
  BY <1>4, PollFollows DEF PyPolls, Follows
<1>5. ASSUME PyPolled PROVE Follows /\ PythonInv'
  BY <1>5, StutterFollows, ReturnedIsOutside DEF PyPolled, Follows
<1>6. ASSUME NEW p \in Poll, PyFutureWake(p) PROVE Follows /\ PythonInv'
  BY <1>6, StutterFollows DEF PyFutureWake, Follows
<1>7. ASSUME NEW p \in Poll, PySetResult(p) PROVE Follows /\ PythonInv'
  BY <1>7, StutterFollows DEF PySetResult, Follows
<1>8. ASSUME PyTaskCancelled PROVE Follows /\ PythonInv'
  BY <1>8, StutterFollows DEF PyTaskCancelled, Follows
<1>9. ASSUME PyResumes PROVE Follows /\ PythonInv'
  BY <1>9, StutterFollows DEF PyResumes, Follows
<1>10. ASSUME PyCompletes PROVE Follows /\ PythonInv'
  BY <1>10, CompleteFollows, StutterFollows DEF PyCompletes, Follows
<1>11. ASSUME PyCancels PROVE Follows /\ PythonInv'
  BY <1>11, CancelFollows DEF PyCancels, Follows
<1>12. ASSUME PyReleases PROVE Follows /\ PythonInv'
  BY <1>12, FreeFollows DEF PyReleases, Follows
<1>13. QED
  BY <1>3, <1>4, <1>5, <1>6, <1>7, <1>8, <1>9, <1>10, <1>11, <1>12 DEF PyNext, PyLoop

-----------------------------------------------------------------------------
(* Dart.  A message that was not handled is that of the last poll.         *)
DTPollsAgree ==
  /\ isolate \in {"create", "created", "abandon", "abandoning", "first"} =>
       \A p \in Poll : told[p] = "uncalled"
  /\ isolate = "repoll" => AllOver
  /\ isolate \in {"firstPolling", "polling", "idle"} =>
       lastPoll \in Poll /\ OthersOver(lastPoll) /\ told[lastPoll] # "uncalled"
  /\ isolate \in {"firstPolling", "polling", "idle", "repoll"} =>
       \A p \in Poll : told[p] = "uncalled" \/ p \in received \/ (p = lastPoll /\ isolate # "repoll")
  /\ isolate \notin {"firstPolling", "polling"} => inside = {}
  /\ isolate \in {"ready", "complete", "completing"} => \E p \in Poll : told[p] = "Ready"

DTListener ==
  /\ pending => isolate \in {"first", "firstPolling", "repoll", "polling", "idle", "ready"}
  /\ isolate \in {"first", "firstPolling", "repoll", "polling", "idle"} => pending
  /\ isolate \in {"free", "freeing"} => \E p \in Poll : told[p] = "Ready"
  /\ _pollCallable = "closed" => \A p \in Poll : told[p] # "none"

DartInv ==
  /\ DTTypeOK /\ DTPollsAgree /\ DTListener
  /\ taking \in IF isolate = "completing" THEN {"empty", "done"}
                 ELSE IF isolate \in {"free", "freeing", "over"} THEN {"no", "done"}
                 ELSE {"no"}
  /\ isolate # "over" =>
       freed = IF isolate \in {"abandoning", "freeing"} THEN "marked" ELSE "no"

LEMMA DartInit == DTInit => DartInv
  BY NoMessageAssumption, FutureInit, FutureView
  DEF DTInit, DartInv, DTTypeOK, DTPollsAgree, DTListener, FutureInv, FutureCore, View, Init,
      told, inside, Called, InsidePoll

LEMMA DartStep ==
  ASSUME FutureInv, DartInv, DTNext
  PROVE  Follows /\ DartInv'
<1>1. View
  BY FutureView
<1> USE <1>1, NoMessageAssumption DEF DartInv, DTPollsAgree, DTListener, AllOver, Over, OthersOver, Told,
      OnlyHears, View
<1>2. Follows => TypeOK'
  BY DEF Follows, FutureInv, FutureCore
<1> USE <1>2 DEF DTTypeOK
<1>3. ASSUME (Library \/ InnerReady \/ SpuriousWake) /\ UNCHANGED dartVars
      PROVE  Follows /\ DartInv'
  BY <1>3, RustFollows DEF dartVars, Follows
<1>4. ASSUME DTCreates PROVE Follows /\ DartInv'
  BY <1>4, StutterFollows DEF DTCreates, Follows
<1>5. ASSUME DTCreated PROVE Follows /\ DartInv'
  <2>1. CASE dartToken = "cancelled"
    BY <1>5, <2>1, CancelFollows DEF DTCreated, Follows
  <2>2. CASE dartToken = "active"
    BY <1>5, <2>2, StutterFollows DEF DTCreated, Follows
  <2>3. QED
    BY <2>1, <2>2
<1>6. ASSUME DTAbandons PROVE Follows /\ DartInv'
  BY <1>6, FreeFollows DEF DTAbandons, Follows
<1>7. ASSUME NEW p \in Poll, DTPolls(p) PROVE Follows /\ DartInv'
  <2>1. AllOver /\ freed = "no"
    BY <1>7 DEF DTPolls
  <2>2. /\ Follows /\ told[p] = "uncalled" /\ told' = [told EXCEPT ![p] = "none"]
        /\ inside' = inside \cup {p} /\ freed' = freed /\ taking' = taking
    BY <1>7, <2>1, PollFollows DEF DTPolls
  <2>3. DTTypeOK'
    BY <1>7, <2>2 DEF DTPolls
  <2>4. told'[p] = "none" /\ \A q \in Poll : q # p => told'[q] = told[q]
    BY <2>2
  <2>5. isolate' \in {"firstPolling", "polling"} /\ lastPoll' = p
    BY <1>7 DEF DTPolls
  <2>6. \A q \in Poll : told[q] = "uncalled" \/ q \in received
    BY <1>7 DEF DTPolls
  <2>7. DTPollsAgree'
    <3>1. \A q \in Poll : q # p => told'[q] \in {"uncalled", "MaybeReady"}
      BY <2>1, <2>4
    <3>2. \A q \in Poll : told'[q] = "uncalled" \/ q \in received' \/ q = p
      BY <1>7, <2>4, <2>6 DEF DTPolls
    <3>3. QED
      BY <2>4, <2>5, <3>1, <3>2
  <2>8. DTListener'
    BY <1>7, <2>5 DEF DTPolls
  <2>9. QED
    BY <1>7, <2>2, <2>3, <2>7, <2>8 DEF DTPolls
<1>8. ASSUME DTPolled PROVE Follows /\ DartInv'
  <2>1. /\ Follows /\ told' = told /\ inside' = inside
        /\ freed' = freed /\ taking' = taking
    BY <1>8, StutterFollows DEF DTPolled
  <2>2. lastPoll \in Poll /\ lastPoll \notin inside
    BY <1>8, ReturnedIsOutside DEF DTPolled
  <2>3. at[lastPoll] = "answered" => told[lastPoll] = "Ready"
    <3>1. at[lastPoll] = "answered" => Heard(lastPoll) = "Ready"
      BY <2>2 DEF Heard, FutureInv, FutureCore, SlotAgrees
    <3>2. QED
      BY <2>2, <3>1
  <2>4. DTTypeOK'
    BY <1>8, <2>1 DEF DTPolled
  <2>5. DTPollsAgree' /\ DTListener'
    BY <1>8, <2>1, <2>2, <2>3 DEF DTPolled
  <2>6. QED
    BY <1>8, <2>1, <2>4, <2>5 DEF DTPolled
<1>9. ASSUME NEW p \in Poll, DTReceives(p) PROVE Follows /\ DartInv'
  BY <1>9, StutterFollows DEF DTReceives, Follows
<1>10. ASSUME DTReady PROVE Follows /\ DartInv'
  BY <1>10, StutterFollows DEF DTReady, Follows
<1>11. ASSUME DTCompletes PROVE Follows /\ DartInv'
  BY <1>11, CompleteFollows, StutterFollows DEF DTCompletes, Follows
<1>12. ASSUME DTFrees PROVE Follows /\ DartInv'
  BY <1>12, FreeFollows DEF DTFrees, Follows
<1>13. ASSUME DTTokenCancelled PROVE Follows /\ DartInv'
  <2>1. CASE pending /\ ~waitCancelled
    BY <1>13, <2>1, CancelFollows DEF DTTokenCancelled, Follows
  <2>2. CASE ~(pending /\ ~waitCancelled)
    BY <1>13, <2>2, StutterFollows DEF DTTokenCancelled, Follows
  <2>3. QED
    BY <2>1, <2>2
<1>14. QED
  BY <1>3, <1>4, <1>5, <1>6, <1>7, <1>8, <1>9, <1>10, <1>11, <1>12, <1>13 DEF DTNext, Turn

-----------------------------------------------------------------------------
(* C#.                                                                     *)
CPollsAgree ==
  /\ method \in {"register", "check", "poll"} => AllOver
  /\ method \in {"polling", "hook", "await", "told", "claim", "complete"} =>
       pollTask \in Poll /\ OthersOver(pollTask) /\ told[pollTask] # "uncalled"
  /\ method # "polling" => inside = {}
  /\ pollResult \in {"MaybeReady", "Ready"} => pollTask \in Poll /\ told[pollTask] = pollResult
  /\ method = "told" => pollResult \in {"MaybeReady", "Ready"}
  /\ method \in {"claim", "complete"} => pollResult = "Ready"

CEntries ==
  /\ Continuations \subseteq {pollTask}
  /\ Continuations # {} => method \in {"polling", "hook", "await"} /\ pollResult = "none"
  /\ method \in {"polling", "hook", "await"} /\ pollResult = "none" => pollTask \in Continuations
  /\ hook = "poll" \/ "poll" \in hooks => method = "await"

CSharpInv ==
  /\ CTypeOK /\ CPollsAgree /\ CEntries
  /\ Handle(method, {"completing"}, {"catch", "finally", "release"}, {"releasing"},
            {"returned", "thrown"})

LEMMA CSharpInit == CInit => CSharpInv
  BY NoTaskAssumption, FutureInit, FutureView
  DEF CInit, CSharpInv, CTypeOK, CPollsAgree, CEntries, Handle, AllOver, Over, FutureInv, FutureCore, View, Init,
      told, inside, Called, InsidePoll

LEMMA CSharpStep ==
  ASSUME FutureInv, CSharpInv, CNext
  PROVE  Follows /\ CSharpInv'
<1>1. View
  BY FutureView
<1> USE <1>1, NoTaskAssumption DEF CSharpInv, CPollsAgree, CEntries, Handle, AllOver, Over, OthersOver,
      Told, OnlyHears, View
<1>2. Follows => TypeOK'
  BY DEF Follows, FutureInv, FutureCore
<1> USE <1>2 DEF CTypeOK
<1>3. ASSUME (Library \/ InnerReady \/ SpuriousWake) /\ UNCHANGED csharpVars
      PROVE  Follows /\ CSharpInv'
  BY <1>3, RustFollows DEF csharpVars, Follows
<1>4. ASSUME NEW p \in Poll, CCallback(p) PROVE Follows /\ CSharpInv'
  BY <1>4, StutterFollows DEF CCallback, Completes, Follows
<1>5. ASSUME CRegisters PROVE Follows /\ CSharpInv'
  BY <1>5, StutterFollows, CancelFollows DEF CRegisters, OwnerCancel, Follows
<1>6. ASSUME CChecks PROVE Follows /\ CSharpInv'
  BY <1>6, StutterFollows DEF CChecks, Follows
<1>7. ASSUME NEW p \in Poll, CPolls(p) PROVE Follows /\ CSharpInv'
  BY <1>7, PollFollows DEF CPolls, Follows
<1>8. ASSUME CPolled PROVE Follows /\ CSharpInv'
  BY <1>8, StutterFollows, ReturnedIsOutside DEF CPolled, Follows
<1>9. ASSUME CHooks PROVE Follows /\ CSharpInv'
  BY <1>9, StutterFollows DEF CHooks, Completes, Follows
<1>10. ASSUME CAwaits PROVE Follows /\ CSharpInv'
  BY <1>10, StutterFollows DEF CAwaits, Disposes, Follows
<1>11. ASSUME CTold PROVE Follows /\ CSharpInv'
  BY <1>11, StutterFollows DEF CTold, Follows
<1>12. ASSUME CUnhooks PROVE Follows /\ CSharpInv'
  BY <1>12, StutterFollows DEF CUnhooks, Disposes, Follows
<1>13. ASSUME CCompletes PROVE Follows /\ CSharpInv'
  BY <1>13, CompleteFollows, StutterFollows DEF CCompletes, Follows
<1>14. ASSUME CCatches PROVE Follows /\ CSharpInv'
  BY <1>14, CancelFollows, StutterFollows DEF CCatches, OwnerCancel, Follows
<1>15. ASSUME CReleases PROVE Follows /\ CSharpInv'
  BY <1>15, FreeFollows DEF CReleases, Follows
<1>16. ASSUME TokenCancelled PROVE Follows /\ CSharpInv'
  BY <1>16, StutterFollows DEF TokenCancelled, Follows
<1>17. ASSUME NEW h \in {"owner", "poll"}, SourceTakes(h) PROVE Follows /\ CSharpInv'
  BY <1>17, StutterFollows DEF SourceTakes, Follows
<1>18. ASSUME HookRuns PROVE Follows /\ CSharpInv'
  <2>1. CASE hook = "owner"
    <3>1. /\ Follows /\ OnlyHears /\ freed' = freed /\ taking' = taking
          /\ ownerCancelled' \in BOOLEAN
      BY <1>18, <2>1, CancelFollows, StutterFollows DEF HookRuns, OwnerCancel
    <3>2. QED
      BY <1>18, <2>1, <3>1 DEF HookRuns
  <2>2. CASE hook = "poll"
    BY <1>18, <2>2, StutterFollows DEF HookRuns, Completes, Follows
  <2>3. QED
    BY <1>18, <2>1, <2>2 DEF HookRuns
<1>19. QED
  BY <1>3, <1>4, <1>5, <1>6, <1>7, <1>8, <1>9, <1>10, <1>11, <1>12, <1>13, <1>14, <1>15, <1>16,
     <1>17, <1>18 DEF CNext, Method, Source

-----------------------------------------------------------------------------
(* Swift.  onCancel frees on its own thread, maybe under a poll; only a    *)
(* call in turn keeps to the handshake, but every call to the hasty one.   *)
Hastens == FutureCore' /\ View' /\ [HastyNext]_vars

LEMMA Hastening ==
  ASSUME FutureCore, [HastyNext]_vars PROVE Hastens
<1>1. FutureCore'
  BY CoreStep
<1>2. View'
  BY <1>1, CoreView, PTL
<1>3. QED
  BY <1>1, <1>2 DEF Hastens

LEMMA HastyPollFollows ==
  ASSUME FutureCore, AllOver, NEW p \in Poll, PollCall(p)
  PROVE  /\ Hastens
         /\ told[p] = "uncalled" /\ told'[p] = "none"
         /\ \A q \in Poll : q # p => told'[q] = told[q]
         /\ freed' = freed /\ taking' = taking
<1>1. HastyPolls(p)
  BY OverIsSerial DEF HastyPolls
<1>2. Hastens
  BY <1>1, Hastening DEF HastyNext
<1>3. told \in [Poll -> {"uncalled", "none", "MaybeReady", "Ready"}]
  BY CoreView DEF View
<1>4. QED
  BY <1>2, <1>3, PollIsHeard

(* Whoever exchanged the continuation out of the slot resumes it.          *)
FinisherWon == finisher \in {"complete", "completing", "free", "dropping", "resume"}
OnCancelWon == onCancel \in {"cancel", "free", "dropping", "resume"}

SWinner ==
  /\ continuationSlot = "empty" =>
       call = "entered" /\ resumes = 0 /\ onCancel \in {"no", "finish"}
  /\ continuationSlot = "installed" =>
       /\ call \in {"start", "driving"} /\ resumes = 0
       /\ finisher \in {"no", "finish"} /\ onCancel \in {"no", "finish"}
  /\ continuationSlot = "finished" =>
       \/ call = "entered" /\ resumes = 0 /\ onCancel \in {"cancel", "free", "dropping", "done"}
       \/ /\ call \in {"start", "driving"}
          /\ ~(FinisherWon /\ OnCancelWon)
          /\ FinisherWon \/ OnCancelWon => resumes = 0
  /\ continuationSlot = "stale" =>
       call = "refused" /\ resumes = 1 /\ onCancel \in {"cancel", "free", "dropping", "done"}

SBody ==
  call # "driving" =>
    /\ \A p \in Poll : told[p] = "uncalled"
    /\ handled = {} /\ checking = {} /\ tasks = {} /\ finisher = "no"

STypes ==
  /\ continuationSlot \in {"empty", "installed", "finished", "stale"}
  /\ call \in {"entered", "start", "driving", "refused"}
  /\ handled \subseteq Poll /\ checking \subseteq Poll /\ tasks \subseteq Poll
  /\ finisher \in {"no", "finish", "complete", "completing", "free", "dropping", "resume", "done"}
  /\ onCancel \in {"no", "finish", "cancel", "free", "dropping", "resume", "done"}
  /\ resumes \in 0..1

(* One of: a poll that was made and not handled, a callback between        *)
(* MaybeReady and canPoll(), a Task, the ready closure.                    *)
Unhandled(p) == told[p] # "uncalled" /\ p \notin handled

SPolls ==
  /\ \A p \in handled : Told(p)
  /\ \A p, q \in Poll : Unhandled(p) /\ Unhandled(q) => p = q
  /\ \A p, q \in checking \cup tasks : p = q
  /\ checking \cap tasks = {}
  /\ checking \cup tasks # {} => finisher = "no" /\ \A p \in Poll : ~Unhandled(p)
  /\ finisher = "no" => \A p \in handled : told[p] = "MaybeReady"
  /\ finisher # "no" => (\A p \in Poll : ~Unhandled(p)) /\ \E p \in Poll : told[p] = "Ready"

(* What was done with the handle: it is freed by the one that won.         *)
SHandle ==
  /\ finisher \in {"no", "finish", "complete"} => taking = "no"
  /\ finisher = "completing" => taking \in {"empty", "done"}
  /\ finisher \in {"free", "dropping"} => taking = "done"
  /\ finisher \in {"resume", "done"} => taking \in {"no", "done"}
  /\ finisher \in {"no", "finish"} /\ onCancel \in {"no", "finish"} => freed = "no"
  /\ finisher \in {"complete", "completing", "free"} \/ onCancel \in {"cancel", "free"} => freed = "no"
  /\ finisher = "dropping" \/ onCancel = "dropping" => freed = "marked"

SBelief == STypes /\ SBody /\ SWinner /\ SPolls /\ SHandle

SwiftInv == FutureCore /\ SBelief /\ (InTurn => FreeIsQuiet /\ NoUseAfterFree)

LEMMA SwiftInit == SInit => SwiftInv
<1> SUFFICES ASSUME SInit PROVE SwiftInv
  OBVIOUS
<1>1. FutureInv
  BY FutureInit DEF SInit
<1>2. \A p \in Poll : told[p] = "uncalled"
  BY DEF SInit, Init, Called, told
<1>3. taking = "no" /\ freed = "no"
  BY DEF SInit, Init
<1>4. SBelief
  BY <1>2, <1>3
  DEF SInit, SBelief, STypes, SBody, SWinner, SPolls, SHandle, FinisherWon, OnCancelWon, Unhandled
<1>5. QED
  BY <1>1, <1>4 DEF SwiftInv, FutureInv

(* What the driver believes of its polls and of the handle holds however   *)
(* onCancel and the ready closure meet.                                    *)
LEMMA SwiftBelieves ==
  ASSUME FutureCore, SBelief, SNext
  PROVE  Hastens /\ SBelief'
<1>1. View
  BY CoreView
<1> USE <1>1 DEF SBelief, STypes, SBody, SWinner, SPolls, SHandle, FinisherWon, OnCancelWon, Unhandled,
      Told, OnlyHears, View
<1>2. CASE (Library \/ InnerReady \/ SpuriousWake) /\ UNCHANGED swiftVars
  BY <1>2, RustHears, Hastening DEF swiftVars, HastyNext, Hastens
<1>3. ASSUME UNCHANGED vars
      PROVE  Hastens /\ told' = told /\ freed' = freed /\ taking' = taking
  BY <1>3, NothingHeard, Hastening
<1>4. CASE Install
  BY <1>3, <1>4 DEF Install
<1>5. ASSUME NEW p \in Poll, StartDriver(p) PROVE Hastens /\ SBelief'
  <2>1. AllOver
    BY <1>5 DEF StartDriver, AllOver, Over
  <2>2. QED
    BY <1>5, <2>1, HastyPollFollows DEF StartDriver
<1>6. ASSUME NEW p \in Poll, Callback(p) PROVE Hastens /\ SBelief'
  BY <1>3, <1>6 DEF Callback
<1>7. ASSUME NEW p \in Poll, CanPoll(p) PROVE Hastens /\ SBelief'
  BY <1>3, <1>7 DEF CanPoll
<1>8. ASSUME NEW p \in Poll, NEW q \in Poll, TaskPolls(p, q) PROVE Hastens /\ SBelief'
  <2>1. AllOver
    BY <1>8 DEF TaskPolls, AllOver, Over
  <2>2. QED
    BY <1>8, <2>1, HastyPollFollows DEF TaskPolls
<1>9. CASE Ready
  <2>1. CASE finisher \in {"finish", "resume"} \/ (finisher = "completing" /\ taking = "done")
    BY <1>3, <1>9, <2>1 DEF Ready, Finish
  <2>2. CASE finisher = "complete" /\ CompleteLocks
    <3>1. HostCompletes
      BY <2>2 DEF HostCompletes, ToldReady
    <3>2. QED
      BY <1>9, <2>2, <3>1, CompleteHears, Hastening DEF Ready, HastyNext, Hastens
  <2>3. CASE finisher = "free" /\ FreeMarks
    BY <1>9, <2>3, FreeHears, Hastening DEF Ready, HastyNext, HastyFrees, Hastens
  <2>4. CASE finisher = "dropping" /\ FreeDrops
    BY <1>9, <2>4, FreeHears, Hastening DEF Ready, HastyNext, HastyFrees, Hastens
  <2>5. QED
    BY <1>9, <2>1, <2>2, <2>3, <2>4 DEF Ready
<1>10. CASE TaskCancelled
  BY <1>3, <1>10 DEF TaskCancelled
<1>11. CASE OnCancel
  <2>1. CASE onCancel \in {"finish", "resume"}
    BY <1>3, <1>11, <2>1 DEF OnCancel, Finish
  <2>2. CASE onCancel = "cancel" /\ Cancel
    BY <1>11, <2>2, CancelHears, Hastening DEF OnCancel, HastyNext, Hastens
  <2>3. CASE onCancel = "free" /\ FreeMarks
    BY <1>11, <2>3, FreeHears, Hastening DEF OnCancel, HastyNext, HastyFrees, Hastens
  <2>4. CASE onCancel = "dropping" /\ FreeDrops
    BY <1>11, <2>4, FreeHears, Hastening DEF OnCancel, HastyNext, HastyFrees, Hastens, TookContinuation
  <2>5. QED
    BY <1>11, <2>1, <2>2, <2>3, <2>4 DEF OnCancel
<1>12. QED
  BY <1>2, <1>4, <1>5, <1>6, <1>7, <1>8, <1>9, <1>10, <1>11 DEF SNext, Driver

(* A call in turn keeps to the handshake.                                  *)
LEMMA SwiftInTurn ==
  ASSUME FutureCore, SBelief, InTurn, SNext
  PROVE  [Next]_vars
<1>1. View
  BY CoreView
<1> USE <1>1 DEF SBelief, STypes, SBody, SWinner, SPolls, SHandle, FinisherWon, OnCancelWon, Unhandled,
      Told, View, InTurn
<1>2. ASSUME NEW p \in Poll, PollCall(p), finisher = "no", \A q \in Poll : ~Unhandled(q)
      PROVE  Next
  <2>1. AllOver
    BY <1>2 DEF AllOver, Over
  <2>2. freed = "no"
    BY <1>2
  <2>3. QED
    BY <1>2, <2>1, <2>2, OverIsSerial DEF HostPolls, Next
<1>3. CASE \E p, q \in Poll : StartDriver(p) \/ TaskPolls(p, q)
  BY <1>2, <1>3 DEF StartDriver, TaskPolls
<1>4. CASE Ready
  <2>1. CASE finisher = "complete" /\ CompleteLocks
    BY <2>1 DEF HostCompletes, ToldReady, Next
  <2>2. CASE finisher = "free" /\ FreeMarks
    <3>1. \A p \in Poll : ~InsidePoll(p)
      BY <2>2 DEF inside
    <3>2. QED
      BY <2>2, <3>1 DEF HostFrees, Next
  <2>3. CASE finisher = "dropping" /\ FreeDrops
    BY <2>3 DEF HostFrees, Next
  <2>4. CASE UNCHANGED vars
    BY <2>4
  <2>5. QED
    BY <1>4, <2>1, <2>2, <2>3, <2>4 DEF Ready
<1>5. CASE OnCancel
  <2>1. CASE onCancel = "cancel" /\ Cancel
    BY <2>1 DEF HostCancels, Next
  <2>2. onCancel \notin {"free", "dropping"}
    OBVIOUS
  <2>3. QED
    BY <1>5, <2>1, <2>2 DEF OnCancel
<1>6. CASE UNCHANGED vars
  BY <1>6
<1>7. CASE Library \/ InnerReady \/ SpuriousWake
  BY <1>7 DEF Next
<1>8. QED
  BY <1>3, <1>4, <1>5, <1>6, <1>7 DEF SNext, Driver, Install, Callback, CanPoll, TaskCancelled

LEMMA SwiftStep ==
  ASSUME SwiftInv, SNext
  PROVE  SwiftInv' /\ [HastyNext]_vars /\ (InTurn => [Next]_vars)
<1>1. FutureCore /\ SBelief
  BY DEF SwiftInv
<1>2. FutureCore' /\ SBelief' /\ [HastyNext]_vars
  BY <1>1, SwiftBelieves DEF Hastens
<1>3. InTurn => [Next]_vars
  BY <1>1, SwiftInTurn
<1>4. InTurn' => InTurn
  BY <1>1
  DEF SBelief, STypes, SWinner, SBody, InTurn, SNext, swiftVars, Driver, Install, StartDriver, Callback,
      CanPoll, TaskPolls, Ready, TaskCancelled, OnCancel, Finish
<1>5. InTurn' => FreeIsQuiet' /\ NoUseAfterFree'
  BY <1>3, <1>4, BorrowsStep DEF SwiftInv, FutureInv
<1>6. QED
  BY <1>2, <1>3, <1>5 DEF SwiftInv

-----------------------------------------------------------------------------
(* Java.                                                                   *)
OpPhases == {"ACTIVE", "POLLING", "WAITING", "CANCEL_REQUESTED", "READY", "OWNED"}
Frames == [Actor -> [at : Label, poll : Poll \cup {"null"}, seen : OpPhases]]

JTypes ==
  /\ opPhase \in OpPhases
  /\ activePoll \in Poll \cup {"null"}
  /\ delivery \in [Poll -> {"WAITING", "PENDING", "READY", "CANCELLED"}]
  /\ callback \in [Poll -> {"no", "mark", "finish", "ignored", "done"}]
  /\ frame \in Frames

Loop == frame["drive"].at
LoopPoll == frame["drive"].poll

(* The loop polls only while the phase says so, and from MaybeReady.       *)
JDrive ==
  /\ opPhase = "ACTIVE" => Loop \in {"loop", "releaseLoop"}
  /\ opPhase = "WAITING" =>
       Loop \in {"idle", "resumed", "asyncReady", "asyncLate", "asyncPending", "asyncRearm"}
  /\ Loop \in {"arm", "poll", "polling", "park"} => opPhase \in {"POLLING", "CANCEL_REQUESTED", "READY"}
  /\ OthersOver(LoopPoll)
  /\ Loop \in {"loop", "arm", "poll", "releaseLoop", "asyncPending", "asyncRearm", "joinedPending",
               "joinedRearm"} => AllOver
  /\ Loop \in {"poll", "polling", "park", "resumed"} => LoopPoll \in Poll
  /\ Loop = "resumed" => Finished(LoopPoll)
  /\ awaited # "null" => Loop = "idle" /\ awaited = LoopPoll /\ awaited \in Poll
  /\ Loop # "polling" => inside = {}

(* What the callback made of each signal.                                  *)
JSignals ==
  /\ \A p \in Poll :
       /\ delivery[p] = "READY" => told[p] = "Ready"
       /\ delivery[p] = "PENDING" => told[p] = "MaybeReady"
       /\ callback[p] = "mark" => delivery[p] = "READY"
       /\ callback[p] \in {"finish", "done"} => delivery[p] \in {"PENDING", "READY"}
  /\ \A c \in Canceller :
       /\ At(c, "signal") => My(c) \in Poll
       /\ At(c, "giveBack") => \E p \in Poll : told[p] = "Ready"
       /\ At(c, "updated") => My(c) \in Poll
  /\ opPhase = "READY" \/ Loop = "complete" => \E p \in Poll : told[p] = "Ready"

(* The one that moved the phase to OWNED, until it has freed.              *)
WillOwn(a) == Owns(a) \/ At(a, "releaseCancel")

JOwner ==
  /\ \A a, b \in Actor : WillOwn(a) /\ WillOwn(b) => a = b
  /\ opPhase # "OWNED" => taking = "no" /\ freed = "no" /\ \A a \in Actor : ~WillOwn(a)
  /\ \A a \in Actor :
       /\ frame[a].at \in {"complete", "releaseCancel", "cancel"} => taking = "no" /\ freed = "no"
       /\ At(a, "completing") => taking \in {"empty", "done"} /\ freed = "no"
       /\ At(a, "free") => taking \in {"no", "done"} /\ freed = "no"
       /\ At(a, "drop") => taking \in {"no", "done"} /\ freed = "marked"
  /\ \A c \in Canceller : frame[c].at \notin {"complete", "completing", "releaseCancel"}
  /\ taking = "empty" => Loop = "completing"

JavaInv == JTypes /\ JDrive /\ JSignals /\ JOwner

LEMMA JavaInit == JInit => JavaInv
<1> SUFFICES ASSUME JInit PROVE JavaInv
  OBVIOUS
<1>1. taking = "no" /\ freed = "no" /\ inside = {} /\ \A p \in Poll : told[p] = "uncalled"
  BY DEF JInit, Init, told, inside, Called, InsidePoll
<1>2. JTypes
  BY DEF JInit, JTypes, OpPhases, Frames, Frame, Label, Actor
<1>3. \A a \in Actor : frame[a].at = (IF a = "drive" THEN "loop" ELSE "out") /\ frame[a].poll = "null"
  BY DEF JInit, Frame, Actor
<1>4. Loop = "loop" /\ LoopPoll = "null" /\ \A c \in Canceller : frame[c].at = "out"
  BY <1>3, CancellerAssumption DEF Loop, LoopPoll, Actor
<1>5. JDrive
  BY <1>1, <1>4 DEF JInit, JDrive, OthersOver, AllOver, Over
<1>6. JSignals
  BY <1>1, <1>4 DEF JInit, JSignals, At
<1>7. JOwner
  BY <1>1, <1>3, <1>4, CancellerAssumption DEF JInit, JOwner, WillOwn, Owns, At
<1> QED
  BY <1>2, <1>5, <1>6, <1>7 DEF JavaInv

(* A move of one actor, with what else of its frame may change.            *)
LEMMA GoMoves ==
  ASSUME frame \in Frames, NEW a \in Actor, NEW l \in Label, Go(a, l)
  PROVE  /\ frame' \in Frames
         /\ frame'[a].at = l
         /\ frame'[a].poll = frame[a].poll
         /\ \A b \in Actor : b # a => frame'[b] = frame[b]
  BY DEF Go, Frames

(* The steps that leave the Rust side alone.                               *)
Quiet ==
  /\ told' = told /\ inside' = inside /\ freed' = freed /\ taking' = taking

LEMMA CallbackKeeps ==
  ASSUME View, JavaInv, Quiet, NEW p \in Poll,
         CallbackBegins(p) \/ MarkReady(p) \/ CallbackFinishes(p)
  PROVE  JavaInv'
<1> USE DEF JavaInv, Quiet, At, Loop, LoopPoll, My, WillOwn, Owns, MoveCallback, Finished, OthersOver, AllOver,
      Over
<1>1. frame' = frame /\ awaited' = awaited
  BY DEF CallbackBegins, MarkReady, CallbackFinishes
<1>2. JTypes'
  BY <1>1 DEF JTypes, OpPhases, CallbackBegins, MarkReady, CallbackFinishes
<1>3. JDrive'
  BY <1>1 DEF JDrive, JTypes, OpPhases, CallbackBegins, MarkReady, CallbackFinishes
<1>4. JSignals'
  <2>1. CASE CallbackBegins(p)
    BY <1>1, <2>1 DEF JSignals, JTypes, CallbackBegins, View, Told
  <2>2. CASE MarkReady(p)
    BY <1>1, <2>2 DEF JSignals, JTypes, MarkReady
  <2>3. CASE CallbackFinishes(p)
    BY <1>1, <2>3 DEF JSignals, JTypes, CallbackFinishes
  <2>4. QED
    BY <2>1, <2>2, <2>3
<1>5. JOwner'
  BY <1>1 DEF JOwner, JTypes, OpPhases, CallbackBegins, MarkReady, CallbackFinishes
<1>6. QED
  BY <1>2, <1>3, <1>4, <1>5

(* A step of a canceller that is not about the handle: what it may do to   *)
(* the phase.                                                              *)
LEMMA CancellerKeeps ==
  ASSUME JavaInv, Quiet, NEW c \in Canceller, frame' \in Frames,
         \A b \in Actor : b # c => frame'[b] = frame[b],
         UNCHANGED <<callback, awaited>>,
         activePoll' \in Poll \cup {"null"},
         \/ opPhase' = opPhase
         \/ opPhase \in {"WAITING", "POLLING"} /\ opPhase' = "CANCEL_REQUESTED"
         \/ opPhase = "CANCEL_REQUESTED" /\ opPhase' = "READY" /\ At(c, "giveBack")
         \/ opPhase \in {"ACTIVE", "WAITING"} /\ opPhase' = "OWNED" /\ frame'[c].at = "cancel",
         \/ delivery' = delivery
         \/ \E p \in Poll : delivery[p] = "WAITING" /\ delivery' = [delivery EXCEPT ![p] = "CANCELLED"],
         frame'[c].at \in {"cancel", "free", "drop"} => opPhase # "OWNED" /\ opPhase' = "OWNED" /\ frame'[c].at = "cancel",
         frame'[c].at \notin {"complete", "completing", "releaseCancel"},
         frame'[c].at \in {"signal", "updated"} => frame'[c].poll \in Poll,
         frame'[c].at = "giveBack" => \E p \in Poll : told[p] = "Ready"
  PROVE  JavaInv'
<1>1. c \in Actor /\ c # "drive" /\ "drive" \in Actor /\ Canceller \subseteq Actor
  BY CancellerAssumption DEF Actor
<1>2. frame'["drive"] = frame["drive"]
  BY <1>1
<1> USE DEF JavaInv, Quiet, At, Loop, LoopPoll, My, WillOwn, Owns, Finished, OthersOver, AllOver, Over
<1>3. JTypes'
  BY DEF JTypes, OpPhases
<1>4. JDrive'
  BY <1>2 DEF JDrive
<1>5. JSignals'
  BY <1>1, <1>2 DEF JSignals, JTypes
<1>6. JOwner'
  BY <1>1, <1>2 DEF JOwner
<1>7. QED
  BY <1>3, <1>4, <1>5, <1>6
(* What the owner does to the handle, on its way out.                      *)
LEMMA OwnerMoves ==
  ASSUME View, JavaInv, OnlyHears, NEW a \in Actor, WillOwn(a),
         NEW l \in {"cancel", "completing", "free", "drop", "done", "releaseIdle"}, Go(a, l),
         UNCHANGED <<opPhase, delivery, callback, awaited>>,
         activePoll' \in Poll \cup {"null"},
         l = "cancel" => taking' = "no" /\ freed' = "no",
         l \in {"completing", "releaseIdle"} => a = "drive",
         l = "completing" => taking' \in {"empty", "done"} /\ freed' = "no",
         l = "free" => taking' \in {"no", "done"} /\ freed' = "no",
         l = "drop" => taking' \in {"no", "done"} /\ freed' = "marked",
         taking' = "empty" => l = "completing"
  PROVE  JavaInv'
<1>1. "drive" \in Actor /\ Canceller \subseteq Actor /\ "drive" \notin Canceller
  BY CancellerAssumption DEF Actor
<1>2. /\ frame' \in Frames /\ frame'[a].at = l /\ frame'[a].poll = frame[a].poll
      /\ \A b \in Actor : b # a => frame'[b] = frame[b]
  BY GoMoves DEF JavaInv, JTypes, Label
<1>3. opPhase = "OWNED" /\ (\A b \in Actor : b # a => ~WillOwn(b))
  BY DEF JavaInv, JOwner
<1>4. Loop # "polling" /\ Loop' # "polling" /\ LoopPoll' = LoopPoll
  BY <1>1, <1>2, <1>3 DEF JavaInv, JDrive, Loop, LoopPoll
<1>5. \A b \in Actor : b # a => ~WillOwn(b)'
  BY <1>2, <1>3 DEF WillOwn, Owns, At
<1>6. Loop' # Loop => a = "drive" /\ Loop' = l /\ WillOwn("drive")
  BY <1>1, <1>2 DEF Loop
<1> USE DEF JavaInv
<1>7. JTypes'
  BY <1>2 DEF JTypes
<1>8. JDrive'
  <2>1. Loop' = Loop \/ Loop' \in {"cancel", "completing", "free", "drop", "done", "releaseIdle"}
    BY <1>6
  <2>2. Loop' # Loop => Loop \in {"complete", "completing", "cancel", "free", "drop", "releaseCancel"}
    BY <1>6 DEF WillOwn, Owns, At, Loop
  <2>3. OthersOver(LoopPoll)' /\ (AllOver => AllOver')
    BY <1>4 DEF JDrive, OthersOver, AllOver, Over, OnlyHears
  <2>4. inside = {} /\ inside' = {}
    BY <1>4 DEF JDrive, OnlyHears
  <2>5. QED
    BY <1>3, <1>4, <2>1, <2>2, <2>3, <2>4 DEF JDrive, Finished
<1>9. JSignals'
  <2>1. \A p \in Poll : Told(p) => told'[p] = told[p]
    BY DEF OnlyHears, Told
  <2>2. (\E p \in Poll : told[p] = "Ready") => \E p \in Poll : told'[p] = "Ready"
    BY <2>1 DEF Told
  <2>3. Loop' # "complete"
    BY <1>1, <1>2, <1>6, <1>5 DEF WillOwn, Owns, At, Loop
  <2>4. \A c \in Canceller : At(c, "signal")' \/ At(c, "updated")' \/ At(c, "giveBack")' => frame'[c] = frame[c]
    BY <1>1, <1>2 DEF At
  <2>5. QED
    BY <1>3, <2>1, <2>2, <2>3, <2>4 DEF JSignals, Told, At, My
<1>10. JOwner'
  <2>1. \A b \in Actor : b # a => frame'[b].at \notin {"complete", "completing", "cancel", "free", "drop", "releaseCancel"}
    BY <1>5 DEF WillOwn, Owns, At
  <2>2. (\A b, c \in Actor : WillOwn(b) /\ WillOwn(c) => b = c)'
    BY <1>5
  <2>3. \A c \in Canceller : frame'[c].at \notin {"complete", "completing", "releaseCancel"}
    BY <1>1, <1>2, <2>1
  <2>4. taking' = "empty" => Loop' = "completing"
    BY <1>1, <1>2 DEF Loop
  <2>5. QED
    BY <1>2, <1>3, <2>1, <2>2, <2>3, <2>4 DEF JOwner, At
<1>11. QED
  BY <1>7, <1>8, <1>9, <1>10

LEMMA OwnerStep ==
  ASSUME FutureInv, JavaInv, NEW a \in Actor,
         OwnerCancels(a) \/ OwnerFrees(a) \/ (a = "drive" /\ OwnerCompletes)
  PROVE  Follows /\ JavaInv'
<1>1. "drive" \in Actor /\ JDrive /\ JSignals /\ JOwner
  BY DEF Actor, JavaInv
<1>2. WillOwn(a) /\ opPhase = "OWNED"
  BY <1>1 DEF OwnerCancels, OwnerFrees, OwnerCompletes, JOwner, At, WillOwn, Owns
<1>3. View /\ inside = {}
  BY <1>1, <1>2, FutureView DEF JDrive
<1>4. /\ UNCHANGED <<opPhase, delivery, callback, awaited>>
      /\ activePoll' \in Poll \cup {"null"}
  BY DEF OwnerCancels, OwnerFrees, OwnerCompletes, JavaInv, JTypes
<1>5. CASE OwnerCancels(a)
  <2>1. Go(a, "free") /\ taking = "no" /\ freed = "no"
    BY <1>1, <1>5 DEF OwnerCancels, JOwner, At
  <2>2. Follows /\ OnlyHears /\ freed' = "no" /\ taking' = "no"
    BY <1>5, <2>1, CancelFollows DEF OwnerCancels
  <2>3. QED
    BY <1>2, <1>3, <1>4, <2>1, <2>2, OwnerMoves
<1>6. CASE At(a, "free") /\ CancelReturned /\ FreeMarks /\ Go(a, "drop")
  <2>1. taking \in {"no", "done"}
    BY <1>1, <1>6 DEF JOwner
  <2>2. Follows /\ OnlyHears /\ freed' = "marked" /\ taking' = taking
    BY <1>3, <1>6, <2>1, FreeFollows
  <2>3. QED
    BY <1>2, <1>3, <1>4, <1>6, <2>1, <2>2, OwnerMoves
<1>7. CASE At(a, "drop") /\ FreeDrops /\ Go(a, IF a = "drive" THEN "releaseIdle" ELSE "done")
  <2>1. taking \in {"no", "done"}
    BY <1>1, <1>7 DEF JOwner
  <2>2. Follows /\ OnlyHears /\ taking' = taking
    BY <1>7, FreeFollows
  <2>3. PICK l \in {"done", "releaseIdle"} : Go(a, l) /\ (l = "releaseIdle" => a = "drive")
    BY <1>7
  <2>4. QED
    BY <1>2, <1>3, <1>4, <2>1, <2>2, <2>3, OwnerMoves
<1>8. CASE a = "drive" /\ At("drive", "complete") /\ CompleteLocks /\ Go("drive", "completing")
  <2>1. PICK p \in Poll : told[p] = "Ready"
    BY <1>1, <1>8 DEF JSignals, At, Loop
  <2>2. freed = "no"
    BY <1>1, <1>8 DEF JOwner, At
  <2>3. Follows /\ OnlyHears /\ freed' = "no" /\ taking' \in {"empty", "done"}
    BY <1>8, <2>1, <2>2, CompleteFollows
  <2>4. QED
    BY <1>2, <1>3, <1>4, <1>8, <2>3, OwnerMoves
<1>9. CASE a = "drive" /\ At("drive", "completing") /\ taking = "done" /\ Go("drive", "free") /\ UNCHANGED vars
  <2>1. Follows /\ OnlyHears /\ freed' = freed /\ taking' = taking
    BY <1>9, StutterFollows
  <2>2. freed = "no"
    BY <1>1, <1>9 DEF JOwner, At
  <2>3. QED
    BY <1>2, <1>3, <1>4, <1>9, <2>1, <2>2, OwnerMoves
<1>10. QED
  BY <1>5, <1>6, <1>7, <1>8, <1>9 DEF OwnerFrees, OwnerCompletes

LEMMA CancellerStep ==
  ASSUME FutureInv, JavaInv, NEW c \in Canceller, CancelReads(c) \/ RunCancel(c)
  PROVE  Follows /\ JavaInv'
<1>1. c \in Actor /\ c # "drive" /\ "drive" \in Actor
  BY CancellerAssumption DEF Actor
<1>2. JTypes /\ JSignals /\ JOwner
  BY DEF JavaInv
<1>3. UNCHANGED vars => Follows /\ Quiet
  BY StutterFollows DEF Quiet
<1>4. \A l \in Label : Go(c, l) =>
        /\ frame' \in Frames /\ frame'[c].at = l /\ frame'[c].poll = frame[c].poll
        /\ \A b \in Actor : b # c => frame'[b] = frame[b]
  BY <1>1, <1>2, GoMoves DEF JTypes
<1>6. ASSUME CancelReads(c) PROVE Follows /\ JavaInv'
  <2> DEFINE l == CASE opPhase \in {"OWNED", "READY"}     -> "done"
                    [] opPhase = "CANCEL_REQUESTED"       -> "settle"
                    [] opPhase = "ACTIVE"                 -> "claimActive"
                    [] opPhase \in {"WAITING", "POLLING"} -> "active"
  <2>1. l \in {"done", "settle", "claimActive", "active"}
    BY <1>2, <1>6 DEF CancelReads, JTypes, OpPhases
  <2>2. frame' = [frame EXCEPT ![c] = [@ EXCEPT !.seen = opPhase, !.at = l]]
    BY <1>6 DEF CancelReads
  <2>3. l \in Label
    BY <2>1 DEF Label
  <2> HIDE DEF l
  <2>4. /\ frame' \in Frames /\ frame'[c].at = l
        /\ frame'[c].poll = frame[c].poll
        /\ \A b \in Actor : b # c => frame'[b] = frame[b]
    BY <1>1, <1>2, <2>2, <2>3 DEF JTypes, Frames
  <2>5. QED
    BY <1>2, <1>3, <1>6, <2>1, <2>4, CancellerKeeps DEF CancelReads, JTypes
<1>7. ASSUME CancelClaimsActive(c) PROVE Follows /\ JavaInv'
  BY <1>1, <1>2, <1>3, <1>4, <1>7, CancellerKeeps
  DEF CancelClaimsActive, Cas, JTypes, JSignals, JOwner, OpPhases, Label, At, My, WillOwn, Owns
<1>8. ASSUME CancelReadsActive(c) PROVE Follows /\ JavaInv'
  <2> DEFINE l == CASE activePoll = "null"    -> "read"
                    [] frame[c].seen = "WAITING" /\ activePoll # "null" -> "signal"
                    [] OTHER                  -> "started"
  <2>1. l \in {"read", "signal", "started"} /\ (l = "signal" => activePoll \in Poll)
    BY <1>2, <1>8 DEF CancelReadsActive, JTypes, OpPhases
  <2>2. frame' = [frame EXCEPT ![c] = [@ EXCEPT !.poll = activePoll, !.at = l]]
    BY <1>8 DEF CancelReadsActive
  <2>3. l \in Label
    BY <2>1 DEF Label
  <2> HIDE DEF l
  <2>4. /\ frame' \in Frames /\ frame'[c].at = l
        /\ frame'[c].poll = activePoll
        /\ \A b \in Actor : b # c => frame'[b] = frame[b]
    BY <1>1, <1>2, <2>2, <2>3 DEF JTypes, Frames
  <2>5. QED
    BY <1>2, <1>3, <1>8, <2>1, <2>4, CancellerKeeps DEF CancelReadsActive, JTypes
<1>9. ASSUME CancelTakesDelivery(c) PROVE Follows /\ JavaInv'
  BY <1>1, <1>2, <1>3, <1>4, <1>9, CancellerKeeps
  DEF CancelTakesDelivery, JTypes, JSignals, JOwner, OpPhases, Label, At, My, WillOwn, Owns
<1>10. ASSUME CancelDefers(c) PROVE Follows /\ JavaInv'
  BY <1>1, <1>2, <1>3, <1>4, <1>10, CancellerKeeps
  DEF CancelDefers, Cas, JTypes, JSignals, JOwner, OpPhases, Label, At, My, WillOwn, Owns
<1>11. ASSUME CancelClaimsWaiting(c) PROVE Follows /\ JavaInv'
  BY <1>1, <1>2, <1>3, <1>4, <1>11, CancellerKeeps
  DEF CancelClaimsWaiting, Cas, JTypes, JSignals, JOwner, OpPhases, Label, At, My, WillOwn, Owns
<1>12. ASSUME CancelReadsStarted(c) PROVE Follows /\ JavaInv'
  BY <1>1, <1>2, <1>3, <1>4, <1>12, CancellerKeeps
  DEF CancelReadsStarted, JTypes, JSignals, JOwner, OpPhases, Label, At, My, WillOwn, Owns
<1>13. ASSUME CancelRereadsActive(c) PROVE Follows /\ JavaInv'
  <2> DEFINE l == IF activePoll = "null" THEN "settle" ELSE "updated"
  <2>1. l \in {"settle", "updated"} /\ (l = "updated" => activePoll \in Poll)
    BY <1>2, <1>13 DEF CancelRereadsActive, JTypes, OpPhases
  <2>2. frame' = [frame EXCEPT ![c] = [@ EXCEPT !.poll = activePoll, !.at = l]]
    BY <1>13 DEF CancelRereadsActive
  <2>3. l \in Label
    BY <2>1 DEF Label
  <2> HIDE DEF l
  <2>4. /\ frame' \in Frames /\ frame'[c].at = l
        /\ frame'[c].poll = activePoll
        /\ \A b \in Actor : b # c => frame'[b] = frame[b]
    BY <1>1, <1>2, <2>2, <2>3 DEF JTypes, Frames
  <2>5. QED
    BY <1>2, <1>3, <1>13, <2>1, <2>4, CancellerKeeps DEF CancelRereadsActive, JTypes
<1>14. ASSUME CancelGivesBack(c) PROVE Follows /\ JavaInv'
  BY <1>1, <1>2, <1>3, <1>4, <1>14, CancellerKeeps
  DEF CancelGivesBack, Cas, JTypes, JSignals, JOwner, OpPhases, Label, At, My, WillOwn, Owns
<1>15. ASSUME Settles(c) PROVE Follows /\ JavaInv'
  BY <1>1, <1>2, <1>3, <1>4, <1>15, CancellerKeeps
  DEF Settles, JTypes, JSignals, JOwner, OpPhases, Label, At, My, WillOwn, Owns
<1>16. ASSUME OwnerCancels(c) \/ OwnerFrees(c) PROVE Follows /\ JavaInv'
  BY OwnerStep, <1>1, <1>16
<1>17. QED
  BY <1>6, <1>7, <1>8, <1>9, <1>10, <1>11, <1>12, <1>13, <1>14, <1>15, <1>16 DEF RunCancel

(* A step of the loop that is not about the handle.  What it may do to the *)
(* phase, and to which label, is what JDrive needs.                        *)
LEMMA LoopKeeps ==
  ASSUME JavaInv, FutureInv, UNCHANGED <<vars, delivery, callback>>,
         ~WillOwn("drive"),
         NEW l \in Label, NEW p \in Poll \cup {"null"},
         frame' = [frame EXCEPT !["drive"] = [@ EXCEPT !.at = l, !.poll = p]],
         p = LoopPoll \/ (told[p] = "uncalled" /\ AllOver /\ l = "poll" /\ p \in Poll),
         activePoll' \in Poll \cup {"null"},
         \/ opPhase' = opPhase /\ ~WillOwn("drive")'
         \/ opPhase \in {"WAITING", "POLLING"} /\ opPhase' = "ACTIVE" /\ l \in {"loop", "releaseLoop"}
         \/ opPhase = "ACTIVE" /\ opPhase' = "POLLING" /\ l = "arm"
         \/ opPhase = "POLLING" /\ opPhase' = "WAITING" /\ l = "idle"
         \/ opPhase = "READY" /\ opPhase' = "OWNED" /\ l = "complete"
         \/ opPhase = "CANCEL_REQUESTED" /\ opPhase' = "OWNED" /\ l \in {"cancel", "releaseCancel"},
         JDrive'
  PROVE  Follows /\ JavaInv'
<1>1. "drive" \in Actor /\ Canceller \subseteq Actor /\ "drive" \notin Canceller
  BY CancellerAssumption DEF Actor
<1>2. /\ frame' \in Frames /\ frame'["drive"].at = l
      /\ \A b \in Actor : b # "drive" => frame'[b] = frame[b]
  BY <1>1 DEF JavaInv, JTypes, Frames
<1>3. Follows /\ Quiet
  BY StutterFollows DEF Quiet
<1> USE DEF JavaInv, Quiet
<1>4. JTypes'
  BY <1>2 DEF JTypes, OpPhases
<1>5. JSignals'
  BY <1>1, <1>2, <1>3 DEF JSignals, At, My, Loop, WillOwn, Owns
<1>6. JOwner'
  BY <1>1, <1>2, <1>3 DEF JOwner, At, Loop, WillOwn, Owns
<1>7. QED
  BY <1>3, <1>4, <1>5, <1>6

LEMMA LoopStep ==
  ASSUME FutureInv, JavaInv, DriveLoop
  PROVE  Follows /\ JavaInv'
<1>1. "drive" \in Actor /\ Canceller \subseteq Actor /\ "drive" \notin Canceller
  BY CancellerAssumption DEF Actor
<1>2. JTypes /\ JDrive /\ JSignals /\ JOwner /\ View
  BY FutureView DEF JavaInv
<1>3. UNCHANGED vars => Follows /\ Quiet
  BY StutterFollows DEF Quiet
<1>4. ASSUME NEW l \in Label, Go("drive", l)
      PROVE  /\ frame' = [frame EXCEPT !["drive"] = [@ EXCEPT !.at = l, !.poll = LoopPoll]]
             /\ Loop' = l /\ LoopPoll' = LoopPoll
  BY <1>1, <1>2, <1>4 DEF Go, JTypes, Frames, Loop, LoopPoll
<1>5. LoopPoll \in Poll \cup {"null"}
  BY <1>1, <1>2 DEF JTypes, Frames, LoopPoll
<1>6. CASE LoopClaims
  <2>1. PICK l \in {"arm", "idle"} :
          Go("drive", l) /\ 
            \/ l = "arm" /\ opPhase = "ACTIVE" /\ opPhase' = "POLLING"
            \/ l = "idle" /\ opPhase # "ACTIVE" /\ opPhase' = opPhase
    BY <1>6 DEF LoopClaims, Cas, At, Loop, LoopPoll, My, Finished
  <2>2. l \in Label /\ Follows /\ Quiet /\ Loop \in {"loop"}
    BY <1>3, <1>6, <2>1 DEF LoopClaims, Label, At, Loop
  <2>3. Loop' = l /\ LoopPoll' = LoopPoll
    BY <1>4, <2>1, <2>2
  <2>4. UNCHANGED <<activePoll, delivery, callback>> /\ awaited' = awaited
    BY <1>6 DEF LoopClaims, LoopPoll, My
  <2>5. JDrive'
    BY <1>2, <2>1, <2>2, <2>3, <2>4 DEF JDrive, Quiet, Finished, OthersOver, AllOver, Over
  <2>6. ~WillOwn("drive") /\ (l \notin {"complete", "cancel", "releaseCancel"} => ~WillOwn("drive")')
    BY <2>2, <2>3 DEF WillOwn, Owns, At, Loop
  <2>7. QED
    BY <1>2, <1>4, <1>5, <1>6, <2>1, <2>2, <2>4, <2>5, <2>6, LoopKeeps DEF JTypes, LoopClaims
<1>7. CASE LoopPolled
  <2>1. PICK l \in {"park", "joinedReady", "joinedPending"} :
          Go("drive", l) /\ opPhase' = opPhase
            /\ LoopPoll \notin inside
            /\ (l = "joinedPending" => Finished(LoopPoll) /\ delivery[LoopPoll] # "READY")
    BY <1>7 DEF LoopPolled, inside, InsidePoll, At, Loop, LoopPoll, My, Finished
  <2>2. l \in Label /\ Follows /\ Quiet /\ Loop \in {"polling"}
    BY <1>3, <1>7, <2>1 DEF LoopPolled, Label, At, Loop
  <2>3. Loop' = l /\ LoopPoll' = LoopPoll
    BY <1>4, <2>1, <2>2
  <2>4. UNCHANGED <<activePoll, delivery, callback>> /\ awaited' = awaited
    BY <1>7 DEF LoopPolled, LoopPoll, My
  <2>5. JDrive'
    BY <1>2, <2>1, <2>2, <2>3, <2>4 DEF JDrive, Quiet, Finished, OthersOver, AllOver, Over, JSignals, View
  <2>6. ~WillOwn("drive") /\ (l \notin {"complete", "cancel", "releaseCancel"} => ~WillOwn("drive")')
    BY <2>2, <2>3 DEF WillOwn, Owns, At, Loop
  <2>7. QED
    BY <1>2, <1>4, <1>5, <1>7, <2>1, <2>2, <2>4, <2>5, <2>6, LoopKeeps DEF JTypes, LoopPolled
<1>8. CASE LoopParks
  <2>1. PICK l \in {"idle", "refused"} :
          Go("drive", l) /\ 
            \/ l = "idle" /\ opPhase = "POLLING" /\ opPhase' = "WAITING"
            \/ l = "refused" /\ opPhase # "POLLING" /\ opPhase' = opPhase
    BY <1>8 DEF LoopParks, Cas, At, Loop, LoopPoll, My, Finished
  <2>2. l \in Label /\ Follows /\ Quiet /\ Loop \in {"park"}
    BY <1>3, <1>8, <2>1 DEF LoopParks, Label, At, Loop
  <2>3. Loop' = l /\ LoopPoll' = LoopPoll
    BY <1>4, <2>1, <2>2
  <2>4. UNCHANGED <<activePoll, delivery, callback>> /\ awaited' = (IF opPhase = "POLLING" THEN LoopPoll ELSE awaited)
    BY <1>8 DEF LoopParks, LoopPoll, My
  <2>5. JDrive'
    BY <1>2, <2>1, <2>2, <2>3, <2>4 DEF JDrive, Quiet, Finished, OthersOver, AllOver, Over
  <2>6. ~WillOwn("drive") /\ (l \notin {"complete", "cancel", "releaseCancel"} => ~WillOwn("drive")')
    BY <2>2, <2>3 DEF WillOwn, Owns, At, Loop
  <2>7. QED
    BY <1>2, <1>4, <1>5, <1>8, <2>1, <2>2, <2>4, <2>5, <2>6, LoopKeeps DEF JTypes, LoopParks
<1>9. CASE AsyncStarts
  <2>1. PICK l \in {"resumed"} :
          Go("drive", l) /\ opPhase' = opPhase
            /\ awaited # "null" /\ Finished(awaited)
    BY <1>9 DEF AsyncStarts, At, Loop, LoopPoll, My, Finished
  <2>2. l \in Label /\ Follows /\ Quiet /\ Loop \in {"idle"}
    BY <1>3, <1>9, <2>1 DEF AsyncStarts, Label, At, Loop
  <2>3. Loop' = l /\ LoopPoll' = LoopPoll
    BY <1>4, <2>1, <2>2
  <2>4. UNCHANGED <<activePoll, delivery, callback>> /\ awaited' = "null"
    BY <1>9 DEF AsyncStarts, LoopPoll, My
  <2>5. JDrive'
    BY <1>2, <2>1, <2>2, <2>3, <2>4 DEF JDrive, Quiet, Finished, OthersOver, AllOver, Over
  <2>6. ~WillOwn("drive") /\ (l \notin {"complete", "cancel", "releaseCancel"} => ~WillOwn("drive")')
    BY <2>2, <2>3 DEF WillOwn, Owns, At, Loop
  <2>7. QED
    BY <1>2, <1>4, <1>5, <1>9, <2>1, <2>2, <2>4, <2>5, <2>6, LoopKeeps DEF JTypes, AsyncStarts
<1>10. CASE LoopClaimsReady
  <2>1. PICK l \in {"complete", "lateReady", "asyncLate", "idle"} :
          Go("drive", l) /\ 
            \/ l = "complete" /\ opPhase = "READY" /\ opPhase' = "OWNED"
            \/ /\ opPhase # "READY" /\ opPhase' = opPhase
               /\ \/ Loop = "joinedReady" /\ l = "lateReady"
                  \/ Loop = "asyncReady" /\ l = "asyncLate"
                  \/ Loop = "refusedReady" /\ l = "idle"
    BY <1>10 DEF LoopClaimsReady, Cas, At, Loop, LoopPoll, My, Finished
  <2>2. l \in Label /\ Follows /\ Quiet /\ Loop \in {"joinedReady", "asyncReady", "refusedReady"}
    BY <1>3, <1>10, <2>1 DEF LoopClaimsReady, Label, At, Loop
  <2>3. Loop' = l /\ LoopPoll' = LoopPoll
    BY <1>4, <2>1, <2>2
  <2>4. UNCHANGED <<activePoll, delivery, callback>> /\ awaited' = awaited
    BY <1>10 DEF LoopClaimsReady, LoopPoll, My
  <2>5. JDrive'
    BY <1>2, <2>1, <2>2, <2>3, <2>4 DEF JDrive, Quiet, Finished, OthersOver, AllOver, Over
  <2>6. ~WillOwn("drive") /\ (l \notin {"complete", "cancel", "releaseCancel"} => ~WillOwn("drive")')
    BY <2>2, <2>3 DEF WillOwn, Owns, At, Loop
  <2>7. QED
    BY <1>2, <1>4, <1>5, <1>10, <2>1, <2>2, <2>4, <2>5, <2>6, LoopKeeps DEF JTypes, LoopClaimsReady
<1>11. CASE LoopClaimsCancelled
  <2>1. PICK l \in {"refusedReady", "idle", "asyncRearm", "releaseIdle", "joinedRearm",
                 "releaseCancel", "cancel"} :
          Go("drive", l) /\ 
            \/ /\ l \in {"cancel", "releaseCancel"}
               /\ opPhase = "CANCEL_REQUESTED" /\ opPhase' = "OWNED"
            \/ /\ opPhase # "CANCEL_REQUESTED" /\ opPhase' = opPhase
               /\ \/ Loop = "refusedCancel" /\ l = "refusedReady"
                  \/ Loop = "asyncLate" /\ l = "idle"
                  \/ Loop = "asyncPending" /\ l = "asyncRearm"
                  \/ Loop \in {"lateReady", "stopped"} /\ l = "releaseIdle"
                  \/ Loop = "joinedPending" /\ l = "joinedRearm"
    BY <1>11 DEF LoopClaimsCancelled, Cas, At, Loop, LoopPoll, My, Finished
  <2>2. l \in Label /\ Follows /\ Quiet /\ Loop \in {"refusedCancel", "asyncLate", "asyncPending", "lateReady", "joinedPending", "stopped"}
    BY <1>3, <1>11, <2>1 DEF LoopClaimsCancelled, Label, At, Loop
  <2>3. Loop' = l /\ LoopPoll' = LoopPoll
    BY <1>4, <2>1, <2>2
  <2>4. UNCHANGED <<activePoll, delivery, callback>> /\ awaited' = awaited
    BY <1>11 DEF LoopClaimsCancelled, LoopPoll, My
  <2>5. JDrive'
    BY <1>2, <2>1, <2>2, <2>3, <2>4 DEF JDrive, Quiet, Finished, OthersOver, AllOver, Over
  <2>6. ~WillOwn("drive") /\ (l \notin {"complete", "cancel", "releaseCancel"} => ~WillOwn("drive")')
    BY <2>2, <2>3 DEF WillOwn, Owns, At, Loop
  <2>7. QED
    BY <1>2, <1>4, <1>5, <1>11, <2>1, <2>2, <2>4, <2>5, <2>6, LoopKeeps DEF JTypes, LoopClaimsCancelled
<1>12. CASE LoopRearms
  <2>1. PICK l \in {"loop", "idle", "releaseLoop", "stopped"} :
          Go("drive", l) /\ 
            \/ /\ l \in {"loop", "releaseLoop"}
               /\ opPhase \in {"WAITING", "POLLING"} /\ opPhase' = "ACTIVE"
            \/ /\ opPhase \notin {"WAITING", "POLLING"} /\ opPhase' = opPhase
               /\ l \in {"idle", "stopped"}
    BY <1>12 DEF LoopRearms, Cas, At, Loop, LoopPoll, My, Finished
  <2>2. l \in Label /\ Follows /\ Quiet /\ Loop \in {"asyncRearm", "joinedRearm"}
    BY <1>3, <1>12, <2>1 DEF LoopRearms, Label, At, Loop
  <2>3. Loop' = l /\ LoopPoll' = LoopPoll
    BY <1>4, <2>1, <2>2
  <2>4. UNCHANGED <<activePoll, delivery, callback>> /\ awaited' = awaited
    BY <1>12 DEF LoopRearms, LoopPoll, My
  <2>5. JDrive'
    BY <1>2, <2>1, <2>2, <2>3, <2>4 DEF JDrive, Quiet, Finished, OthersOver, AllOver, Over
  <2>6. ~WillOwn("drive") /\ (l \notin {"complete", "cancel", "releaseCancel"} => ~WillOwn("drive")')
    BY <2>2, <2>3 DEF WillOwn, Owns, At, Loop
  <2>7. QED
    BY <1>2, <1>4, <1>5, <1>12, <2>1, <2>2, <2>4, <2>5, <2>6, LoopKeeps DEF JTypes, LoopRearms
<1>13. ASSUME NEW p \in Poll, LoopArms(p) PROVE Follows /\ JavaInv'
  <2>1. frame' = [frame EXCEPT !["drive"] = [@ EXCEPT !.at = "poll", !.poll = p]]
    BY <1>13 DEF LoopArms
  <2>2. Loop' = "poll" /\ LoopPoll' = p
    BY <1>1, <1>2, <2>1 DEF JTypes, Frames, Loop, LoopPoll
  <2>3. told[p] = "uncalled" /\ AllOver /\ Quiet /\ ~WillOwn("drive") /\ ~WillOwn("drive")'
    BY <1>2, <1>3, <1>13, <2>2 DEF LoopArms, JDrive, At, Loop, View, WillOwn, Owns
  <2>4. JDrive'
    BY <1>2, <1>13, <2>2, <2>3
    DEF LoopArms, JDrive, Quiet, At, Loop, LoopPoll, OthersOver, AllOver, Over
  <2>5. "poll" \in Label
    BY DEF Label
  <2>6. QED
    BY <1>2, <1>13, <2>1, <2>3, <2>4, <2>5, LoopKeeps DEF LoopArms, JTypes
<1>14. CASE LoopReleases /\ ~At("drive", "releaseCancel")
  <2>1. PICK l \in {"refusedCancel", "asyncReady", "asyncPending", "loop", "idle"} : Go("drive", l)
    BY <1>14 DEF LoopReleases, AfterRelease, At
  <2>2. l \in Label /\ Quiet
    BY <1>3, <1>14, <2>1 DEF LoopReleases, Label
  <2>3. Loop' = l /\ LoopPoll' = LoopPoll
    BY <1>4, <2>1, <2>2
  <2>4. l = AfterRelease(Loop)
    BY <1>4, <1>14, <2>2, <2>3 DEF LoopReleases, Loop, AfterRelease, Label
  <2>5. JDrive'
    BY <1>2, <1>14, <2>2, <2>3, <2>4 
    DEF LoopReleases, AfterRelease, JDrive, JSignals, JTypes, Quiet, At, Loop, LoopPoll, My, Finished,
        OthersOver, AllOver, Over
  <2>6. QED
    BY <1>1, <1>2, <1>4, <1>5, <1>14, <2>1, <2>2, <2>3, <2>5, LoopKeeps
    DEF LoopReleases, JTypes, At, Loop, LoopPoll, My, WillOwn, Owns
<1>15. CASE LoopReleases /\ At("drive", "releaseCancel")
  <2>1. Go("drive", "cancel") /\ UNCHANGED <<vars, opPhase, delivery, callback, awaited>>
    BY <1>15 DEF LoopReleases, AfterRelease, At
  <2>2. WillOwn("drive") /\ taking = "no" /\ freed = "no" /\ activePoll' \in Poll \cup {"null"}
    BY <1>1, <1>2, <1>15 DEF LoopReleases, JOwner, JTypes, WillOwn, At
  <2>3. Follows /\ OnlyHears /\ freed' = "no" /\ taking' = "no"
    BY <2>1, <2>2, StutterFollows
  <2>4. QED
    BY <1>1, <1>2, <2>1, <2>2, <2>3, OwnerMoves
<1>16. CASE LoopPolls
  <2>1. freed = "no" /\ taking = "no" /\ AllOver /\ LoopPoll \in Poll /\ opPhase # "OWNED" /\ inside = {}
    BY <1>2, <1>16 DEF LoopPolls, JDrive, JOwner, At, Loop
  <2>2. /\ Follows /\ told' = [told EXCEPT ![LoopPoll] = "none"] /\ told[LoopPoll] = "uncalled"
        /\ freed' = "no" /\ taking' = "no"
    BY <1>16, <2>1, PollFollows DEF LoopPolls, My, LoopPoll
  <2>3. "polling" \in Label /\ Go("drive", "polling")
    BY <1>16 DEF LoopPolls, Label
  <2>4. Loop' = "polling" /\ LoopPoll' = LoopPoll
    BY <1>4, <2>3
  <2>5. /\ frame' \in Frames
        /\ \A b \in Actor : b # "drive" => frame'[b] = frame[b]
    BY <1>1, <1>2, <2>3, GoMoves DEF JTypes
  <2>6. \A q \in Poll : q # LoopPoll => told'[q] = told[q]
    BY <1>2, <2>1, <2>2 DEF View
  <2>7. JTypes'
    BY <1>2, <1>16, <2>5 DEF LoopPolls, JTypes
  <2>8. JDrive'
    BY <1>2, <1>16, <2>1, <2>4, <2>6 DEF LoopPolls, JDrive, OthersOver, AllOver, Over, At, Loop
  <2>9. JSignals'
    BY <1>1, <1>2, <1>16, <2>2, <2>4, <2>5, <2>6 DEF LoopPolls, JSignals, At, My, Loop
  <2>10. JOwner'
    BY <1>1, <1>2, <1>16, <2>1, <2>2, <2>4, <2>5 DEF LoopPolls, JOwner, WillOwn, Owns, At, Loop
  <2>11. QED
    BY <2>2, <2>7, <2>8, <2>9, <2>10 DEF JavaInv
<1>17. CASE OwnerCompletes \/ OwnerCancels("drive") \/ OwnerFrees("drive")
  BY <1>1, <1>17, OwnerStep
<1>18. QED
  BY <1>6, <1>7, <1>8, <1>9, <1>10, <1>11, <1>12, <1>13, <1>14, <1>15, <1>16, <1>17 DEF DriveLoop

LEMMA JavaStep ==
  ASSUME FutureInv, JavaInv, JNext
  PROVE  Follows /\ JavaInv'
<1>1. View
  BY FutureView
<1>2. CASE (Library \/ InnerReady \/ SpuriousWake) /\ UNCHANGED javaVars
  <2>1. Follows /\ OnlyHears /\ freed' = freed /\ (taking' = taking \/ (taking = "empty" /\ taking' = "done"))
    BY <1>2, RustFollows
  <2>2. \A p \in Poll : Told(p) => told'[p] = told[p]
    BY <2>1 DEF OnlyHears, Told
  <2>3. JTypes'
    BY <1>2 DEF JavaInv, JTypes, javaVars
  <2>4. JDrive'
    BY <1>2, <2>1 DEF JavaInv, JDrive, javaVars, OnlyHears, OthersOver, AllOver, Over, Loop, LoopPoll,
      Finished
  <2>5. JSignals'
    BY <1>2, <2>2 DEF JavaInv, JSignals, javaVars, Told, At, My, Loop
  <2>6. JOwner'
    BY <1>2, <2>1 DEF JavaInv, JOwner, javaVars, WillOwn, Owns, At, Loop
  <2>7. QED
    BY <2>1, <2>3, <2>4, <2>5, <2>6 DEF JavaInv
<1>3. ASSUME NEW p \in Poll, CallbackBegins(p) \/ MarkReady(p) \/ CallbackFinishes(p)
      PROVE  Follows /\ JavaInv'
  <2>1. UNCHANGED vars
    BY <1>3 DEF CallbackBegins, MarkReady, CallbackFinishes
  <2>2. QED
    BY <1>1, <1>3, <2>1, StutterFollows, CallbackKeeps DEF Quiet
<1>4. CASE DriveLoop
  BY <1>4, LoopStep
<1>5. ASSUME NEW c \in Canceller, CancelReads(c) \/ RunCancel(c) PROVE Follows /\ JavaInv'
  BY <1>5, CancellerStep
<1>6. QED
  BY <1>2, <1>3, <1>4, <1>5 DEF JNext, Callbacks

-----------------------------------------------------------------------------
(* Any of the drivers.  The variables of the others keep still.            *)
DriversInv ==
  /\ IF driver = "swift" THEN SwiftInv ELSE FutureInv /\ resumes = 0
  /\ IF driver = "kotlin" THEN KotlinInv ELSE co = "loop"
  /\ IF driver = "csharp" THEN CSharpInv ELSE method = "register"
  /\ IF driver = "java" THEN JavaInv ELSE \A a \in Actor : ~Owns(a)
  /\ driver = "dart" => DartInv
  /\ driver = "python" => PythonInv

LEMMA DriversInit == DInit => DriversInv /\ Init
<1> SUFFICES ASSUME DInit PROVE DriversInv /\ Init
  OBVIOUS
<1>1. /\ Init /\ FutureInv /\ SwiftInv /\ KotlinInv /\ CSharpInv /\ JavaInv /\ DartInv /\ PythonInv
  BY FutureInit, SwiftInit, KotlinInit, CSharpInit, JavaInit, DartInit, PythonInit DEF DInit, KInit
<1>2. resumes = 0 /\ co = "loop" /\ method = "register"
  BY DEF DInit, SInit, KInit, CInit
<1>3. \A a \in Actor : ~Owns(a)
  BY DEF DInit, JInit, Owns, Frame, Actor
<1>4. QED
  BY <1>1, <1>2, <1>3 DEF DriversInv

LEMMA DriversStill ==
  ASSUME DriversInv, UNCHANGED dVars
  PROVE  DriversInv'
<1>1. FutureInv => FutureInv'
  BY FutureStep DEF dVars
<1>2. told' = told /\ inside' = inside
  BY DEF dVars, vars, slotVars, told, inside, Called, Heard, InsidePoll
<1>3. driver' = driver /\ UNCHANGED <<slot, phase, at, taking, freed, touched>> /\ UNCHANGED languageVars
  BY DEF dVars, vars, slotVars, hostVars
<1>4. (TypeOK => TypeOK') /\ (CancelReturned => CancelReturned')
  BY CallDelivers DEF dVars, vars, slotVars, rustVars, hostVars, TypeOK
<1> USE <1>2, <1>3, <1>4 DEF languageVars, AllOver, Over, OthersOver, Told, Handle
<1>5. SwiftInv => SwiftInv'
  <2>1. SBelief => SBelief'
    BY DEF swiftVars, SBelief, STypes, SBody, SWinner, FinisherWon, OnCancelWon, SPolls, SHandle, Unhandled
  <2>2. FutureCore => FutureCore'
    BY CoreStep DEF dVars
  <2>3. (InTurn => FreeIsQuiet /\ NoUseAfterFree) => (InTurn => FreeIsQuiet /\ NoUseAfterFree)'
    BY DEF swiftVars, InTurn, FreeIsQuiet, NoUseAfterFree, InsidePoll
  <2>4. QED
    BY <2>1, <2>2, <2>3 DEF SwiftInv
<1>6. KotlinInv => KotlinInv'
  BY DEF kotlinVars, KotlinInv, KTypeOK, KMap, KPolls, KSuspending, HandlerBusy
<1>7. CSharpInv => CSharpInv'
  BY DEF csharpVars, CSharpInv, CTypeOK, CPollsAgree, CEntries
<1>8. JavaInv => JavaInv'
  <2>1. JTypes => JTypes'
    BY DEF javaVars, JTypes
  <2>2. JDrive => JDrive'
    BY DEF javaVars, JDrive, Loop, LoopPoll, Finished
  <2>3. JSignals => JSignals'
    BY DEF javaVars, JSignals, Loop, At, My
  <2>4. JOwner => JOwner'
    BY DEF javaVars, JOwner, Loop, At, WillOwn, Owns
  <2>5. QED
    BY <2>1, <2>2, <2>3, <2>4 DEF JavaInv
<1>9. DartInv => DartInv'
  BY DEF dartVars, DartInv, DTTypeOK, DTPollsAgree, DTListener
<1>10. PythonInv => PythonInv'
  BY DEF pythonVars, PythonInv, PyTypeOK, PyPollsAgree
<1>11. /\ resumes' = resumes /\ co' = co /\ method' = method
       /\ (\A a \in Actor : ~Owns(a)) => \A a \in Actor : ~Owns(a)'
  BY DEF swiftVars, kotlinVars, csharpVars, javaVars, Owns
<1>12. QED
  BY <1>1, <1>5, <1>6, <1>7, <1>8, <1>9, <1>10, <1>11 DEF DriversInv

LEMMA DriversStep ==
  ASSUME DriversInv, [DNext]_dVars
  PROVE  /\ DriversInv'
         /\ (driver = "swift" => InTurn) => [Next]_vars
         /\ [HastyNext]_vars
<1> USE HandshakeIsHasty DEF DriversInv, languageVars, Only
<1>1. CASE AnyOnly /\ Next
  BY <1>1, Following DEF AnyOnly, Follows, swiftVars, kotlinVars, csharpVars, javaVars, Owns
<1>2. CASE KotlinOnly /\ KNext
  BY <1>2, KotlinStep DEF KotlinOnly, Follows, swiftVars, csharpVars, javaVars, Owns
<1>3. CASE SwiftOnly /\ SNext
  BY <1>3, SwiftStep DEF SwiftOnly, kotlinVars, csharpVars, javaVars, Owns
<1>4. CASE JavaOnly /\ JNext
  BY <1>4, JavaStep DEF JavaOnly, Follows, swiftVars, kotlinVars, csharpVars
<1>5. CASE CSharpOnly /\ CNext
  BY <1>5, CSharpStep DEF CSharpOnly, Follows, swiftVars, kotlinVars, javaVars, Owns
<1>6. CASE DartOnly /\ DTNext
  BY <1>6, DartStep DEF DartOnly, Follows, swiftVars, kotlinVars, csharpVars, javaVars, Owns
<1>7. CASE PythonOnly /\ PyNext
  BY <1>7, PythonStep DEF PythonOnly, Follows, swiftVars, kotlinVars, csharpVars, javaVars, Owns
<1>8. CASE UNCHANGED dVars
  BY <1>8, DriversStill DEF dVars
<1>9. QED
  BY <1>1, <1>2, <1>3, <1>4, <1>5, <1>6, <1>7, <1>8 DEF DNext

(* Every driver makes one poll at a time, each from MaybeReady, and        *)
(* completes only when told Ready and not after its free; and it never     *)
(* frees under a call: Kotlin's coroutine and its cancellation handler,    *)
(* Java's lock-free phases with any number of threads that cancel, C#'s    *)
(* hooks, Dart's messages, Python's task, and Swift's driver until         *)
(* onCancel has taken the continuation and frees.                          *)
THEOREM DriversKeepHandshake == DSpec => KeepsHandshake
<1>1. DInit => DriversInv /\ Init
  BY DriversInit
<1>2. DriversInv /\ [DNext]_dVars =>
        DriversInv' /\ [(driver = "swift" => InTurn) => Next]_vars /\ [HastyNext]_vars
  BY DriversStep
<1>3. QED
  BY <1>1, <1>2, PTL DEF DSpec, KeepsHandshake

(* The inductive invariant: where each driver is against what its polls    *)
(* were told, which of them run, and what it did with the handle.          *)
THEOREM DriversInvariant == DSpec => []DriversInv
  BY DriversInit, DriversStep, PTL DEF DSpec

(* Under every driver complete tells the truth, and no continuation stays  *)
(* parked over a future that is ready with no wake to come, in a Swift     *)
(* call as well that onCancel frees under a poll.                          *)
THEOREM DriversGetTheTruth == DSpec => [](OutcomeSound /\ NoSilentWait)
<1>1. DriversInv => FutureCore
  BY DEF DriversInv, SwiftInv, FutureInv
<1>2. FutureCore => OutcomeSound /\ NoSilentWait
  BY SpuriousAssumption DEF FutureCore, SlotAgrees, WakeComes, NoSilentWait, TypeOK
<1>3. QED
  BY <1>1, <1>2, DriversInvariant, PTL

(* Under every driver the handle is not used after its free, a Swift call  *)
(* that onCancel frees excepted.                                           *)
THEOREM DriversDoNotDangle ==
  DSpec => []((driver = "swift" => InTurn) => NoUseAfterFree)
<1>1. DriversInv /\ (driver = "swift" => InTurn) => NoUseAfterFree
  BY DEF DriversInv, SwiftInv, FutureInv
<1>2. QED
  BY <1>1, DriversInvariant, PTL

(* The theorems about the scheduler are about a consumer that offers a     *)
(* continuation once, and only when all it offered before were run.  Under *)
(* every driver, a Swift call included that onCancel frees under a poll,   *)
(* a poll that comes to store finds it so, and the future, its wakes and   *)
(* its host do to the slot what ContinuationHandoff allows.                *)
THEOREM DriversOfferOneByOne ==
  DSpec => /\ Slot!Init /\ [][Slot!Next]_slotVars
           /\ [](\A p \in Poll : at[p] = "pending" => Slot!Offers(p))
<1>1. DInit => Slot!Init
  BY DriversInit DEF Init
<1>2. [HastyNext]_vars => [Slot!Next]_slotVars
  <2> SUFFICES ASSUME [HastyNext]_vars PROVE [Slot!Next]_slotVars
    OBVIOUS
  <2> USE DEF Slot!Next, slotVars
  <2>1. ASSUME NEW p \in Poll,
               PollReadsCancelled(p) \/ PollOnce(p) \/ PollAnswers(p) \/ HastyPolls(p)
        PROVE  UNCHANGED slotVars
    BY <2>1 DEF PollReadsCancelled, PollOnce, PollAnswers, HastyPolls, PollCall
  <2>2. ASSUME NEW p \in Poll, PollStores(p) \/ Deliver(p) PROVE [Slot!Next]_slotVars
    BY <2>2 DEF PollStores, Deliver
  <2>3. CASE CompleteWithout \/ HostCompletes \/ InnerReady \/ SpuriousWake \/ FreeDrops
    BY <2>3 DEF CompleteWithout, HostCompletes, CompleteLocks, InnerReady, SpuriousWake, FreeDrops
  <2>4. CASE Wake \/ Cancel \/ FreeMarks
    BY <2>4 DEF Wake, Cancel, FreeMarks, MarkCancelled
  <2>5. QED
    BY <2>1, <2>2, <2>3, <2>4 DEF HastyNext, HastyFrees, Library, vars
<1>3. DriversInv /\ [DNext]_dVars => [Slot!Next]_slotVars
  BY <1>2, DriversStep
<1>4. FutureCore => \A p \in Poll : at[p] = "pending" => Slot!Offers(p)
  <2> SUFFICES ASSUME FutureCore, NEW p \in Poll, at[p] = "pending" PROVE Slot!Offers(p)
    OBVIOUS
  <2> USE DEF FutureCore, TypeOK
  <2>1. Outstanding(p) /\ phase[p] = "fresh"
    BY DEF SlotAgrees, Outstanding, Called, Heard
  <2>2. ASSUME NEW q \in Poll, phase[q] \in {"parked", "claimed"} PROVE FALSE
    <3>1. at[q] \in {"parked", "taking", "refused"}
      BY <2>2 DEF SlotAgrees
    <3>2. Outstanding(q)
      BY <2>2, <3>1 DEF Outstanding, Called, Heard
    <3>3. QED
      BY <2>1, <2>2, <3>2 DEF HostIsSerial
  <2>3. QED
    BY <2>1, <2>2 DEF Slot!Offers
<1>5. DriversInv => FutureCore
  BY DEF DriversInv, SwiftInv, FutureInv
<1>6. QED
  BY <1>1, <1>3, <1>4, <1>5, DriversInvariant, PTL DEF DSpec

(* A call that is over left no entry in the process-wide maps of Kotlin    *)
(* and C#, whichever of the callback and the cancellation removed it, and  *)
(* no listener of Dart is closed under a poll that may still run it.       *)
THEOREM CallLeavesNothing == DSpec => []NothingLeftBehind
<1>1. DriversInv => NothingLeftBehind
  <2> SUFFICES ASSUME DriversInv PROVE NothingLeftBehind
    OBVIOUS
  <2>1. MapEmptied
    BY DEF DriversInv, MapEmptied, KotlinInv, KMap, KSuspending
  <2>2. DictionaryEmptied
    BY DEF DriversInv, DictionaryEmptied, COver, CSharpInv, CEntries
  <2>3. driver = "dart" => ListenerQuiet
    BY FutureView DEF DriversInv, ListenerQuiet, DartInv, DTListener, View, Outstanding, told
  <2>4. QED
    BY <2>1, <2>2, <2>3 DEF NothingLeftBehind
<1>2. QED
  BY <1>1, DriversInvariant, PTL

(* The Swift continuation is resumed at most once, however the ready       *)
(* closure, onCancel and a refused install meet.                           *)
THEOREM ContinuationResumedOnce == DSpec => []ResumedAtMostOnce
<1>1. DriversInv => ResumedAtMostOnce
  BY DEF DriversInv, SwiftInv, SBelief, STypes, ResumedAtMostOnce
<1>2. QED
  BY <1>1, DriversInvariant, PTL

(* With any number of threads that cancel a Java call, one at most of them *)
(* and the drive loop ends it, and it frees the handle once.               *)
THEOREM JavaHasOneOwner == DSpec => []JavaOneOwner
<1>1. DriversInv => JavaOneOwner
  BY DEF DriversInv, JavaInv, JOwner, JavaOneOwner, WillOwn, Owns, At
<1>2. QED
  BY <1>1, DriversInvariant, PTL

-----------------------------------------------------------------------------
(* What the caller is told.  Whoever made the call asked for its           *)
(* cancellation, got the result, or got none.                              *)
AskedToCancel ==
  \/ driver = "kotlin" /\ job = "cancelled"
  \/ driver = "swift" /\ onCancel # "no"
  \/ driver = "java" /\ CancelCalled
  \/ driver = "csharp" /\ token = "cancelled"
  \/ driver = "dart" /\ dartToken = "cancelled"
  \/ driver = "python" /\ task = "cancelled"

GotResult ==
  \/ driver = "kotlin" /\ co = "returned"
  \/ driver = "swift" /\ resumes > 0 /\ result = "ok"
  \/ driver = "java" /\ outcome = "ok"
  \/ driver = "csharp" /\ method = "returned"
  \/ driver = "dart" /\ completer = "value"
  \/ driver = "python" /\ wait = "returned"

GotNone ==
  \/ driver = "kotlin" /\ co = "thrown"
  \/ driver = "swift" /\ resumes > 0 /\ result # "ok"
  \/ driver = "java" /\ outcome \notin {"none", "ok"}
  \/ driver = "csharp" /\ method = "thrown"
  \/ driver = "dart" /\ completer \in {"error", "cancelled"}
  \/ driver = "python" /\ wait = "raised"

(* complete answers once.                                                  *)
Answered == result = "none" <=> taking # "done"

LEMMA AnswerStands ==
  ASSUME FutureCore, Answered, [HastyNext]_vars
  PROVE  /\ Answered'
         /\ taking = "done" => taking' = "done" /\ result' = result
<1> USE DEF FutureCore, TypeOK, Answered, hostVars
<1>1. CASE Library
  BY <1>1 DEF Library, PollReadsCancelled, PollOnce, PollAnswers, PollStores, Deliver, CompleteWithout, Wake
<1>2. CASE InnerReady \/ SpuriousWake \/ Cancel
  BY <1>2 DEF InnerReady, SpuriousWake, Cancel
<1>3. ASSUME NEW p \in Poll, HastyPolls(p)
      PROVE  UNCHANGED <<taking, result>>
  BY <1>3 DEF HastyPolls, PollCall
<1>4. CASE HostCompletes \/ HastyFrees
  BY <1>4 DEF HostCompletes, CompleteLocks, HastyFrees, FreeMarks, FreeDrops
<1>5. CASE UNCHANGED vars
  BY <1>5 DEF vars
<1>6. QED
  BY <1>1, <1>2, <1>3, <1>4, <1>5 DEF HastyNext

(* Only the host cancels.                                                  *)
LEMMA RustCancelsNot ==
  ASSUME Library \/ InnerReady \/ SpuriousWake
  PROVE  cancels' = cancels
BY DEF Library, PollReadsCancelled, PollOnce, PollAnswers, PollStores, Deliver, CompleteWithout, Wake,
   InnerReady, SpuriousWake, hostVars

(* What a call that complete has answered can end with.                    *)
LEMMA AnswerIsSound ==
  ASSUME FutureCore, Answered, taking = "done"
  PROVE  result \in {"ok", "failed"} \/ (result = "cancelled" /\ cancels)
BY DEF FutureCore, TypeOK, Answered, OutcomeSound

(* How a call ended, by a driver whose caller asked for a cancellation or  *)
(* not: told a result there was, or none because there was none.           *)
Ends(answered, thrown, asked) ==
  /\ answered => result = "ok"
  /\ thrown => result = "failed" \/ asked

KotlinEnds ==
  /\ cancels \/ HandlerBusy \/ resumed = "cancelled" => job = "cancelled"
  /\ co \in {"finally", "freeing"} => taking = "done" \/ job = "cancelled"
  /\ Ends(co = "returned", co = "thrown", job = "cancelled")

CSharpEnds ==
  /\ cancels \/ hook # "none" \/ pollResult = "cancelled" \/ method = "catch" => token = "cancelled"
  /\ method \in {"finally", "release", "releasing"} => taking = "done" \/ token = "cancelled"
  /\ Ends(method = "returned", method = "thrown", token = "cancelled")

PythonEnds ==
  /\ cancels \/ wait = "cancel" => task = "cancelled"
  /\ wait \in {"release", "releasing"} => taking = "done" \/ task = "cancelled"
  /\ Ends(wait = "returned", wait = "raised", task = "cancelled")

DartEnds ==
  /\ cancels \/ waitCancelled \/ isolate \in {"abandon", "abandoning"} => dartToken = "cancelled"
  /\ completer = "cancelled" => dartToken = "cancelled"
  /\ Ends(completer = "value", completer = "error", dartToken = "cancelled")

SwiftEnds ==
  /\ cancels => onCancel # "no"
  /\ finisher = "resume" \/ resumes > 0 => taking = "done" \/ onCancel # "no"

(* The answer stands over a step, and is the truth after it.               *)
Stands ==
  /\ FutureCore' /\ Answered'
  /\ taking = "done" => taking' = "done" /\ result' = result

LEMMA KotlinEndsStep ==
  ASSUME FutureCore, Answered, Stands, KotlinInv, KotlinEnds, KNext
  PROVE  KotlinEnds'
<1>1. taking = "done" => result \in {"ok", "failed"} \/ (result = "cancelled" /\ cancels)
  BY AnswerIsSound
<1>2. co \in {"returned", "thrown"} => taking \in {"no", "done"}
  BY DEF KotlinInv, Handle
<1> USE <1>1, <1>2 DEF Stands, KotlinEnds, Ends, HandlerBusy, Answered, vars, hostVars
<1>3. CASE (Library \/ InnerReady \/ SpuriousWake) /\ UNCHANGED kotlinVars
  BY <1>3, RustCancelsNot DEF kotlinVars
<1>4. ASSUME NEW p \in Poll, Suspend(p) \/ CallbackRemoves(p) PROVE KotlinEnds'
  BY <1>4 DEF Suspend, CallbackRemoves
<1>5. ASSUME NEW p \in Poll, CallbackResumes(p) PROVE KotlinEnds'
  BY <1>5 DEF CallbackResumes, Heard
<1>6. CASE InlineHandlerReturns \/ BlockPolls \/ BlockReturns
  BY <1>6 DEF InlineHandlerReturns, BlockPolls, BlockReturns, PollCall
<1>7. CASE HandlerRemoves \/ HandlerCancels \/ JobCancels
  BY <1>7 DEF HandlerRemoves, HandlerCancels, Cancel, JobCancels
<1>8. CASE Dispatch
  BY <1>8 DEF Dispatch
<1>9. CASE KCompletes \/ KCompleted
  BY <1>9 DEF KCompletes, CompleteLocks, KCompleted
<1>10. CASE KFrees \/ KFreed
  BY <1>10 DEF KFrees, KFreed, FreeMarks, FreeDrops
<1>11. QED
  BY <1>3, <1>4, <1>5, <1>6, <1>7, <1>8, <1>9, <1>10 DEF KNext, Coroutine

LEMMA CSharpEndsStep ==
  ASSUME FutureCore, Answered, Stands, CSharpInv, CSharpEnds, CNext
  PROVE  CSharpEnds'
<1>1. taking = "done" => result \in {"ok", "failed"} \/ (result = "cancelled" /\ cancels)
  BY AnswerIsSound
<1>2. method \in {"returned", "thrown"} => taking \in {"no", "done"}
  BY DEF CSharpInv, Handle
<1> USE <1>1, <1>2 DEF Stands, CSharpEnds, Ends, Answered, OwnerCancel, Cancel, vars, hostVars
<1>3. CASE (Library \/ InnerReady \/ SpuriousWake) /\ UNCHANGED csharpVars
  BY <1>3, RustCancelsNot DEF csharpVars
<1>4. ASSUME NEW p \in Poll, CCallback(p) PROVE CSharpEnds'
  BY <1>4 DEF CCallback, Completes, Heard
<1>5. ASSUME NEW p \in Poll, CPolls(p) PROVE CSharpEnds'
  BY <1>5 DEF CPolls, PollCall
<1>6. CASE CRegisters \/ CCatches
  BY <1>6 DEF CRegisters, CCatches
<1>7. CASE CChecks \/ CPolled \/ CAwaits \/ CTold
  BY <1>7 DEF CChecks, CPolled, CAwaits, CTold, CSharpInv, CTypeOK, CPollsAgree
<1>8. CASE CHooks
  BY <1>8 DEF CHooks, Completes
<1>9. CASE CUnhooks
  BY <1>9 DEF CUnhooks, CSharpInv, CPollsAgree
<1>10. CASE CCompletes
  BY <1>10 DEF CCompletes, CompleteLocks
<1>11. CASE CReleases
  BY <1>11 DEF CReleases, FreeMarks, FreeDrops
<1>12. CASE TokenCancelled \/ \E h \in {"owner", "poll"} : SourceTakes(h)
  BY <1>12 DEF TokenCancelled, SourceTakes
<1>13. CASE HookRuns
  BY <1>13 DEF HookRuns, Completes
<1>14. QED
  BY <1>3, <1>4, <1>5, <1>6, <1>7, <1>8, <1>9, <1>10, <1>11, <1>12, <1>13 DEF CNext, Method, Source

LEMMA PythonEndsStep ==
  ASSUME FutureCore, Answered, Stands, PythonInv, PythonEnds, PyNext
  PROVE  PythonEnds'
<1>1. taking = "done" => result \in {"ok", "failed"} \/ (result = "cancelled" /\ cancels)
  BY AnswerIsSound
<1>2. wait \in {"returned", "raised"} => taking \in {"no", "done"}
  BY DEF PythonInv, Handle
<1> USE <1>1, <1>2 DEF Stands, PythonEnds, Ends, Answered, vars, hostVars
<1>3. CASE (Library \/ InnerReady \/ SpuriousWake) /\ UNCHANGED pythonVars
  BY <1>3, RustCancelsNot DEF pythonVars
<1>4. ASSUME NEW p \in Poll, PyPolls(p) \/ PyFutureWake(p) \/ PySetResult(p) PROVE PythonEnds'
  BY <1>4 DEF PyPolls, PollCall, PyFutureWake, PySetResult
<1>5. CASE PyPolled \/ PyTaskCancelled \/ PyResumes
  BY <1>5 DEF PyPolled, PyTaskCancelled, PyResumes, PythonInv, PyTypeOK, PyPollsAgree
<1>6. CASE PyCompletes
  BY <1>6 DEF PyCompletes, CompleteLocks
<1>7. CASE PyCancels
  BY <1>7 DEF PyCancels, Cancel
<1>8. CASE PyReleases
  BY <1>8 DEF PyReleases, FreeMarks, FreeDrops
<1>9. QED
  BY <1>3, <1>4, <1>5, <1>6, <1>7, <1>8 DEF PyNext, PyLoop

LEMMA DartEndsStep ==
  ASSUME FutureCore, Answered, Stands, DartInv, DartEnds, DTNext
  PROVE  DartEnds'
<1>1. taking = "done" => result \in {"ok", "failed"} \/ (result = "cancelled" /\ cancels)
  BY AnswerIsSound
<1>2. completer \in {"value", "error"} => taking = "done" \/ dartToken = "cancelled"
  BY DEF DartEnds, Ends, Answered
<1> USE <1>1, <1>2 DEF Stands, DartEnds, Ends, Answered, vars, hostVars
<1>3. CASE (Library \/ InnerReady \/ SpuriousWake) /\ UNCHANGED dartVars
  BY <1>3, RustCancelsNot DEF dartVars
<1>4. ASSUME NEW p \in Poll, DTPolls(p) \/ DTReceives(p) PROVE DartEnds'
  BY <1>4, CoreView DEF DTPolls, PollCall, DTReceives, View, Told, DartInv, DTTypeOK
<1>5. CASE DTCreates \/ DTCreated \/ DTTokenCancelled
  BY <1>5 DEF DTCreates, DTCreated, DTTokenCancelled, Cancel
<1>6. CASE DTPolled \/ DTReady
  BY <1>6 DEF DTPolled, DTReady
<1>7. CASE DTCompletes
  BY <1>7 DEF DTCompletes, CompleteLocks
<1>8. CASE DTAbandons \/ DTFrees
  BY <1>8 DEF DTAbandons, DTFrees, FreeMarks, FreeDrops
<1>9. QED
  BY <1>3, <1>4, <1>5, <1>6, <1>7, <1>8 DEF DTNext, Turn

LEMMA SwiftEndsStep ==
  ASSUME FutureCore, Stands, SBelief, SwiftEnds, SNext
  PROVE  SwiftEnds'
<1> USE DEF Stands, SwiftEnds, SBelief, STypes, SWinner, vars, hostVars
<1>1. CASE (Library \/ InnerReady \/ SpuriousWake) /\ UNCHANGED swiftVars
  BY <1>1, RustCancelsNot DEF swiftVars
<1>2. CASE Install
  BY <1>2 DEF Install
<1>3. ASSUME NEW p \in Poll, NEW q \in Poll,
             StartDriver(p) \/ Callback(p) \/ CanPoll(p) \/ TaskPolls(p, q)
      PROVE  SwiftEnds'
  BY <1>3 DEF StartDriver, Callback, CanPoll, TaskPolls, PollCall
<1>4. CASE Ready
  BY <1>4 DEF Ready, Finish, CompleteLocks, FreeMarks, FreeDrops, SHandle
<1>5. CASE TaskCancelled \/ OnCancel
  BY <1>5 DEF TaskCancelled, OnCancel, Finish, Cancel, FreeMarks, FreeDrops
<1>6. QED
  BY <1>1, <1>2, <1>3, <1>4, <1>5 DEF SNext, Driver

(* A Java call has somebody who asked as soon as its phase, its loop or    *)
(* the Rust future says so.                                                *)
JavaEnds ==
  /\ cancels \/ opPhase = "CANCEL_REQUESTED" \/ Loop \in {"cancel", "releaseCancel"} => CancelCalled
  /\ Loop \in {"free", "drop"} => outcome # "none" \/ CancelCalled
  /\ Ends(outcome = "ok", outcome \notin {"none", "ok"}, CancelCalled)

LEMMA CancellerHasCalled ==
  ASSUME JTypes, JSignals, NEW c \in Canceller, CancelReads(c) \/ RunCancel(c)
  PROVE  CancelCalled'
<1>1. frame' = [frame EXCEPT ![c] = frame'[c]] /\ frame'[c].at # "out"
  <2>1. frame[c] \in [at : Label, poll : Poll \cup {"null"}, seen : OpPhases] /\ c \in DOMAIN frame
    BY DEF JTypes, Frames, Actor
  <2> USE <2>1 DEF JTypes, Frames, At, Go, Cas
  <2>2. CASE CancelReads(c)
    BY <2>2 DEF CancelReads, OpPhases
  <2>3. CASE CancelReadsActive(c) \/ CancelRereadsActive(c)
    BY <2>3 DEF CancelReadsActive, CancelRereadsActive
  <2>4. CASE CancelTakesDelivery(c)
    BY <2>4 DEF CancelTakesDelivery, JSignals, My
  <2>5. CASE CancelClaimsActive(c) \/ CancelDefers(c) \/ CancelClaimsWaiting(c) \/ CancelGivesBack(c)
    BY <2>5 DEF CancelClaimsActive, CancelDefers, CancelClaimsWaiting, CancelGivesBack
  <2>6. CASE CancelReadsStarted(c) \/ OwnerCancels(c) \/ Settles(c)
    BY <2>6 DEF CancelReadsStarted, OwnerCancels, Settles
  <2>7. CASE OwnerFrees(c)
    BY <2>7, CancellerAssumption DEF OwnerFrees
  <2>8. QED
    BY <2>2, <2>3, <2>4, <2>5, <2>6, <2>7 DEF RunCancel
<1>2. QED
  BY <1>1 DEF CancelCalled, At

(* What a step of another does to the answer and to who asked.             *)
LEMMA JavaCallbackEnds ==
  ASSUME Stands, JavaEnds, NEW p \in Poll,
         CallbackBegins(p) \/ MarkReady(p) \/ CallbackFinishes(p)
  PROVE  JavaEnds'
BY DEF Stands, JavaEnds, Ends, Answered, Loop, CancelCalled, At, CallbackBegins, MarkReady,
   CallbackFinishes, vars, hostVars

LEMMA JavaCancellerEnds ==
  ASSUME Stands, Answered, JTypes, JSignals, JavaEnds, NEW c \in Canceller, CancelReads(c) \/ RunCancel(c)
  PROVE  JavaEnds'
<1>1. CancelCalled'
  BY CancellerHasCalled
<1>2. outcome' = outcome \/ outcome' = "cancelled"
  BY DEF CancelReads, RunCancel, CancelClaimsActive, CancelReadsActive, CancelTakesDelivery, CancelDefers,
     CancelClaimsWaiting, CancelReadsStarted, CancelRereadsActive, CancelGivesBack, OwnerCancels,
     OwnerFrees, Settles, Complete
<1>3. QED
  BY <1>1, <1>2 DEF Stands, JavaEnds, Ends, Answered

LEMMA LoopMoves ==
  ASSUME JTypes, NEW l \in Label, NEW p \in Poll \cup {"null"},
         frame' = [frame EXCEPT !["drive"] = [@ EXCEPT !.at = l, !.poll = p]]
  PROVE  Loop' = l /\ (CancelCalled' <=> CancelCalled)
<1>1. "drive" \in Actor /\ frame \in Frames
  BY DEF JTypes, Actor
<1>2. Loop' = l
  BY <1>1 DEF Frames, Loop
<1>3. \A c \in Canceller : frame'[c] = frame[c]
  BY <1>1, CancellerAssumption DEF Frames, Actor
<1>4. QED
  BY <1>2, <1>3 DEF CancelCalled, At

(* Where the loop may go, by what the claims on the phase allow.           *)
LoopGoes(l) ==
  /\ Loop' = l /\ (CancelCalled' <=> CancelCalled)
  /\ opPhase' = "CANCEL_REQUESTED" => opPhase = "CANCEL_REQUESTED"
  /\ l \in {"cancel", "releaseCancel"} => opPhase = "CANCEL_REQUESTED" \/ Loop \in {"cancel", "releaseCancel"}

LEMMA JavaLoopEnds ==
  ASSUME FutureCore, Stands, Answered, JTypes, JavaEnds, DriveLoop
  PROVE  JavaEnds'
<1>1. frame["drive"] \in [at : Label, poll : Poll \cup {"null"}, seen : OpPhases] /\ "drive" \in DOMAIN frame
  BY DEF JTypes, Frames, Actor
<1>2. taking = "done" => result \in {"ok", "failed"} \/ (result = "cancelled" /\ cancels)
  BY AnswerIsSound
<1>3. ASSUME NEW l \in Label, Go("drive", l)
      PROVE  Loop' = l /\ (CancelCalled' <=> CancelCalled)
  <2>1. frame' = [frame EXCEPT !["drive"] = [@ EXCEPT !.at = l, !.poll = LoopPoll]]
    BY <1>1, <1>3 DEF Go, JTypes, Frames, LoopPoll
  <2>2. QED
    BY <1>1, <2>1, LoopMoves DEF LoopPoll
<1>4. ASSUME NEW l \in Label, LoopGoes(l), l \notin {"free", "drop"}, UNCHANGED <<cancels, outcome>>
      PROVE  JavaEnds'
  BY <1>4 DEF LoopGoes, Stands, JavaEnds, Ends, Answered
<1>5. CASE LoopClaims \/ LoopParks \/ LoopRearms
  <2>1. PICK l \in {"arm", "idle", "refused", "loop", "releaseLoop", "stopped"} :
          Go("drive", l) /\ opPhase' \in {opPhase, "POLLING", "WAITING", "ACTIVE"}
    BY <1>5 DEF LoopClaims, LoopParks, LoopRearms, Cas
  <2>2. l \in Label /\ LoopGoes(l)
    BY <1>3, <2>1 DEF Label, LoopGoes
  <2>3. UNCHANGED <<cancels, outcome>>
    BY <1>5 DEF LoopClaims, LoopParks, LoopRearms, vars, hostVars
  <2>4. QED
    BY <1>4, <2>1, <2>2, <2>3
<1>6. CASE LoopPolls \/ LoopPolled \/ AsyncStarts
  <2>1. PICK l \in {"polling", "park", "joinedReady", "joinedPending", "resumed"} :
          Go("drive", l) /\ opPhase' = opPhase
    BY <1>6 DEF LoopPolls, LoopPolled, AsyncStarts
  <2>2. l \in Label /\ LoopGoes(l)
    BY <1>3, <2>1 DEF Label, LoopGoes
  <2>3. UNCHANGED <<cancels, outcome>>
    BY <1>6 DEF LoopPolls, PollCall, LoopPolled, AsyncStarts, vars, hostVars
  <2>4. QED
    BY <1>4, <2>1, <2>2, <2>3
<1>7. ASSUME NEW p \in Poll, LoopArms(p) PROVE JavaEnds'
  <2>1. "poll" \in Label /\ LoopGoes("poll")
    BY <1>7, LoopMoves DEF LoopArms, Label, LoopGoes
  <2>2. QED
    BY <1>4, <1>7, <2>1 DEF LoopArms, vars, hostVars
<1>8. CASE LoopReleases
  <2>1. PICK l \in {"refusedCancel", "asyncReady", "asyncPending", "cancel", "loop", "idle"} :
          Go("drive", l) /\ opPhase' = opPhase /\ (l = "cancel" => Loop = "releaseCancel")
    BY <1>8 DEF LoopReleases, AfterRelease, Loop
  <2>2. l \in Label /\ LoopGoes(l)
    BY <1>3, <2>1 DEF Label, LoopGoes
  <2>3. QED
    BY <1>4, <1>8, <2>1, <2>2 DEF LoopReleases, vars, hostVars
<1>9. CASE LoopClaimsReady
  <2>1. PICK l \in {"complete", "lateReady", "asyncLate", "idle"} :
          Go("drive", l) /\ opPhase' \in {opPhase, "OWNED"}
    BY <1>9 DEF LoopClaimsReady, Cas
  <2>2. l \in Label /\ LoopGoes(l)
    BY <1>3, <2>1 DEF Label, LoopGoes
  <2>3. QED
    BY <1>4, <1>9, <2>1, <2>2 DEF LoopClaimsReady, vars, hostVars
<1>10. CASE LoopClaimsCancelled
  <2>1. PICK l \in {"refusedReady", "idle", "asyncRearm", "releaseIdle", "joinedRearm", "releaseCancel", "cancel"} :
          /\ Go("drive", l) /\ opPhase' \in {opPhase, "OWNED"}
          /\ l \in {"cancel", "releaseCancel"} => opPhase = "CANCEL_REQUESTED"
    BY <1>10 DEF LoopClaimsCancelled, Cas
  <2>2. l \in Label /\ LoopGoes(l)
    BY <1>3, <2>1 DEF Label, LoopGoes
  <2>3. QED
    BY <1>4, <1>10, <2>1, <2>2 DEF LoopClaimsCancelled, vars, hostVars
<1>11. CASE OwnerCompletes
  <2>1. CASE At("drive", "complete")
    <3>1. Go("drive", "completing") /\ "completing" \in Label /\ UNCHANGED <<opPhase, cancels, outcome>>
      BY <1>1, <1>11, <2>1 DEF OwnerCompletes, CompleteLocks, At, Label, hostVars
    <3>2. QED
      BY <1>3, <1>4, <3>1 DEF LoopGoes
  <2>2. CASE ~At("drive", "complete")
    <3>1. Go("drive", "free") /\ "free" \in Label /\ taking = "done" /\ UNCHANGED <<opPhase, cancels>>
      BY <1>11, <2>2 DEF OwnerCompletes, Label, vars, hostVars
    <3>2. outcome' = IF outcome = "none" THEN result ELSE outcome
      BY <1>11, <2>2 DEF OwnerCompletes, Complete
    <3>3. Loop' = "free" /\ (CancelCalled' <=> CancelCalled)
      BY <1>3, <3>1
    <3>4. QED
      BY <1>2, <3>1, <3>2, <3>3 DEF Stands, JavaEnds, Ends, Answered
  <2>3. QED
    BY <2>1, <2>2
<1>12. CASE OwnerCancels("drive")
  <2>1. Go("drive", "free") /\ "free" \in Label /\ Loop = "cancel" /\ UNCHANGED <<opPhase, outcome>>
    BY <1>12 DEF OwnerCancels, Label, At, Loop
  <2>2. Loop' = "free" /\ (CancelCalled' <=> CancelCalled)
    BY <1>3, <2>1
  <2>3. QED
    BY <2>1, <2>2 DEF Stands, JavaEnds, Ends, Answered
<1>13. CASE OwnerFrees("drive")
  <2>1. PICK l \in {"drop", "releaseIdle"} : Go("drive", l) /\ opPhase' = opPhase /\ Loop \in {"free", "drop"}
    BY <1>13 DEF OwnerFrees, At, Loop
  <2>2. outcome' \in {outcome, "cancelled"} /\ (outcome # "none" => outcome' = outcome) /\ cancels' = cancels
    BY <1>13 DEF OwnerFrees, Complete, FreeMarks, FreeDrops, hostVars
  <2>3. Loop' = l /\ (CancelCalled' <=> CancelCalled)
    BY <1>3, <2>1 DEF Label
  <2>4. QED
    BY <2>1, <2>2, <2>3 DEF Stands, JavaEnds, Ends, Answered
<1>14. QED
  BY <1>5, <1>6, <1>7, <1>8, <1>9, <1>10, <1>11, <1>12, <1>13 DEF DriveLoop

LEMMA JavaEndsStep ==
  ASSUME FutureCore, Answered, Stands, JavaInv, JavaEnds, JNext
  PROVE  JavaEnds'
<1>1. CASE (Library \/ InnerReady \/ SpuriousWake) /\ UNCHANGED javaVars
  BY <1>1, RustCancelsNot DEF javaVars, Stands, JavaEnds, Ends, Answered, Loop, CancelCalled, At
<1>2. QED
  BY <1>1, JavaCallbackEnds, JavaCancellerEnds, JavaLoopEnds DEF JavaInv, JNext, Callbacks

-----------------------------------------------------------------------------
CallerInv ==
  /\ Answered
  /\ driver = "kotlin" => KotlinEnds
  /\ driver = "swift" => SwiftEnds
  /\ driver = "java" => JavaEnds
  /\ driver = "csharp" => CSharpEnds
  /\ driver = "dart" => DartEnds
  /\ driver = "python" => PythonEnds

LEMMA CallerInitially == DInit => CallerInv
<1> SUFFICES ASSUME DInit PROVE CallerInv
  OBVIOUS
<1>1. Answered /\ ~cancels
  BY DEF DInit, KInit, Init, Answered
<1>2. KotlinEnds /\ SwiftEnds
  BY <1>1 DEF DInit, KInit, KotlinEnds, HandlerBusy, Ends, SInit, SwiftEnds
<1>3. CSharpEnds /\ DartEnds /\ PythonEnds
  BY <1>1 DEF DInit, CInit, CSharpEnds, Ends, DTInit, DartEnds, PyInit, PythonEnds
<1>4. Loop = "loop"
  BY DEF DInit, JInit, Frame, Loop, Actor
<1>5. JavaEnds
  BY <1>1, <1>4 DEF DInit, JInit, JavaEnds, Ends
<1>6. QED
  BY <1>1, <1>2, <1>3, <1>5 DEF CallerInv

LEMMA CallerStep ==
  ASSUME DriversInv, DriversInv', CallerInv, [DNext]_dVars
  PROVE  CallerInv'
<1>1. FutureCore /\ Stands
  <2>1. (DriversInv => FutureCore) /\ (DriversInv' => FutureCore')
    BY DEF DriversInv, SwiftInv, FutureInv
  <2>2. [HastyNext]_vars
    BY DriversStep
  <2>3. QED
    BY <2>1, <2>2, AnswerStands DEF Stands, CallerInv
<1>2. CASE UNCHANGED dVars
  <2> USE <1>2 DEF dVars, vars, hostVars, languageVars, Ends
  <2>1. UNCHANGED <<driver, taking, result, cancels>>
    OBVIOUS
  <2>2. (KotlinEnds => KotlinEnds') /\ (SwiftEnds => SwiftEnds')
    BY <2>1 DEF KotlinEnds, HandlerBusy, kotlinVars, SwiftEnds, swiftVars
  <2>3. (CSharpEnds => CSharpEnds') /\ (DartEnds => DartEnds') /\ (PythonEnds => PythonEnds')
    BY <2>1 DEF CSharpEnds, csharpVars, DartEnds, dartVars, PythonEnds, pythonVars
  <2>4. JavaEnds => JavaEnds'
    BY <2>1 DEF JavaEnds, javaVars, Loop, CancelCalled, At
  <2>5. QED
    BY <1>1, <2>1, <2>2, <2>3, <2>4 DEF CallerInv, Stands
<1>3. CASE DNext
  <2> USE <1>1 DEF DriversInv, CallerInv, Stands, Only
  <2>1. CASE AnyOnly /\ Next
    BY <2>1 DEF AnyOnly
  <2>2. CASE KotlinOnly /\ KNext
    BY <2>2, KotlinEndsStep DEF KotlinOnly
  <2>3. CASE SwiftOnly /\ SNext
    BY <2>3, SwiftEndsStep DEF SwiftOnly, SwiftInv
  <2>4. CASE JavaOnly /\ JNext
    BY <2>4, JavaEndsStep DEF JavaOnly
  <2>5. CASE CSharpOnly /\ CNext
    BY <2>5, CSharpEndsStep DEF CSharpOnly
  <2>6. CASE DartOnly /\ DTNext
    BY <2>6, DartEndsStep DEF DartOnly
  <2>7. CASE PythonOnly /\ PyNext
    BY <2>7, PythonEndsStep DEF PythonOnly
  <2>8. QED
    BY <1>3, <2>1, <2>2, <2>3, <2>4, <2>5, <2>6, <2>7 DEF DNext
<1>4. QED
  BY <1>2, <1>3

(* The caller in each language is told the truth.  Whoever gets a value    *)
(* gets the one that the Rust future produced and complete took; whoever   *)
(* gets an error or a cancellation instead has a future that failed, or    *)
(* asked for the cancellation itself: no race of the callback, the polls   *)
(* and the cancellers cancels a call for somebody who did not ask, or ends *)
(* it without an answer.                                                   *)
THEOREM CallersGetTheTruth ==
  DSpec => []( /\ GotResult => result = "ok" /\ inner = "ready"
               /\ GotNone => result = "failed" \/ AskedToCancel )
<1>1. DriversInv /\ DriversInv' /\ CallerInv /\ [DNext]_dVars => CallerInv'
  BY CallerStep
<1>2. ASSUME DriversInv, CallerInv
      PROVE  /\ GotResult => result = "ok" /\ inner = "ready"
             /\ GotNone => result = "failed" \/ AskedToCancel
  <2>1. FutureCore
    BY <1>2 DEF DriversInv, SwiftInv, FutureInv
  <2>2. result = "ok" => inner = "ready"
    BY <2>1 DEF FutureCore, OutcomeSound
  <2>3. GotResult => result = "ok"
    BY <1>2 DEF GotResult, CallerInv, KotlinEnds, JavaEnds, CSharpEnds, DartEnds, PythonEnds, Ends
  <2>4. taking = "done" => result \in {"ok", "failed"} \/ (result = "cancelled" /\ cancels)
    BY <1>2, <2>1, AnswerIsSound DEF CallerInv
  <2>5. GotNone => result = "failed" \/ AskedToCancel
    BY <1>2, <2>4 DEF GotNone, AskedToCancel, CallerInv, KotlinEnds, SwiftEnds, JavaEnds, CSharpEnds,
       DartEnds, PythonEnds, Ends
  <2>6. QED
    BY <2>2, <2>3, <2>5
<1>3. QED
  BY <1>1, <1>2, CallerInitially, DriversInvariant, PTL DEF DSpec
-----------------------------------------------------------------------------
(* What a call leaves of the Rust future.  A call is over once its driver  *)
(* has nothing left to do; a Dart call whose token was cancelled before    *)
(* the Rust future was made has none.                                      *)
CallIsOver ==
  \/ driver = "kotlin" /\ co \in {"returned", "thrown"}
  \/ driver = "swift" /\ resumes > 0 /\ onCancel \notin {"cancel", "free", "dropping"}
  \/ driver = "java" /\ opPhase = "OWNED" /\ \A a \in Actor : ~WillOwn(a)
  \/ driver = "csharp" /\ method \in {"returned", "thrown"}
  \/ driver = "dart" /\ isolate = "over" /\ (completer = "cancelled" => cancels)
  \/ driver = "python" /\ wait \in {"returned", "raised"}

LEMMA DroppedStays ==
  ASSUME [HastyNext]_vars PROVE freed = "dropped" => freed' = "dropped"
<1>1. CASE Library \/ InnerReady \/ SpuriousWake
  BY <1>1 DEF Library, PollReadsCancelled, PollOnce, PollAnswers, PollStores, Deliver, CompleteWithout, Wake,
     InnerReady, SpuriousWake, hostVars
<1>2. ASSUME NEW p \in Poll, HastyPolls(p) PROVE freed' = freed
  BY <1>2 DEF HastyPolls, PollCall
<1>3. CASE HostCompletes \/ Cancel \/ HastyFrees
  BY <1>3 DEF HostCompletes, CompleteLocks, Cancel, HastyFrees, FreeMarks, FreeDrops
<1>4. QED
  BY <1>1, <1>2, <1>3 DEF HastyNext, vars, hostVars

(* Whoever took the Swift continuation out of the slot has freed, or is    *)
(* on the way.                                                             *)
SwiftFreed ==
  /\ continuationSlot \in {"finished", "stale"}
  /\ finisher \notin {"complete", "completing", "free", "dropping"}
  /\ onCancel \notin {"cancel", "free", "dropping"}
  => freed = "dropped"

LEMMA SwiftFreedStep ==
  ASSUME FutureCore, SBelief, SwiftFreed, SNext, freed = "dropped" => freed' = "dropped"
  PROVE  SwiftFreed'
<1> USE DEF SwiftFreed, SBelief, STypes, SWinner, vars, hostVars
<1>1. CASE (Library \/ InnerReady \/ SpuriousWake) /\ UNCHANGED swiftVars
  BY <1>1 DEF swiftVars
<1>2. CASE Install
  BY <1>2 DEF Install
<1>3. ASSUME NEW p \in Poll, NEW q \in Poll, StartDriver(p) \/ CanPoll(p) \/ TaskPolls(p, q)
      PROVE  SwiftFreed'
  BY <1>3 DEF StartDriver, CanPoll, TaskPolls, PollCall
<1>4. ASSUME NEW p \in Poll, Callback(p) PROVE SwiftFreed'
  <2>1. finisher = "no"
    BY <1>4, CoreView DEF Callback, View, Told, SPolls, Unhandled
  <2>2. QED
    BY <1>4, <2>1 DEF Callback
<1>5. CASE Ready
  BY <1>5 DEF Ready, Finish, FreeDrops
<1>6. CASE TaskCancelled \/ OnCancel
  BY <1>6 DEF TaskCancelled, OnCancel, Finish, FreeDrops
<1>7. QED
  BY <1>1, <1>2, <1>3, <1>4, <1>5, <1>6 DEF SNext, Driver

DartFreed ==
  /\ isolate = "create" => ~cancels
  /\ isolate = "over" => freed = "dropped" \/ (completer = "cancelled" /\ ~cancels)

LEMMA DartFreedStep ==
  ASSUME FutureCore, DartInv, DartFreed, DTNext, freed = "dropped" => freed' = "dropped"
  PROVE  DartFreed'
<1> USE DEF DartFreed, vars, hostVars
<1>1. CASE (Library \/ InnerReady \/ SpuriousWake) /\ UNCHANGED dartVars
  BY <1>1, RustCancelsNot DEF dartVars
<1>2. ASSUME NEW p \in Poll, DTPolls(p) \/ DTReceives(p) PROVE DartFreed'
  BY <1>2, CoreView DEF DTPolls, PollCall, DTReceives, View, Told, DartInv, DTTypeOK, DTListener
<1>3. CASE DTCreates \/ DTCreated \/ DTTokenCancelled
  BY <1>3 DEF DTCreates, DTCreated, DTTokenCancelled, DartInv, DTListener
<1>4. CASE DTPolled \/ DTReady \/ DTCompletes
  BY <1>4 DEF DTPolled, DTReady, DTCompletes
<1>5. CASE DTAbandons \/ DTFrees
  BY <1>5 DEF DTAbandons, DTFrees, FreeDrops
<1>6. QED
  BY <1>1, <1>2, <1>3, <1>4, <1>5 DEF DTNext, Turn

(* A Java phase that is OWNED has an owner until the handle is gone.       *)
JavaFreed == opPhase = "OWNED" => freed = "dropped" \/ \E a \in Actor : WillOwn(a)

LEMMA OwnerStays ==
  ASSUME JavaFreed, freed = "dropped" => freed' = "dropped", NEW a \in Actor,
         \A b \in Actor : b # a => frame'[b] = frame[b],
         opPhase' = "OWNED" => opPhase = "OWNED" \/ WillOwn(a)',
         WillOwn(a) => WillOwn(a)' \/ freed' = "dropped"
  PROVE  JavaFreed'
BY DEF JavaFreed, WillOwn, Owns, At

LEMMA LoopFreedStep ==
  ASSUME JTypes, JavaFreed, DriveLoop, freed = "dropped" => freed' = "dropped"
  PROVE  JavaFreed'
<1>1. frame \in Frames /\ "drive" \in Actor
  BY DEF JTypes, Actor
<1> USE <1>1 DEF Cas, At, Owns, WillOwn, vars, hostVars
<1>2. ASSUME NEW l \in Label, Go("drive", l), ~WillOwn("drive"),
             opPhase' = "OWNED" => opPhase = "OWNED" \/ l \in {"complete", "cancel", "releaseCancel"}
      PROVE  JavaFreed'
  <2>1. frame'["drive"].at = l /\ \A b \in Actor : b # "drive" => frame'[b] = frame[b]
    BY <1>2, GoMoves
  <2>2. QED
    BY <1>2, <2>1, OwnerStays
<1>3. ASSUME NEW l \in Label, Go("drive", l), opPhase' = opPhase,
             l \in {"completing", "cancel", "free", "drop"} \/ freed' = "dropped"
      PROVE  JavaFreed'
  <2>1. frame'["drive"].at = l /\ \A b \in Actor : b # "drive" => frame'[b] = frame[b]
    BY <1>3, GoMoves
  <2>2. QED
    BY <1>3, <2>1, OwnerStays
<1>4. CASE LoopClaims \/ LoopParks \/ LoopRearms
  <2>1. PICK l \in {"arm", "idle", "refused", "loop", "releaseLoop", "stopped"} :
          Go("drive", l) /\ opPhase' \in {opPhase, "POLLING", "WAITING", "ACTIVE"} /\ ~WillOwn("drive")
    BY <1>4 DEF LoopClaims, LoopParks, LoopRearms
  <2>2. QED
    BY <1>2, <2>1 DEF Label
<1>5. CASE LoopPolls \/ LoopPolled \/ AsyncStarts
  <2>1. PICK l \in {"polling", "park", "joinedReady", "joinedPending", "resumed"} :
          Go("drive", l) /\ opPhase' = opPhase /\ ~WillOwn("drive")
    BY <1>5 DEF LoopPolls, LoopPolled, AsyncStarts
  <2>2. QED
    BY <1>2, <2>1 DEF Label
<1>6. ASSUME NEW p \in Poll, LoopArms(p) PROVE JavaFreed'
  <2>1. frame' = [frame EXCEPT !["drive"] = [@ EXCEPT !.at = "poll", !.poll = p]]
    BY <1>6 DEF LoopArms
  <2>2. \A b \in Actor : b # "drive" => frame'[b] = frame[b]
    BY <2>1 DEF Frames
  <2>3. ~WillOwn("drive") /\ opPhase' = opPhase
    BY <1>6 DEF LoopArms
  <2>4. QED
    BY <2>2, <2>3, OwnerStays
<1>7. CASE LoopReleases /\ ~At("drive", "releaseCancel")
  <2>1. PICK l \in {"refusedCancel", "asyncReady", "asyncPending", "loop", "idle"} :
          Go("drive", l) /\ opPhase' = opPhase /\ ~WillOwn("drive")
    BY <1>7 DEF LoopReleases, AfterRelease
  <2>2. QED
    BY <1>2, <2>1 DEF Label
<1>8. CASE LoopReleases /\ At("drive", "releaseCancel")
  <2>1. Go("drive", "cancel") /\ opPhase' = opPhase
    BY <1>8 DEF LoopReleases, AfterRelease
  <2>2. QED
    BY <1>3, <2>1 DEF Label
<1>9. CASE LoopClaimsReady
  <2>1. PICK l \in {"complete", "lateReady", "asyncLate", "idle"} :
          /\ Go("drive", l) /\ ~WillOwn("drive")
          /\ opPhase' = opPhase \/ l = "complete"
    BY <1>9 DEF LoopClaimsReady
  <2>2. QED
    BY <1>2, <2>1 DEF Label
<1>10. CASE LoopClaimsCancelled
  <2>1. PICK l \in {"refusedReady", "idle", "asyncRearm", "releaseIdle", "joinedRearm", "releaseCancel", "cancel"} :
          /\ Go("drive", l) /\ ~WillOwn("drive")
          /\ opPhase' = opPhase \/ l \in {"cancel", "releaseCancel"}
    BY <1>10 DEF LoopClaimsCancelled
  <2>2. QED
    BY <1>2, <2>1 DEF Label
<1>11. CASE OwnerCompletes \/ OwnerCancels("drive")
  <2>1. PICK l \in {"completing", "free"} : Go("drive", l) /\ opPhase' = opPhase
    BY <1>11 DEF OwnerCompletes, OwnerCancels
  <2>2. QED
    BY <1>3, <2>1 DEF Label
<1>12. CASE OwnerFrees("drive")
  <2>1. PICK l \in {"drop", "releaseIdle"} : Go("drive", l) /\ opPhase' = opPhase /\ (l = "drop" \/ freed' = "dropped")
    BY <1>12 DEF OwnerFrees, FreeDrops
  <2>2. QED
    BY <1>3, <2>1 DEF Label
<1>13. QED
  BY <1>4, <1>5, <1>6, <1>7, <1>8, <1>9, <1>10, <1>11, <1>12 DEF DriveLoop

LEMMA CancellerFreedStep ==
  ASSUME JTypes, JavaFreed, NEW c \in Canceller, CancelReads(c) \/ RunCancel(c),
         freed = "dropped" => freed' = "dropped"
  PROVE  JavaFreed'
<1>1. frame \in Frames /\ c \in Actor /\ c # "drive" /\ c \in DOMAIN frame
  BY CancellerAssumption DEF JTypes, Actor, Frames
<1> USE <1>1 DEF Cas, At, Owns, WillOwn, Go, vars, hostVars
<1>2. \A b \in Actor : b # c => frame'[b] = frame[b]
  BY DEF Frames, RunCancel, CancelReads, CancelClaimsActive, CancelReadsActive, CancelTakesDelivery, CancelDefers,
     CancelClaimsWaiting, CancelReadsStarted, CancelRereadsActive, CancelGivesBack, OwnerCancels, OwnerFrees, Settles
<1>3. (opPhase' = "OWNED" => opPhase = "OWNED" \/ WillOwn(c)') /\ (WillOwn(c) => WillOwn(c)' \/ freed' = "dropped")
  <2> USE DEF Frames
  <2>1. CASE CancelReads(c) \/ CancelReadsActive(c) \/ CancelRereadsActive(c)
    BY <2>1 DEF CancelReads, CancelReadsActive, CancelRereadsActive
  <2>2. CASE CancelTakesDelivery(c) \/ CancelReadsStarted(c) \/ Settles(c)
    BY <2>2 DEF CancelTakesDelivery, CancelReadsStarted, Settles
  <2>3. CASE CancelClaimsActive(c) \/ CancelClaimsWaiting(c)
    BY <2>3 DEF CancelClaimsActive, CancelClaimsWaiting
  <2>4. CASE CancelDefers(c) \/ CancelGivesBack(c)
    BY <2>4 DEF CancelDefers, CancelGivesBack
  <2>5. CASE OwnerCancels(c) \/ OwnerFrees(c)
    BY <2>5 DEF OwnerCancels, OwnerFrees, FreeDrops
  <2>6. QED
    BY <2>1, <2>2, <2>3, <2>4, <2>5 DEF RunCancel
<1>4. QED
  BY <1>2, <1>3, OwnerStays

LEMMA JavaFreedStep ==
  ASSUME JTypes, JavaFreed, JNext, freed = "dropped" => freed' = "dropped"
  PROVE  JavaFreed'
<1>1. ASSUME frame' = frame, opPhase' = "OWNED" => opPhase = "OWNED" PROVE JavaFreed'
  BY <1>1 DEF JavaFreed, WillOwn, Owns, At
<1>2. CASE (Library \/ InnerReady \/ SpuriousWake) /\ UNCHANGED javaVars
  BY <1>1, <1>2 DEF javaVars
<1>3. CASE Callbacks
  BY <1>1, <1>3 DEF Callbacks, CallbackBegins, MarkReady, CallbackFinishes
<1>4. QED
  BY <1>2, <1>3, LoopFreedStep, CancellerFreedStep DEF JNext

FreedInv ==
  /\ driver = "swift" => SwiftFreed
  /\ driver = "java" => JavaFreed
  /\ driver = "dart" => DartFreed

(* No driver leaks the Rust future: once a call is over, however the       *)
(* callback, the polls and the cancellers met in it, the handle is freed,  *)
(* and so is what the future holds.  That it was freed once is the guard   *)
(* of FreeMarks, which DriversKeepHandshake shows respected.               *)
THEOREM OverIsFreed == DSpec => [](CallIsOver => freed = "dropped")
<1>1. DInit => FreedInv
  BY DEF DInit, SInit, Init, JInit, DTInit, FreedInv, SwiftFreed, JavaFreed, DartFreed
<1>2. ASSUME DriversInv, FreedInv, [DNext]_dVars PROVE FreedInv'
  <2>1. freed = "dropped" => freed' = "dropped"
    BY <1>2, DriversStep, DroppedStays
  <2>2. CASE UNCHANGED dVars
    BY <1>2, <2>2 DEF dVars, vars, hostVars, languageVars, FreedInv, SwiftFreed, swiftVars, JavaFreed,
       javaVars, WillOwn, Owns, At, DartFreed, dartVars
  <2>3. CASE DNext
    <3> USE <1>2 DEF DriversInv, FreedInv, Only
    <3>1. CASE SwiftOnly /\ SNext
      BY <2>1, <3>1, SwiftFreedStep DEF SwiftOnly, SwiftInv
    <3>2. CASE JavaOnly /\ JNext
      BY <2>1, <3>2, JavaFreedStep DEF JavaOnly, JavaInv
    <3>3. CASE DartOnly /\ DTNext
      BY <2>1, <3>3, DartFreedStep DEF DartOnly, FutureInv
    <3>4. QED
      BY <2>3, <3>1, <3>2, <3>3 DEF DNext, AnyOnly, KotlinOnly, CSharpOnly, PythonOnly
  <2>4. QED
    BY <1>2, <2>2, <2>3
<1>3. ASSUME DriversInv, FreedInv, CallIsOver PROVE freed = "dropped"
  <2> USE <1>3 DEF DriversInv, FreedInv
  <2>1. CASE driver = "kotlin" /\ co \in {"returned", "thrown"}
    BY <2>1 DEF KotlinInv, Handle
  <2>2. CASE driver = "csharp" /\ method \in {"returned", "thrown"}
    BY <2>2 DEF CSharpInv, Handle
  <2>3. CASE driver = "python" /\ wait \in {"returned", "raised"}
    BY <2>3 DEF PythonInv, Handle
  <2>4. CASE driver = "swift" /\ resumes > 0 /\ onCancel \notin {"cancel", "free", "dropping"}
    BY <2>4 DEF SwiftInv, SBelief, STypes, SBody, SWinner, FinisherWon, OnCancelWon, SwiftFreed
  <2>5. CASE driver = "java" /\ opPhase = "OWNED" /\ \A a \in Actor : ~WillOwn(a)
    BY <2>5 DEF JavaFreed
  <2>6. CASE driver = "dart" /\ isolate = "over" /\ (completer = "cancelled" => cancels)
    BY <2>6 DEF DartFreed
  <2>7. QED
    BY <2>1, <2>2, <2>3, <2>4, <2>5, <2>6 DEF CallIsOver
<1>4. QED
  BY <1>1, <1>2, <1>3, DriversInvariant, PTL DEF DSpec
-----------------------------------------------------------------------------
(* A Java call that nobody cancels.  Each label of the loop goes with one  *)
(* phase, or with two when the callback may mark it READY meanwhile, so    *)
(* that no compare-and-set on it fails in vain.                            *)
LoopPhase ==
  /\ Loop \in {"loop", "releaseLoop"} => opPhase = "ACTIVE"
  /\ Loop \in {"arm", "poll", "joinedPending", "joinedRearm"} => opPhase = "POLLING"
  /\ Loop \in {"polling", "park"} => opPhase \in {"POLLING", "READY"}
  /\ Loop \in {"refused", "refusedCancel", "refusedReady", "joinedReady", "asyncReady"} => opPhase = "READY"
  /\ Loop \in {"asyncPending", "asyncRearm"} => opPhase = "WAITING"
  /\ Loop = "resumed" \/ (Loop = "idle" /\ awaited # "null") => opPhase \in {"WAITING", "READY"}
  /\ Loop \in {"polling", "park"} \/ (Loop = "idle" /\ awaited # "null") => at[LoopPoll] # "idle"
  /\ Loop \in {"free", "drop", "releaseIdle"} \/ (Loop = "idle" /\ awaited = "null") => outcome # "none"
  /\ Loop \notin {"asyncLate", "lateReady", "stopped", "releaseCancel", "cancel"}

(* The callback finds the signal of every poll, and a Ready in the phase   *)
(* before it finishes.                                                     *)
SignalsKept ==
  \A p \in Poll :
    /\ callback[p] # "ignored"
    /\ callback[p] = "no" => delivery[p] = "WAITING"
    /\ callback[p] \in {"finish", "done"} /\ delivery[p] = "READY" => opPhase \in {"READY", "OWNED"}
    /\ Called(p) \/ (Loop = "poll" /\ p = LoopPoll) => p \in continuations \/ callback[p] = "done"

Uncancelled == opPhase # "CANCEL_REQUESTED" /\ LoopPhase /\ SignalsKept

LEMMA UncancelledRust ==
  ASSUME FutureCore, View', JavaInv, Uncancelled, Library \/ InnerReady \/ SpuriousWake, UNCHANGED javaVars
  PROVE  Uncancelled'
<1>1. \A p \in Poll : Called(p)' <=> Called(p)
  BY CoreView, RustHears DEF View, OnlyHears
<1>2. Loop' = Loop /\ LoopPoll' = LoopPoll /\ UNCHANGED <<opPhase, delivery, continuations, callback, awaited, outcome>>
  BY DEF javaVars, Loop, LoopPoll
<1>3. Loop \in {"polling", "park"} \/ (Loop = "idle" /\ awaited # "null") => LoopPoll \in Poll
  BY DEF JavaInv, JDrive
<1>4. LoopPoll \in Poll => (at'[LoopPoll] # "idle" <=> at[LoopPoll] # "idle")
  BY <1>1 DEF Called
<1>5. LoopPhase'
  BY <1>2, <1>3, <1>4 DEF Uncancelled, LoopPhase
<1>6. SignalsKept'
  BY <1>1, <1>2 DEF Uncancelled, SignalsKept
<1>7. QED
  BY <1>2, <1>5, <1>6 DEF Uncancelled

LEMMA UncancelledCallback ==
  ASSUME FutureCore, JavaInv, Uncancelled, NEW p \in Poll,
         CallbackBegins(p) \/ MarkReady(p) \/ CallbackFinishes(p)
  PROVE  Uncancelled'
<1>1. Loop' = Loop /\ LoopPoll' = LoopPoll /\ UNCHANGED <<at, awaited, outcome>> /\ \A q \in Poll : Called(q)' <=> Called(q)
  BY DEF CallbackBegins, MarkReady, CallbackFinishes, Loop, LoopPoll, Called, vars
<1>2. CASE CallbackBegins(p)
  <2>1. Called(p) /\ p \in continuations /\ delivery[p] = "WAITING"
    BY <1>2, CoreView DEF CallbackBegins, View, Told, Uncancelled, SignalsKept
  <2>2. opPhase' = opPhase /\ continuations' = continuations
    BY <1>2 DEF CallbackBegins
  <2>3. /\ delivery' = [delivery EXCEPT ![p] = IF Heard(p) = "Ready" THEN "READY" ELSE "PENDING"]
        /\ callback' = [callback EXCEPT ![p] = IF Heard(p) = "Ready" THEN "mark" ELSE "finish"]
    BY <1>2, <2>1 DEF CallbackBegins, MoveCallback
  <2>4. /\ callback'[p] # "ignored" /\ callback'[p] # "no" /\ delivery'[p] # "WAITING"
        /\ callback'[p] = "mark" \/ delivery'[p] # "READY"
        /\ callback[p] = "no"
        /\ \A q \in Poll : q # p => callback'[q] = callback[q] /\ delivery'[q] = delivery[q]
    BY <1>2, <2>3 DEF JavaInv, JTypes, CallbackBegins
  <2>5. SignalsKept'
    BY <1>1, <2>1, <2>2, <2>4 DEF Uncancelled, SignalsKept
  <2>6. QED
    BY <1>1, <2>2, <2>5 DEF Uncancelled, LoopPhase
<1>3. CASE MarkReady(p)
  <2>1. told[p] = "Ready" /\ ~AllOver
    BY <1>3 DEF MarkReady, JavaInv, JSignals, AllOver, Over
  <2>2. Loop \notin {"loop", "arm", "poll", "releaseLoop", "asyncPending", "asyncRearm", "joinedPending", "joinedRearm"}
    BY <2>1 DEF JavaInv, JDrive
  <2>3. opPhase' = (IF opPhase \in {"READY", "OWNED"} THEN opPhase ELSE "READY")
    BY <1>3 DEF MarkReady, Uncancelled
  <2>4. LoopPhase'
    BY <1>1, <2>2, <2>3 DEF Uncancelled, LoopPhase
  <2>5. UNCHANGED <<delivery, continuations>> /\ callback' = [callback EXCEPT ![p] = "finish"] /\ callback[p] = "mark"
    BY <1>3 DEF MarkReady, MoveCallback
  <2>6. SignalsKept'
    BY <1>1, <2>3, <2>5 DEF JavaInv, JTypes, Uncancelled, SignalsKept
  <2>7. QED
    BY <2>3, <2>4, <2>6 DEF Uncancelled
<1>4. CASE CallbackFinishes(p)
  <2>1. UNCHANGED <<opPhase, delivery>> /\ continuations' = continuations \ {p}
        /\ callback' = [callback EXCEPT ![p] = "done"] /\ callback[p] = "finish"
    BY <1>4 DEF CallbackFinishes, MoveCallback
  <2>2. SignalsKept'
    BY <1>1, <2>1 DEF JavaInv, JTypes, Uncancelled, SignalsKept
  <2>3. QED
    BY <1>1, <2>1, <2>2 DEF Uncancelled, LoopPhase
<1>5. QED
  BY <1>2, <1>3, <1>4

LEMMA UncancelledLoop ==
  ASSUME FutureCore, Answered, JavaInv, JavaInv', Uncancelled, DriveLoop
  PROVE  Uncancelled'
<1>1. frame \in Frames /\ "drive" \in Actor /\ Loop \in Label
  BY DEF JavaInv, JTypes, Actor, Frames, Loop
<1>2. ASSUME UNCHANGED <<callback, delivery, continuations>>, Loop' # "poll",
             opPhase \in {"READY", "OWNED"} => opPhase' \in {"READY", "OWNED"},
             \A p \in Poll : Called(p)' => Called(p) \/ (Loop = "poll" /\ p = LoopPoll)
      PROVE  SignalsKept'
  BY <1>2 DEF Uncancelled, SignalsKept
<1>3. ASSUME NEW l \in Label, Go("drive", l) PROVE Loop' = l /\ LoopPoll' = LoopPoll
  BY <1>1, <1>3, GoMoves DEF Loop, LoopPoll
<1> USE DEF Uncancelled, At, Cas
<1>4. CASE LoopClaims
  <2>1. Go("drive", "arm") /\ opPhase' = "POLLING" /\ UNCHANGED <<vars, callback, delivery, continuations>>
    BY <1>4 DEF LoopClaims, LoopPhase, Loop
  <2>2. Loop' = "arm" /\ opPhase = "ACTIVE"
    BY <1>3, <1>4, <2>1 DEF Label, LoopClaims, LoopPhase, Loop
  <2>3. QED
    BY <1>2, <2>1, <2>2 DEF LoopPhase, Called, vars
<1>5. ASSUME NEW p \in Poll, LoopArms(p) PROVE Uncancelled'
  <2>1. Loop' = "poll" /\ LoopPoll' = p
    BY <1>1, <1>5 DEF LoopArms, Frames, Loop, LoopPoll
  <2>2. Loop = "arm" /\ opPhase' = opPhase /\ continuations' = continuations \cup {p}
    BY <1>5 DEF LoopArms, Loop
  <2>3. SignalsKept'
    BY <1>5, <2>1, <2>2 DEF LoopArms, SignalsKept, Called, vars
  <2>4. QED
    BY <2>1, <2>2, <2>3 DEF LoopPhase
<1>6. CASE LoopPolls
  <2>1. Go("drive", "polling") /\ UNCHANGED <<opPhase, callback, delivery, continuations>> /\ PollCall(LoopPoll) /\ Loop = "poll"
    BY <1>6 DEF LoopPolls, My, LoopPoll, Loop
  <2>2. Loop' = "polling"
    BY <1>3, <2>1 DEF Label
  <2>3. \A p \in Poll : Called(p)' => Called(p) \/ p = LoopPoll
    BY <2>1 DEF PollCall, Move, Called, FutureCore, TypeOK
  <2>4. LoopPoll' = LoopPoll /\ LoopPoll \in Poll /\ at'[LoopPoll] # "idle"
    BY <1>3, <2>1 DEF Label, PollCall, Move, FutureCore, TypeOK, JavaInv, JDrive
  <2>5. QED
    BY <1>2, <2>1, <2>2, <2>3, <2>4 DEF LoopPhase
<1>7. CASE LoopPolled
  <2>1. PICK l \in {"park", "joinedReady", "joinedPending"} :
          /\ Go("drive", l)
          /\ l = "joinedReady" => Finished(LoopPoll) /\ delivery[LoopPoll] = "READY"
    BY <1>7 DEF LoopPolled, My, LoopPoll
  <2>2. Loop' = l /\ LoopPoll' = LoopPoll /\ Loop = "polling" /\ UNCHANGED <<vars, opPhase, callback, delivery, continuations>>
    BY <1>3, <1>7, <2>1 DEF Label, LoopPolled, Loop
  <2>3. l = "joinedReady" => opPhase = "READY"
    BY <2>1, <2>2 DEF JavaInv, JDrive, SignalsKept, Finished, LoopPhase
  <2>4. l = "joinedPending" => opPhase = "POLLING"
    <3>1. SUFFICES ASSUME l = "joinedPending", opPhase = "READY" PROVE FALSE
      BY <2>2 DEF LoopPhase
    <3>2. AllOver' /\ \E p \in Poll : told'[p] = "Ready"
      BY <2>2, <3>1 DEF JavaInv, JDrive, JSignals
    <3>3. QED
      BY <3>2 DEF AllOver, Over
  <2>5. QED
    BY <1>2, <2>2, <2>3, <2>4 DEF LoopPhase, Called, vars
<1>8. CASE LoopParks
  <2>1. \/ opPhase = "POLLING" /\ opPhase' = "WAITING" /\ Go("drive", "idle") /\ awaited' = LoopPoll
        \/ opPhase = "READY" /\ opPhase' = opPhase /\ Go("drive", "refused")
    BY <1>8 DEF LoopParks, LoopPhase, Loop, LoopPoll, My
  <2>2. Loop = "park" /\ LoopPoll' = LoopPoll /\ (Loop' = "idle" \/ Loop' = "refused") /\ (Loop' = "idle" <=> opPhase' = "WAITING")
    BY <1>3, <1>8, <2>1 DEF Label, LoopParks, Loop
  <2>3. LoopPoll \in Poll /\ "null" \notin Poll
    BY <1>8, NullAssumption DEF LoopParks, JavaInv, JDrive, Loop
  <2>4. UNCHANGED <<vars, callback, delivery, continuations>>
    BY <1>8 DEF LoopParks
  <2>5. QED
    BY <1>2, <2>1, <2>2, <2>3, <2>4 DEF LoopPhase, Called, vars
<1>9. CASE AsyncStarts
  <2>1. Go("drive", "resumed") /\ Loop = "idle" /\ awaited # "null" /\ UNCHANGED <<vars, opPhase, callback, delivery, continuations>>
    BY <1>9 DEF AsyncStarts, Loop
  <2>2. Loop' = "resumed"
    BY <1>3, <2>1 DEF Label
  <2>3. QED
    BY <1>2, <2>1, <2>2 DEF LoopPhase, Called, vars
<1>10. CASE LoopReleases
  <2>1. PICK l \in {"refusedCancel", "asyncReady", "asyncPending", "cancel", "loop", "idle"} :
          /\ Go("drive", l)
          /\ \/ Loop = "refused" /\ l = "refusedCancel"
             \/ Loop = "resumed" /\ l = "asyncReady" /\ delivery[LoopPoll] = "READY"
             \/ Loop = "resumed" /\ l = "asyncPending"
             \/ Loop = "releaseCancel" /\ l = "cancel"
             \/ Loop = "releaseLoop" /\ l = "loop"
             \/ Loop = "releaseIdle" /\ l = "idle"
    BY <1>10 DEF LoopReleases, AfterRelease, Loop, LoopPoll, My
  <2>2. Loop' = l /\ UNCHANGED <<vars, opPhase, callback, delivery, continuations, awaited, outcome>>
    BY <1>3, <1>10, <2>1 DEF Label, LoopReleases
  <2>3. l = "asyncReady" => opPhase = "READY"
    BY <2>1 DEF JavaInv, JDrive, SignalsKept, Finished, LoopPhase
  <2>4. l = "asyncPending" => opPhase = "WAITING"
    <3>1. SUFFICES ASSUME l = "asyncPending", opPhase = "READY" PROVE FALSE
      BY <2>1 DEF LoopPhase
    <3>2. AllOver' /\ \E p \in Poll : told'[p] = "Ready"
      BY <2>2, <3>1 DEF JavaInv, JDrive, JSignals
    <3>3. QED
      BY <3>2 DEF AllOver, Over
  <2>5. l = "idle" => awaited = "null"
    BY <2>1 DEF JavaInv, JDrive
  <2>6. QED
    BY <1>2, <2>1, <2>2, <2>3, <2>4, <2>5 DEF LoopPhase, Called, vars
<1>11. CASE LoopClaimsReady
  <2>1. Go("drive", "complete") /\ opPhase' = "OWNED" /\ UNCHANGED <<vars, callback, delivery, continuations>>
    BY <1>1, <1>11 DEF LoopClaimsReady, LoopPhase, Loop
  <2>2. Loop' = "complete"
    BY <1>3, <2>1 DEF Label
  <2>3. QED
    BY <1>2, <2>1, <2>2 DEF LoopPhase, Called, vars
<1>12. CASE LoopClaimsCancelled
  <2>1. PICK l \in {"refusedReady", "asyncRearm", "joinedRearm"} :
          /\ Go("drive", l)
          /\ \/ Loop = "refusedCancel" /\ l = "refusedReady"
             \/ Loop = "asyncPending" /\ l = "asyncRearm"
             \/ Loop = "joinedPending" /\ l = "joinedRearm"
    BY <1>12 DEF LoopClaimsCancelled, LoopPhase, Loop
  <2>2. Loop' = l /\ UNCHANGED <<vars, opPhase, callback, delivery, continuations>>
    BY <1>3, <1>12, <2>1 DEF Label, LoopClaimsCancelled
  <2>3. QED
    BY <1>2, <2>1, <2>2 DEF LoopPhase, Called, vars
<1>13. CASE LoopRearms
  <2>1. PICK l \in {"loop", "releaseLoop"} : Go("drive", l) /\ opPhase' = "ACTIVE" /\ opPhase \in {"WAITING", "POLLING"}
    BY <1>13 DEF LoopRearms, LoopPhase, Loop
  <2>2. Loop' = l /\ UNCHANGED <<vars, callback, delivery, continuations>>
    BY <1>3, <1>13, <2>1 DEF Label, LoopRearms
  <2>3. QED
    BY <1>2, <2>1, <2>2 DEF LoopPhase, Called, vars
<1>14. CASE OwnerCompletes
  <2>1. UNCHANGED <<at, opPhase, callback, delivery, continuations>>
    BY <1>14 DEF OwnerCompletes, CompleteLocks, vars
  <2>2. \/ Go("drive", "completing")
        \/ Go("drive", "free") /\ outcome' # "none"
    BY <1>14 DEF OwnerCompletes, Complete, Answered
  <2>3. Loop' = "completing" \/ (Loop' = "free" /\ outcome' # "none")
    BY <1>3, <2>2 DEF Label
  <2>4. QED
    BY <1>2, <2>1, <2>3 DEF LoopPhase, Called
<1>15. ~OwnerCancels("drive")
  BY DEF OwnerCancels, LoopPhase, Loop
<1>16. CASE OwnerFrees("drive")
  <2>1. UNCHANGED <<at, opPhase, callback, delivery, continuations, awaited>>
    BY <1>16 DEF OwnerFrees, FreeMarks, FreeDrops
  <2>2. (Go("drive", "drop") \/ Go("drive", "releaseIdle")) /\ Loop \in {"free", "drop"} /\ outcome' \in {outcome, "cancelled"}
    BY <1>16 DEF OwnerFrees, Complete, Loop
  <2>3. Loop' \in {"drop", "releaseIdle"} /\ outcome' # "none"
    BY <1>3, <2>2 DEF Label, LoopPhase
  <2>4. QED
    BY <1>2, <2>1, <2>3 DEF LoopPhase, Called
<1>17. QED
  BY <1>4, <1>5, <1>6, <1>7, <1>8, <1>9, <1>10, <1>11, <1>12, <1>13, <1>14, <1>15, <1>16 DEF DriveLoop

LEMMA LoopCancelsNot ==
  ASSUME JTypes, DriveLoop
  PROVE  CancelCalled' <=> CancelCalled
<1>1. frame \in Frames /\ "drive" \in Actor /\ (\A c \in Canceller : c \in Actor /\ c # "drive")
  BY CancellerAssumption DEF JTypes, Actor
<1>2. ASSUME NEW l \in Label, Go("drive", l) PROVE CancelCalled' <=> CancelCalled
  BY <1>1, <1>2, GoMoves DEF CancelCalled, At
<1>3. CASE LoopClaims \/ LoopPolls \/ LoopPolled \/ LoopParks \/ AsyncStarts \/ LoopRearms
  <2>1. \E l \in Label : Go("drive", l)
    BY <1>3 DEF LoopClaims, LoopPolls, LoopPolled, LoopParks, AsyncStarts, LoopRearms, Cas, Label
  <2>2. QED
    BY <1>2, <2>1
<1>4. CASE LoopReleases \/ LoopClaimsReady \/ LoopClaimsCancelled
  <2>1. \E l \in Label : Go("drive", l)
    BY <1>4 DEF LoopReleases, AfterRelease, LoopClaimsReady, LoopClaimsCancelled, Cas, Label
  <2>2. QED
    BY <1>2, <2>1
<1>5. CASE OwnerCompletes \/ OwnerCancels("drive") \/ OwnerFrees("drive")
  <2>1. \E l \in Label : Go("drive", l)
    BY <1>5 DEF OwnerCompletes, OwnerCancels, OwnerFrees, Label
  <2>2. QED
    BY <1>2, <2>1
<1>6. ASSUME NEW p \in Poll, LoopArms(p) PROVE CancelCalled' <=> CancelCalled
  BY <1>6, LoopMoves DEF LoopArms, Label
<1>7. QED
  BY <1>3, <1>4, <1>5, <1>6 DEF DriveLoop

LEMMA CallersAnswered == DSpec => []CallerInv
<1>1. DriversInv /\ DriversInv' /\ CallerInv /\ [DNext]_dVars => CallerInv'
  BY CallerStep
<1>2. QED
  BY <1>1, CallerInitially, DriversInvariant, PTL DEF DSpec

UncancelledInv == driver = "java" /\ ~CancelCalled => Uncancelled

LEMMA UncancelledStep ==
  ASSUME DriversInv, DriversInv', CallerInv, UncancelledInv, [DNext]_dVars
  PROVE  UncancelledInv'
<1>1. FutureCore /\ FutureCore' /\ View'
  <2>1. (DriversInv => FutureCore) /\ (DriversInv' => FutureCore')
    BY DEF DriversInv, SwiftInv, FutureInv
  <2>2. QED
    BY <2>1, CoreView, PTL
<1>2. CASE UNCHANGED dVars
  BY <1>2 DEF dVars, vars, languageVars, javaVars, UncancelledInv, CancelCalled, At, Uncancelled, LoopPhase,
     SignalsKept, Loop, LoopPoll, Called
<1>3. CASE JavaOnly /\ JNext
  <2>1. driver = "java" /\ driver' = driver /\ JavaInv /\ JavaInv'
    BY <1>3 DEF JavaOnly, Only, DriversInv
  <2>2. CASE (Library \/ InnerReady \/ SpuriousWake) /\ UNCHANGED javaVars
    BY <1>1, <2>1, <2>2, UncancelledRust DEF UncancelledInv, javaVars, CancelCalled, At
  <2>3. CASE Callbacks
    <3>1. frame' = frame
      BY <2>3 DEF Callbacks, CallbackBegins, MarkReady, CallbackFinishes
    <3>2. QED
      BY <1>1, <2>1, <2>3, <3>1, UncancelledCallback DEF Callbacks, UncancelledInv, CancelCalled, At
  <2>4. CASE DriveLoop
    <3>1. CancelCalled => CancelCalled'
      BY <2>1, <2>4, LoopCancelsNot DEF JavaInv
    <3>2. QED
      BY <1>1, <2>1, <2>4, <3>1, UncancelledLoop DEF UncancelledInv, CallerInv
  <2>5. ASSUME NEW c \in Canceller, CancelReads(c) \/ RunCancel(c) PROVE UncancelledInv'
    BY <2>1, <2>5, CancellerHasCalled DEF JavaInv, UncancelledInv
  <2>6. QED
    BY <1>3, <2>2, <2>3, <2>4, <2>5 DEF JNext
<1>4. QED
  BY <1>2, <1>3 DEF DNext, AnyOnly, KotlinOnly, SwiftOnly, CSharpOnly, DartOnly, PythonOnly, Only, UncancelledInv

AwaitsASignal ==
  driver = "java" /\ ~CancelCalled /\ Loop = "idle" /\ outcome = "none" =>
    /\ awaited \in Poll /\ callback[awaited] # "ignored"
    /\ awaited \in continuations \/ Finished(awaited)

(* The counterpart of the run java_cancel_race: without a cancel no race   *)
(* of the loop and the callback strands a Java call.  When the loop rests, *)
(* the call has ended, or it awaits a poll whose signal the callback finds *)
(* in the map, or has finished; that the callback comes is NoSilentWait.   *)
THEOREM UncancelledCallsGoOn == DSpec => []AwaitsASignal
<1>1. DInit => UncancelledInv
  BY JavaInit DEF DInit, JInit, Init, Frame, Actor, UncancelledInv, Uncancelled, LoopPhase, SignalsKept, Loop, Called
<1>2. DriversInv /\ DriversInv' /\ CallerInv /\ UncancelledInv /\ [DNext]_dVars => UncancelledInv'
  BY UncancelledStep
<1>3. ASSUME DriversInv, UncancelledInv PROVE AwaitsASignal
  <2>0. SUFFICES ASSUME driver = "java", ~CancelCalled, Loop = "idle", outcome = "none"
        PROVE  /\ awaited \in Poll /\ callback[awaited] # "ignored"
               /\ awaited \in continuations \/ Finished(awaited)
    BY DEF AwaitsASignal
  <2>1. JavaInv /\ Uncancelled
    BY <1>3, <2>0 DEF DriversInv, UncancelledInv
  <2>2. awaited \in Poll /\ awaited = LoopPoll /\ Called(awaited)
    BY <2>0, <2>1 DEF Uncancelled, LoopPhase, JavaInv, JDrive, Called
  <2>3. QED
    BY <2>1, <2>2 DEF Uncancelled, SignalsKept, Finished
<1>4. DSpec => DInit /\ [][DNext]_dVars
  BY PTL DEF DSpec
<1>5. QED
  BY <1>1, <1>2, <1>3, <1>4, DriversInvariant, CallersAnswered, PTL
===============================================================================
