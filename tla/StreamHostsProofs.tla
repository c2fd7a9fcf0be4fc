-------------------------- MODULE StreamHostsProofs --------------------------
(***************************************************************************)
(* Proofs about one subscription under HostsSpec, for any number of        *)
(* producers, events and polls and any sizes of ring and batch.            *)
(*                                                                         *)
(* Under every host: no continuation parks over events or over the end of  *)
(* the stream, and what a reader is told of the end is so.  The general    *)
(* reader ("any") and the bindings without a context hold the subscription *)
(* during each of their calls; the contexts drain only what they hold, and *)
(* free it once.                                                           *)
(*                                                                         *)
(* SubscriptionInv is about the library alone and asks three things of a   *)
(* host: one poll at a time, no free during its own unsubscribe, and no    *)
(* other access.  ReaderInv, ContextInv and those of the bindings say why  *)
(* the hosts do that.                                                      *)
(***************************************************************************)
EXTENDS StreamHosts, SequenceTheorems, TLAPS

WaitFrame ==
  [at : {"idle", "entered", "active", "locked", "testing", "tested", "asleep",
         "timedOut", "woken", "counting"},
   expired : BOOLEAN,
   answer : {"none", "EventsAvailable", "Timeout", "Unsubscribed"}]

(* What the proofs need of the types.                                      *)
Shape ==
  /\ queue \in Seq(Event) /\ held \in Seq(Event)
  /\ slot \in {"Empty", "Waked", "Cancelled"} \cup Poll
  /\ phase \in [Poll -> {"fresh", "parked", "claimed", "delivered"}]
  /\ signal \in [Poll -> {"none", "wake", "cancelled"}]
  /\ by \in [Poll -> Closer \cup Producer \cup {"poll"}]
  /\ active \in BOOLEAN
  /\ push \in [Producer -> {"idle", "upgraded", "offered", "accepted", "notified", "leaving"}]
  /\ at \in [Poll -> {"idle", "entered", "active", "empty", "ready", "closed",
                      "parked", "taking", "refused"}]
  /\ wait \in WaitFrame
  /\ closing \in [Closer -> {"no", "marked", "notified", "telling", "done"}]
  /\ strong \subseteq Holder
  /\ dropped \in BOOLEAN

(* Whoever is inside a call holds a reference, and Drop starts when nobody *)
(* holds one any more.                                                     *)
References ==
  /\ \A t \in Producer : push[t] # "idle" => t \in strong
  /\ \A x \in {"host", "class"} : closing[x] \notin {"no", "done"} => x \in strong
  /\ closing["drop"] # "no" => strong = {}
  /\ dropped => closing["drop"] = "done"

SlotAgrees ==
  /\ \A p, q \in Poll : at[p] # "idle" /\ at[q] # "idle" => p = q
  /\ \A p \in Poll :
       /\ phase[p] = "parked" <=> slot = p
       /\ at[p] \in {"idle", "entered", "active", "empty", "ready", "closed"} => phase[p] = "fresh"
       /\ at[p] \in {"parked", "taking", "refused"} => phase[p] # "fresh"

(* A closed stream has a closed slot, or an unsubscribe that has still to  *)
(* close it; and whoever was told of the end was told the truth.           *)
EndComes ==
  /\ active \/ slot = "Cancelled" \/ \E x \in Closer : closing[x] \in {"marked", "notified"}
  /\ slot = "Cancelled" => ~active
  /\ \A x \in Closer : closing[x] # "no" => ~active
  /\ closing["drop"] \in {"telling", "done"} => slot = "Cancelled"
  /\ wait.answer = "Unsubscribed" => ~active
  /\ \A p \in Poll : signal[p] = "cancelled" \/ at[p] = "closed" => ~active

(* A continuation that was claimed is run by its own poll, or by a call    *)
(* that does not return before.                                            *)
RunnerStays ==
  \A p \in Poll : phase[p] = "claimed" =>
    \/ at[p] \in {"taking", "refused"}
    \/ by[p] \in Producer /\ push[by[p]] = "leaving"
    \/ by[p] \in Closer /\ closing[by[p]] = "telling"

(* A poll that counted no events, or parked, has a wake coming, or its     *)
(* effect waits in the slot.                                               *)
WakeComes ==
  \A p \in Poll : at[p] = "empty" \/ phase[p] = "parked" =>
    \/ queue = <<>>
    \/ \E t \in Producer : push[t] \in {"accepted", "notified"}
    \/ at[p] = "empty" /\ slot \in {"Waked", "Cancelled"}

SubscriptionInv == Shape /\ References /\ SlotAgrees /\ EndComes /\ RunnerStays /\ WakeComes

-----------------------------------------------------------------------------
(* The fields of a wait are set one at a time, or all at once.             *)
LEMMA WaitsFrame ==
  ASSUME wait \in WaitFrame,
         NEW l \in {"entered", "active", "locked", "testing", "tested", "asleep",
                    "timedOut", "woken", "counting"},
         Waits(l)
  PROVE  wait' \in WaitFrame /\ wait'.at = l /\ wait'.answer = wait.answer
  BY DEF WaitFrame, Waits

LEMMA AnswersFrame ==
  ASSUME NEW a \in {"none", "EventsAvailable", "Timeout", "Unsubscribed"}, WaitAnswers(a)
  PROVE  wait' \in WaitFrame /\ wait'.at = "idle" /\ wait'.answer = a
  BY DEF WaitFrame, WaitAnswers

(* A wait answers Unsubscribed of a closed stream, and EventsAvailable     *)
(* when it sees some.                                                      *)
WaitStep == RunWait \/ SpuriousWakeup \/ WaitCall

LEMMA WaitSteps ==
  ASSUME WaitStep, wait \in WaitFrame
  PROVE  /\ wait' \in WaitFrame
         /\ wait'.answer = "Unsubscribed" => wait.answer = "Unsubscribed" \/ ~active
         /\ wait'.at = "idle" /\ wait'.answer = "EventsAvailable" => available_count > 0
         /\ UNCHANGED <<ringVars, slotVars, active, push, at, closing, refVars>>
         /\ touched' = touched \/ touched' = (touched \/ dropped)
<1> USE WaitsFrame, AnswersFrame DEF InWait, Touch
<1>1. CASE WaitReadsActive
  BY <1>1 DEF WaitReadsActive
<1>2. CASE WaitReadsCount
  BY <1>2 DEF WaitReadsCount
<1>3. CASE WaitTestsActive \/ WaitTestsEmpty \/ WaitSleeps
  BY <1>3 DEF WaitTestsActive, WaitTestsEmpty, WaitSleeps
<1>4. CASE TimesOut \/ SpuriousWakeup
  BY <1>4 DEF TimesOut, SpuriousWakeup, Waits, WaitFrame
<1>5. CASE WaitReadsActiveAgain
  BY <1>5 DEF WaitReadsActiveAgain
<1>6. CASE WaitCountsAgain
  BY <1>6 DEF WaitCountsAgain
<1>7. CASE WaitCall
  BY <1>7 DEF WaitCall, WaitFrame
<1>8. QED
  BY <1>1, <1>2, <1>3, <1>4, <1>5, <1>6, <1>7 DEF WaitStep, RunWait

(* One lemma for each operation, which says of each part of the invariant  *)
(* what it rests on.                                                       *)
LEMMA PushUpgradesKeeps ==
  ASSUME SubscriptionInv, NEW t \in Producer, PushUpgrades(t)
  PROVE  SubscriptionInv'
<1> USE NamesAssumption DEF SubscriptionInv, PushUpgrades, MovePush, Touch, ringVars, slotVars,
     refVars
<1>1. Shape'
  <2>1. strong \subseteq Holder /\ t \in Holder
    BY DEF Shape, Holder
  <2>2. push' \in [Producer -> {"idle", "upgraded", "offered", "accepted", "notified", "leaving"}]
    BY DEF Shape
  <2>3. QED
    BY <2>1, <2>2 DEF Shape
<1>2. References'
  BY <1>1 DEF Shape, Closer, References
<1>3. SlotAgrees'
  BY <1>1 DEF Shape, SlotAgrees
<1>4. EndComes'
  BY <1>1 DEF Shape, WaitFrame, Closer, EndComes
<1>5. RunnerStays'
  BY <1>1 DEF Shape, Closer, RunnerStays
<1>6. WakeComes'
  BY <1>1 DEF Shape, WakeComes
<1>7. QED
  BY <1>1, <1>2, <1>3, <1>4, <1>5, <1>6

LEMMA PushReadsActiveKeeps ==
  ASSUME SubscriptionInv, NEW t \in Producer, PushReadsActive(t)
  PROVE  SubscriptionInv'
<1> USE NamesAssumption DEF SubscriptionInv, PushReadsActive, MovePush, Ring!Offer, Touch,
     ringVars, slotVars, refVars
<1>1. Shape'
  BY DEF Shape, WaitFrame, Closer, Holder
<1>2. References'
  BY <1>1 DEF Shape, Closer, References
<1>3. SlotAgrees'
  BY <1>1 DEF Shape, SlotAgrees
<1>4. EndComes'
  BY <1>1 DEF Shape, WaitFrame, Closer, EndComes
<1>5. RunnerStays'
  BY <1>1 DEF Shape, Closer, RunnerStays
<1>6. WakeComes'
  BY <1>1 DEF Shape, WakeComes
<1>7. QED
  BY <1>1, <1>2, <1>3, <1>4, <1>5, <1>6

LEMMA PushToRingKeeps ==
  ASSUME SubscriptionInv, NEW t \in Producer, PushToRing(t)
  PROVE  SubscriptionInv'
<1> USE NamesAssumption DEF SubscriptionInv, PushToRing, MovePush, Ring!Accept, Ring!Refuse,
     Touch, ringVars, slotVars, refVars
<1>1. Shape'
  <2>1. queue' \in Seq(Event)
    <3>1. queue \in Seq(Event)
      BY DEF Shape
    <3>2. CASE Ring!Accept(t)
      BY <3>1, <3>2, AppendProperties
    <3>3. CASE Ring!Refuse(t)
      BY <3>1, <3>3
    <3>4. QED
      BY <3>2, <3>3
  <2>2. push' \in [Producer -> {"idle", "upgraded", "offered", "accepted", "notified", "leaving"}]
    BY DEF Shape
  <2>3. QED
    BY <2>1, <2>2 DEF Shape
<1>2. References'
  BY <1>1 DEF Shape, Closer, References
<1>3. SlotAgrees'
  BY <1>1 DEF Shape, SlotAgrees
<1>4. EndComes'
  BY <1>1 DEF Shape, WaitFrame, Closer, EndComes
<1>5. RunnerStays'
  BY <1>1 DEF Shape, Closer, RunnerStays
<1>6. WakeComes'
  BY <1>1 DEF Shape, WakeComes
<1>7. QED
  BY <1>1, <1>2, <1>3, <1>4, <1>5, <1>6

LEMMA PushNotifiesKeeps ==
  ASSUME SubscriptionInv, NEW t \in Producer, PushNotifies(t)
  PROVE  SubscriptionInv'
<1> USE NamesAssumption DEF SubscriptionInv, PushNotifies, MovePush, Notify, Touch, ringVars,
     slotVars, refVars
<1>1. Shape'
  BY DEF Shape, WaitFrame, Closer, Holder
<1>2. References'
  BY <1>1 DEF Shape, Closer, References
<1>3. SlotAgrees'
  BY <1>1 DEF Shape, SlotAgrees
<1>4. EndComes'
  BY <1>1 DEF Shape, WaitFrame, Closer, EndComes
<1>5. RunnerStays'
  BY <1>1 DEF Shape, Closer, RunnerStays
<1>6. WakeComes'
  BY <1>1 DEF Shape, WakeComes
<1>7. QED
  BY <1>1, <1>2, <1>3, <1>4, <1>5, <1>6

LEMMA PushWakesKeeps ==
  ASSUME SubscriptionInv, NEW t \in Producer, PushWakes(t)
  PROVE  SubscriptionInv'
<1> USE NamesAssumption DEF SubscriptionInv, PushWakes, MovePush, Wake, TakenBy,
     Slot!WakeParked, Slot!BufferWake, Slot!Claim, Touch, ringVars, slotVars, refVars
<1>1. Shape'
  <2>1. push' \in [Producer -> {"idle", "upgraded", "offered", "accepted", "notified", "leaving"}]
    BY DEF Shape
  <2>2. /\ slot' \in {"Empty", "Waked", "Cancelled"} \cup Poll
        /\ phase' \in [Poll -> {"fresh", "parked", "claimed", "delivered"}]
        /\ signal' \in [Poll -> {"none", "wake", "cancelled"}]
    BY DEF Shape
  <2>3. by' \in [Poll -> Closer \cup Producer \cup {"poll"}]
    BY DEF Shape
  <2>4. QED
    BY <2>1, <2>2, <2>3 DEF Shape
<1>2. References'
  BY <1>1 DEF Shape, Closer, References
<1>3. SlotAgrees'
  BY <1>1 DEF Shape, SlotAgrees
<1>4. EndComes'
  BY <1>1 DEF Shape, WaitFrame, Closer, EndComes
<1>5. RunnerStays'
  BY <1>1 DEF Shape, Closer, RunnerStays
<1>6. WakeComes'
  BY <1>1 DEF Shape, WakeComes, SlotAgrees
<1>7. QED
  BY <1>1, <1>2, <1>3, <1>4, <1>5, <1>6

LEMMA PushLeavesKeeps ==
  ASSUME SubscriptionInv, NEW t \in Producer, PushLeaves(t)
  PROVE  SubscriptionInv'
<1> USE NamesAssumption DEF SubscriptionInv, PushLeaves, MovePush, Running, Touch, ringVars,
     slotVars, refVars
<1>1. Shape'
  BY DEF Shape, WaitFrame, Closer, Holder
<1>2. References'
  BY <1>1 DEF Shape, Closer, References
<1>3. SlotAgrees'
  BY <1>1 DEF Shape, SlotAgrees
<1>4. EndComes'
  BY <1>1 DEF Shape, WaitFrame, Closer, EndComes
<1>5. RunnerStays'
  BY <1>1 DEF Shape, Closer, RunnerStays
<1>6. WakeComes'
  BY <1>1 DEF Shape, WakeComes
<1>7. QED
  BY <1>1, <1>2, <1>3, <1>4, <1>5, <1>6

LEMMA PollCallKeeps ==
  ASSUME SubscriptionInv, NEW p \in Poll, PollCall(p), \A q \in Poll : at[q] = "idle"
  PROVE  SubscriptionInv'
<1> USE NamesAssumption DEF SubscriptionInv, PollCall, MovePoll, Touch, ringVars, slotVars, refVars
<1>1. Shape'
  BY DEF Shape, WaitFrame, Closer, Holder
<1>2. References'
  BY <1>1 DEF Shape, Closer, References
<1>3. SlotAgrees'
  BY <1>1 DEF Shape, SlotAgrees
<1>4. EndComes'
  BY <1>1 DEF Shape, WaitFrame, Closer, EndComes
<1>5. RunnerStays'
  BY <1>1 DEF Shape, Closer, RunnerStays
<1>6. WakeComes'
  BY <1>1 DEF Shape, WakeComes
<1>7. QED
  BY <1>1, <1>2, <1>3, <1>4, <1>5, <1>6

LEMMA PollReadsActiveKeeps ==
  ASSUME SubscriptionInv, NEW p \in Poll, PollReadsActive(p)
  PROVE  SubscriptionInv'
<1> USE NamesAssumption DEF SubscriptionInv, PollReadsActive, MovePoll, Touch, ringVars,
     slotVars, refVars
<1>1. Shape'
  BY DEF Shape, WaitFrame, Closer, Holder
<1>2. References'
  BY <1>1 DEF Shape, Closer, References
<1>3. SlotAgrees'
  BY <1>1 DEF Shape, SlotAgrees
<1>4. EndComes'
  BY <1>1 DEF Shape, WaitFrame, Closer, EndComes
<1>5. RunnerStays'
  BY <1>1 DEF Shape, Closer, RunnerStays
<1>6. WakeComes'
  BY <1>1 DEF Shape, WakeComes
<1>7. QED
  BY <1>1, <1>2, <1>3, <1>4, <1>5, <1>6

LEMMA PollReadsCountKeeps ==
  ASSUME SubscriptionInv, NEW p \in Poll, PollReadsCount(p)
  PROVE  SubscriptionInv'
<1> USE NamesAssumption DEF SubscriptionInv, PollReadsCount, MovePoll, available_count, Touch,
     ringVars, slotVars, refVars
<1>1. Shape'
  BY EmptySeq DEF Shape, WaitFrame, Closer, Holder
<1>2. References'
  BY <1>1, EmptySeq DEF Shape, Closer, References
<1>3. SlotAgrees'
  BY <1>1, EmptySeq DEF Shape, SlotAgrees
<1>4. EndComes'
  BY <1>1, EmptySeq DEF Shape, WaitFrame, Closer, EndComes
<1>5. RunnerStays'
  BY <1>1, EmptySeq DEF Shape, Closer, RunnerStays
<1>6. WakeComes'
  BY <1>1, EmptySeq DEF Shape, WakeComes
<1>7. QED
  BY <1>1, <1>2, <1>3, <1>4, <1>5, <1>6

LEMMA PollStoresKeeps ==
  ASSUME SubscriptionInv, NEW p \in Poll, PollStores(p)
  PROVE  SubscriptionInv'
<1> USE NamesAssumption DEF SubscriptionInv, PollStores, MovePoll, Slot!Offers, Slot!Park,
     Slot!TakeBufferedWake, Slot!Refuse, Slot!Claim, Touch, ringVars, slotVars, refVars
<1>1. Shape'
  BY DEF Shape, WaitFrame, Closer, Holder, WakeComes
<1>2. References'
  BY <1>1 DEF Shape, Closer, References
<1>3. SlotAgrees'
  BY <1>1 DEF Shape, SlotAgrees, EndComes
<1>4. EndComes'
  BY <1>1 DEF Shape, WaitFrame, Closer, EndComes
<1>5. RunnerStays'
  <2>1. UNCHANGED <<by, push, closing>>
    OBVIOUS
  <2>2. phase'[p] = "claimed" => at'[p] \in {"taking", "refused"}
    BY DEF Shape
  <2>3. \A q \in Poll : q # p => phase'[q] = phase[q] /\ at'[q] = at[q]
    BY DEF Shape
  <2>4. QED
    BY <2>1, <2>2, <2>3 DEF RunnerStays
<1>6. WakeComes'
  BY <1>1 DEF Shape, WakeComes, SlotAgrees
<1>7. QED
  BY <1>1, <1>2, <1>3, <1>4, <1>5, <1>6

LEMMA DeliverKeeps ==
  ASSUME SubscriptionInv, NEW p \in Poll, Deliver(p)
  PROVE  SubscriptionInv'
<1> USE NamesAssumption DEF SubscriptionInv, Deliver, Slot!Deliver, Touch, ringVars, slotVars,
     refVars
<1>1. Shape'
  BY DEF Shape, WaitFrame, Closer, Holder
<1>2. References'
  BY <1>1 DEF Shape, Closer, References
<1>3. SlotAgrees'
  BY <1>1 DEF Shape, SlotAgrees
<1>4. EndComes'
  BY <1>1 DEF Shape, WaitFrame, Closer, EndComes
<1>5. RunnerStays'
  BY <1>1 DEF Shape, Closer, RunnerStays
<1>6. WakeComes'
  BY <1>1 DEF Shape, WakeComes
<1>7. QED
  BY <1>1, <1>2, <1>3, <1>4, <1>5, <1>6

LEMMA ForgetKeeps ==
  ASSUME SubscriptionInv, NEW p \in Poll, Heard(p) # "none", Forget(p),
         UNCHANGED <<ringVars, active, push, wait, closing, refVars>>
  PROVE  SubscriptionInv'
<1> USE NamesAssumption DEF SubscriptionInv, Forget, Heard, Touch, ringVars, slotVars, refVars
<1>1. Shape'
  BY DEF Shape, WaitFrame, Closer, Holder
<1>2. References'
  BY <1>1 DEF Shape, Closer, References
<1>3. SlotAgrees'
  BY <1>1 DEF Shape, SlotAgrees
<1>4. EndComes'
  BY <1>1 DEF Shape, WaitFrame, Closer, EndComes
<1>5. RunnerStays'
  BY <1>1 DEF Shape, Closer, RunnerStays
<1>6. WakeComes'
  BY <1>1 DEF Shape, WakeComes
<1>7. QED
  BY <1>1, <1>2, <1>3, <1>4, <1>5, <1>6

LEMMA PopTakesKeeps ==
  ASSUME SubscriptionInv, PopTakes
  PROVE  SubscriptionInv'
<1> USE NamesAssumption DEF SubscriptionInv, PopTakes, Ring!Take, Touch, ringVars, slotVars, refVars
<1>1. Shape'
  <2>1. queue \in Seq(Event)
    BY DEF Shape
  <2> DEFINE n == IF Len(queue) < MaxBatch THEN Len(queue) ELSE MaxBatch
  <2>2. n \in Nat /\ n <= Len(queue)
    BY <2>1, SizesAssumption
  <2>3. SubSeq(queue, 1, n) \in Seq(Event)
    BY <2>1, <2>2, ElementOfSeq, SubSeqProperties
  <2>4. SubSeq(queue, n + 1, Len(queue)) \in Seq(Event)
    BY <2>1, <2>2, ElementOfSeq, SubSeqProperties
  <2>5. queue' \in Seq(Event) /\ held' \in Seq(Event)
    BY <2>3, <2>4
  <2>6. QED
    BY <2>5 DEF Shape
<1>2. References'
  BY <1>1 DEF Shape, Closer, References
<1>3. SlotAgrees'
  BY <1>1 DEF Shape, SlotAgrees
<1>4. EndComes'
  BY <1>1 DEF Shape, WaitFrame, Closer, EndComes
<1>5. RunnerStays'
  BY <1>1 DEF Shape, Closer, RunnerStays
<1>6. WakeComes'
  BY <1>1 DEF Shape, WakeComes
<1>7. QED
  BY <1>1, <1>2, <1>3, <1>4, <1>5, <1>6

LEMMA PopReturnsKeeps ==
  ASSUME SubscriptionInv, PopReturns
  PROVE  SubscriptionInv'
<1> USE NamesAssumption DEF SubscriptionInv, PopReturns, Ring!Taken, Touch, ringVars, slotVars,
     refVars
<1>1. Shape'
  BY DEF Shape, WaitFrame, Closer, Holder
<1>2. References'
  BY <1>1 DEF Shape, Closer, References
<1>3. SlotAgrees'
  BY <1>1 DEF Shape, SlotAgrees
<1>4. EndComes'
  BY <1>1 DEF Shape, WaitFrame, Closer, EndComes
<1>5. RunnerStays'
  BY <1>1 DEF Shape, Closer, RunnerStays
<1>6. WakeComes'
  BY <1>1 DEF Shape, WakeComes
<1>7. QED
  BY <1>1, <1>2, <1>3, <1>4, <1>5, <1>6

LEMMA WaitKeeps ==
  ASSUME SubscriptionInv, WaitStep
  PROVE  SubscriptionInv'
<1> USE NamesAssumption DEF SubscriptionInv, ringVars, slotVars, refVars
<1>1. Shape'
  BY WaitSteps DEF Shape, WaitFrame, Closer, Holder
<1>2. References'
  BY <1>1, WaitSteps DEF Shape, Closer, References
<1>3. SlotAgrees'
  BY <1>1, WaitSteps DEF Shape, SlotAgrees
<1>4. EndComes'
  BY <1>1, WaitSteps DEF Shape, WaitFrame, Closer, EndComes
<1>5. RunnerStays'
  BY <1>1, WaitSteps DEF Shape, Closer, RunnerStays
<1>6. WakeComes'
  BY <1>1, WaitSteps DEF Shape, WakeComes
<1>7. QED
  BY <1>1, <1>2, <1>3, <1>4, <1>5, <1>6

LEMMA UnsubscribeMarksKeeps ==
  ASSUME SubscriptionInv, NEW x \in Closer, UnsubscribeMarks(x)
  PROVE  SubscriptionInv'
<1> USE NamesAssumption DEF SubscriptionInv, UnsubscribeMarks, MoveClose, TouchAs, MayClose,
     Touch, ringVars, slotVars, refVars
<1>1. Shape'
  BY DEF Shape, WaitFrame, Closer, Holder
<1>2. References'
  BY <1>1 DEF Shape, Closer, References
<1>3. SlotAgrees'
  BY <1>1 DEF Shape, SlotAgrees
<1>4. EndComes'
  BY <1>1 DEF Shape, WaitFrame, Closer, EndComes
<1>5. RunnerStays'
  BY <1>1 DEF Shape, Closer, RunnerStays
<1>6. WakeComes'
  BY <1>1 DEF Shape, WakeComes
<1>7. QED
  BY <1>1, <1>2, <1>3, <1>4, <1>5, <1>6

LEMMA UnsubscribeNotifiesKeeps ==
  ASSUME SubscriptionInv, NEW x \in Closer, UnsubscribeNotifies(x)
  PROVE  SubscriptionInv'
<1> USE NamesAssumption DEF SubscriptionInv, UnsubscribeNotifies, MoveClose, TouchAs, Notify,
     Touch, ringVars, slotVars, refVars
<1>1. Shape'
  BY DEF Shape, WaitFrame, Closer, Holder
<1>2. References'
  BY <1>1 DEF Shape, Closer, References
<1>3. SlotAgrees'
  BY <1>1 DEF Shape, SlotAgrees
<1>4. EndComes'
  BY <1>1 DEF Shape, WaitFrame, Closer, EndComes
<1>5. RunnerStays'
  BY <1>1 DEF Shape, Closer, RunnerStays
<1>6. WakeComes'
  BY <1>1 DEF Shape, WakeComes
<1>7. QED
  BY <1>1, <1>2, <1>3, <1>4, <1>5, <1>6

LEMMA UnsubscribeCancelsKeeps ==
  ASSUME SubscriptionInv, NEW x \in Closer, UnsubscribeCancels(x)
  PROVE  SubscriptionInv'
<1> USE NamesAssumption DEF SubscriptionInv, UnsubscribeCancels, MoveClose, TouchAs, Cancel,
     TakenBy, Slot!CancelParked, Slot!CancelIdle, Slot!Claim, Touch, ringVars, slotVars, refVars
<1>1. Shape'
  BY DEF Shape, WaitFrame, Closer, Holder
<1>2. References'
  BY <1>1 DEF Shape, Closer, References
<1>3. SlotAgrees'
  BY <1>1 DEF Shape, SlotAgrees
<1>4. EndComes'
  BY <1>1 DEF Shape, WaitFrame, Closer, EndComes
<1>5. RunnerStays'
  BY <1>1 DEF Shape, Closer, RunnerStays
<1>6. WakeComes'
  BY <1>1 DEF Shape, WakeComes
<1>7. QED
  BY <1>1, <1>2, <1>3, <1>4, <1>5, <1>6

LEMMA UnsubscribeReturnsKeeps ==
  ASSUME SubscriptionInv, NEW x \in Closer, UnsubscribeReturns(x)
  PROVE  SubscriptionInv'
<1> USE NamesAssumption DEF SubscriptionInv, UnsubscribeReturns, MoveClose, Running, Touch,
     ringVars, slotVars, refVars
<1>1. Shape'
  BY DEF Shape, WaitFrame, Closer, Holder
<1>2. References'
  BY <1>1 DEF Shape, Closer, References
<1>3. SlotAgrees'
  BY <1>1 DEF Shape, SlotAgrees
<1>4. EndComes'
  BY <1>1 DEF Shape, WaitFrame, Closer, EndComes
<1>5. RunnerStays'
  BY <1>1 DEF Shape, Closer, RunnerStays
<1>6. WakeComes'
  BY <1>1 DEF Shape, WakeComes
<1>7. QED
  BY <1>1, <1>2, <1>3, <1>4, <1>5, <1>6

LEMMA ClassReleasesKeeps ==
  ASSUME SubscriptionInv, ClassReleases
  PROVE  SubscriptionInv'
<1> USE NamesAssumption DEF SubscriptionInv, ClassReleases, Touch, ringVars, slotVars, refVars
<1>1. Shape'
  BY DEF Shape, WaitFrame, Closer, Holder
<1>2. References'
  BY <1>1 DEF Shape, Closer, References
<1>3. SlotAgrees'
  BY <1>1 DEF Shape, SlotAgrees
<1>4. EndComes'
  BY <1>1 DEF Shape, WaitFrame, Closer, EndComes
<1>5. RunnerStays'
  BY <1>1 DEF Shape, Closer, RunnerStays
<1>6. WakeComes'
  BY <1>1 DEF Shape, WakeComes
<1>7. QED
  BY <1>1, <1>2, <1>3, <1>4, <1>5, <1>6

LEMMA FreeKeeps ==
  ASSUME SubscriptionInv, Free, closing["host"] \in {"no", "done"}
  PROVE  SubscriptionInv'
<1> USE NamesAssumption DEF SubscriptionInv, Free, Touch, ringVars, slotVars, refVars
<1>1. Shape'
  BY DEF Shape, WaitFrame, Closer, Holder
<1>2. References'
  BY <1>1 DEF Shape, Closer, References
<1>3. SlotAgrees'
  BY <1>1 DEF Shape, SlotAgrees
<1>4. EndComes'
  BY <1>1 DEF Shape, WaitFrame, Closer, EndComes
<1>5. RunnerStays'
  BY <1>1 DEF Shape, Closer, RunnerStays
<1>6. WakeComes'
  BY <1>1 DEF Shape, WakeComes
<1>7. QED
  BY <1>1, <1>2, <1>3, <1>4, <1>5, <1>6

LEMMA DropsKeeps ==
  ASSUME SubscriptionInv, Drops
  PROVE  SubscriptionInv'
<1> USE NamesAssumption DEF SubscriptionInv, Drops, Touch, ringVars, slotVars, refVars
<1>1. Shape'
  BY DEF Shape, WaitFrame, Closer, Holder
<1>2. References'
  BY <1>1 DEF Shape, Closer, References
<1>3. SlotAgrees'
  BY <1>1 DEF Shape, SlotAgrees
<1>4. EndComes'
  BY <1>1 DEF Shape, WaitFrame, Closer, EndComes
<1>5. RunnerStays'
  BY <1>1 DEF Shape, Closer, RunnerStays
<1>6. WakeComes'
  BY <1>1 DEF Shape, WakeComes
<1>7. QED
  BY <1>1, <1>2, <1>3, <1>4, <1>5, <1>6

LEMMA SubscriptionRust ==
  ASSUME SubscriptionInv, RustSide
  PROVE  SubscriptionInv'
<1>1. ASSUME NEW t \in Producer, PushUpgrades(t) \/ RunPush(t)
      PROVE  SubscriptionInv'
  BY <1>1, PushUpgradesKeeps, PushReadsActiveKeeps, PushToRingKeeps, PushNotifiesKeeps,
     PushWakesKeeps, PushLeavesKeeps DEF RunPush
<1>2. ASSUME NEW p \in Poll, RunPoll(p)
      PROVE  SubscriptionInv'
  BY <1>2, PollReadsActiveKeeps, PollReadsCountKeeps, PollStoresKeeps, DeliverKeeps DEF RunPoll
<1>3. CASE RunWait \/ SpuriousWakeup
  BY <1>3, WaitKeeps DEF WaitStep
<1>4. ASSUME NEW x \in Closer, RunUnsubscribe(x) \/ UnsubscribeMarks(x)
      PROVE  SubscriptionInv'
  BY <1>4, UnsubscribeMarksKeeps, UnsubscribeNotifiesKeeps, UnsubscribeCancelsKeeps,
     UnsubscribeReturnsKeeps, DropsKeeps DEF RunUnsubscribe
<1>5. CASE ClassReleases
  BY <1>5, ClassReleasesKeeps
<1>6. QED
  BY <1>1, <1>2, <1>3, <1>4, <1>5 DEF RustSide, Library, Closer

(* What a step of the Rust side leaves to the host: its reference, its     *)
(* batch, and the events, as long as it holds the subscription.  It uses   *)
(* the handle only inside a call of the host.                              *)
HostIsInside ==
  (\E p \in Poll : InsidePoll(p)) \/ wait.at # "idle" \/ closing["host"] \notin {"no", "done"}

RustLeaves ==
  /\ "host" \in strong <=> "host" \in strong'
  /\ held' = held
  /\ queue # <<>> => queue' # <<>> \/ strong = {}
  /\ \A p \in Poll : (at[p] = "idle" => at'[p] = "idle") /\ (InsidePoll(p)' => InsidePoll(p))
  /\ wait'.at # "idle" => wait.at # "idle"
  /\ wait'.at = "idle" /\ wait'.answer = "EventsAvailable" =>
       wait = wait' \/ (available_count > 0 /\ queue' = queue /\ wait.at # "idle")
  /\ touched' = touched \/ (HostIsInside /\ touched' = (touched \/ dropped))
  /\ closing["host"] = "done" => closing'["host"] = "done"

LEMMA RustPushes ==
  ASSUME SubscriptionInv, NEW t \in Producer, PushUpgrades(t) \/ RunPush(t)
  PROVE  RustLeaves
<1> USE NamesAssumption DEF SubscriptionInv, RustLeaves, InsidePoll, refVars, slotVars, ringVars
<1>1. CASE PushUpgrades(t) \/ PushReadsActive(t)
  BY <1>1 DEF PushUpgrades, PushReadsActive, Ring!Offer
<1>2. CASE PushToRing(t)
  <2>1. CASE Ring!Accept(t)
    <3>1. queue' # <<>>
      BY <2>1, AppendProperties DEF Ring!Accept, Shape
    <3>2. QED
      BY <2>1, <3>1, <1>2 DEF Ring!Accept, PushToRing
  <2>2. CASE Ring!Refuse(t)
    BY <2>2, <1>2 DEF Ring!Refuse, PushToRing
  <2>3. QED
    BY <1>2, <2>1, <2>2 DEF PushToRing
<1>3. CASE PushNotifies(t)
  BY <1>3 DEF PushNotifies, Notify, Shape, WaitFrame
<1>4. CASE PushWakes(t) \/ PushLeaves(t)
  BY <1>4 DEF PushWakes, PushLeaves
<1>5. QED
  BY <1>1, <1>2, <1>3, <1>4 DEF RunPush

LEMMA RustPolls ==
  ASSUME SubscriptionInv, NEW p \in Poll, RunPoll(p)
  PROVE  RustLeaves
<1> USE DEF SubscriptionInv, RustLeaves, HostIsInside, InsidePoll, Touch, MovePoll, refVars,
     ringVars
<1>1. CASE PollReadsActive(p)
  BY <1>1 DEF PollReadsActive, Shape
<1>2. CASE PollReadsCount(p)
  BY <1>2 DEF PollReadsCount, Shape
<1>3. CASE PollStores(p)
  BY <1>3 DEF PollStores, Shape
<1>4. CASE Deliver(p)
  BY <1>4 DEF Deliver
<1>5. QED
  BY <1>1, <1>2, <1>3, <1>4 DEF RunPoll

LEMMA RustWaits ==
  ASSUME SubscriptionInv, RunWait \/ SpuriousWakeup
  PROVE  RustLeaves
<1>1. wait.at # "idle"
  BY DEF RunWait, WaitReadsActive, WaitReadsCount, WaitTestsActive, WaitTestsEmpty, WaitSleeps,
     TimesOut, WaitReadsActiveAgain, WaitCountsAgain, InWait, SpuriousWakeup
<1>2. wait \in WaitFrame
  BY DEF SubscriptionInv, Shape
<1>3. QED
  BY <1>1, <1>2, WaitSteps DEF WaitStep, RustLeaves, HostIsInside, InsidePoll, ringVars,
     slotVars, refVars

LEMMA RustCloses ==
  ASSUME SubscriptionInv, NEW x \in Closer, RunUnsubscribe(x) \/ (x = "class" /\
     UnsubscribeMarks(x))
  PROVE  RustLeaves
<1> USE DEF SubscriptionInv, Shape, Closer, RustLeaves, HostIsInside, InsidePoll, Touch, TouchAs,
        MoveClose, refVars, slotVars, ringVars
<1>1. CASE UnsubscribeMarks(x) /\ x # "host"
  BY <1>1 DEF UnsubscribeMarks
<1>2. CASE UnsubscribeNotifies(x)
  BY <1>2 DEF UnsubscribeNotifies, Notify, WaitFrame
<1>3. CASE UnsubscribeCancels(x) \/ UnsubscribeReturns(x)
  BY <1>3 DEF UnsubscribeCancels, UnsubscribeReturns
<1>4. CASE Drops
  BY <1>4 DEF Drops, References
<1>5. QED
  BY <1>1, <1>2, <1>3, <1>4 DEF RunUnsubscribe

LEMMA RustPromises ==
  ASSUME SubscriptionInv, RustSide
  PROVE  RustLeaves
<1>1. CASE ClassReleases
  BY <1>1, NamesAssumption DEF ClassReleases, RustLeaves, InsidePoll, ringVars, slotVars
<1>2. QED
  BY <1>1, RustPushes, RustPolls, RustWaits, RustCloses DEF RustSide, Library, Closer

-----------------------------------------------------------------------------
(* The general reader is inside one call at a time, and inside none once   *)
(* it freed.                                                               *)
ReaderIsSerial ==
  /\ \A p \in Poll : InsidePoll(p) => reader = "polling"
  /\ \A p \in Poll : at[p] # "idle" => reader \in {"polling", "freed"}
  /\ wait.at # "idle" => reader = "waiting"
  /\ held # <<>> => reader = "popping"

ReaderInv ==
  /\ reader # "freed" <=> "host" \in strong
  /\ ReaderIsSerial
  /\ AvailableIsThere
  /\ NoUseAfterFree

(* A host that holds the subscription finds it there.                      *)
LEMMA HeldIsThere ==
  ASSUME SubscriptionInv, strong # {}
  PROVE  ~dropped
BY DEF SubscriptionInv, References

LEMMA ReaderStep ==
  ASSUME SubscriptionInv, ReaderInv, [HNext]_hostVars
  PROVE  SubscriptionInv' /\ ReaderInv'
<1> USE DEF ReaderInv, ReaderIsSerial, AvailableIsThere, NoUseAfterFree
<1>1. CASE RustSide /\ UNCHANGED <<reader, answer>>
  <2>1. SubscriptionInv' /\ RustLeaves
    BY <1>1, SubscriptionRust, RustPromises
  <2>2. HostIsInside => ~dropped
    BY HeldIsThere DEF HostIsInside, SubscriptionInv, References
  <2>3. ~touched'
    BY <2>1, <2>2 DEF RustLeaves
  <2>4. AvailableIsThere'
    <3>1. SUFFICES ASSUME reader = "waiting", wait'.at = "idle", wait'.answer = "EventsAvailable"
                   PROVE  queue' # <<>>
      BY <1>1
    <3>2. CASE wait = wait'
      BY <2>1, <3>1, <3>2 DEF RustLeaves
    <3>3. CASE available_count > 0 /\ queue' = queue
      BY <3>1, <3>3 DEF available_count
    <3>4. QED
      BY <2>1, <3>1, <3>2, <3>3 DEF RustLeaves
  <2>5. QED
    BY <1>1, <2>1, <2>3, <2>4 DEF RustLeaves
<1>2. CASE HostUnsubscribes
  <2>1. SubscriptionInv'
    BY <1>2, UnsubscribeMarksKeeps DEF HostUnsubscribes, Closer
  <2>2. QED
    BY <1>2, <2>1, HeldIsThere DEF HostUnsubscribes, UnsubscribeMarks, TouchAs, Touch, InsidePoll,
       ringVars, slotVars, refVars
<1>3. CASE HostFrees
  <2>1. SubscriptionInv'
    BY <1>3, FreeKeeps DEF HostFrees
  <2>2. QED
    BY <1>3, <2>1 DEF HostFrees, Free, InsidePoll, ringVars, slotVars
<1>4. ASSUME NEW p \in Poll, HostPolls(p)
      PROVE  SubscriptionInv' /\ ReaderInv'
  <2>1. SubscriptionInv'
    BY <1>4, PollCallKeeps DEF HostPolls
  <2>2. QED
    BY <1>4, <2>1, HeldIsThere DEF HostPolls, PollCall, MovePoll, Touch, InsidePoll, ringVars,
     refVars,
       SubscriptionInv, Shape
<1>5. ASSUME NEW p \in Poll, HostHears(p)
      PROVE  SubscriptionInv' /\ ReaderInv'
  <2>1. SubscriptionInv'
    BY <1>5, ForgetKeeps DEF HostHears
  <2>2. \A q \in Poll : at'[q] = "idle"
    BY <1>5 DEF HostHears, Forget, Heard, SubscriptionInv, Shape, SlotAgrees
  <2>3. QED
    BY <1>5, <2>1, <2>2 DEF HostHears, InsidePoll, ringVars, refVars
<1>6. CASE HostWaits
  <2>1. SubscriptionInv'
    BY <1>6, WaitKeeps DEF HostWaits, WaitStep
  <2>2. QED
    BY <1>6, <2>1, HeldIsThere DEF HostWaits, WaitCall, InWait, Touch, InsidePoll, ringVars, refVars
<1>7. CASE HostHearsWait
  <2>1. SubscriptionInv'
    BY <1>7 DEF HostHearsWait, vars, ringVars, slotVars, refVars, SubscriptionInv, Shape,
     References,
       SlotAgrees, EndComes, RunnerStays, WakeComes
  <2>2. QED
    BY <1>7, <2>1 DEF HostHearsWait, vars, ringVars, slotVars, refVars, InsidePoll
<1>8. CASE HostPops
  <2>1. SubscriptionInv'
    BY <1>8, PopTakesKeeps DEF HostPops
  <2>2. QED
    BY <1>8, <2>1, HeldIsThere DEF HostPops, PopTakes, Touch, InsidePoll, refVars
<1>9. CASE HostHasBatch
  <2>1. SubscriptionInv'
    BY <1>9, PopReturnsKeeps DEF HostHasBatch
  <2>2. QED
    BY <1>9, <2>1, HeldIsThere DEF HostHasBatch, PopReturns, Ring!Taken, Touch, InsidePoll, refVars
<1>10. CASE UNCHANGED hostVars
  BY <1>10 DEF hostVars, vars, ringVars, slotVars, refVars, SubscriptionInv, Shape, References,
       SlotAgrees, EndComes, RunnerStays, WakeComes, InsidePoll
<1>11. QED
  BY <1>1, <1>2, <1>3, <1>4, <1>5, <1>6, <1>7, <1>8, <1>9, <1>10 DEF HNext, Reads

-----------------------------------------------------------------------------
(* A context has the host's reference until its lifecycle says that it was *)
(* freed, which one thread at most is about to do, after its unsubscribe.  *)
HandleOwned ==
  /\ lifecycle \in 0..3
  /\ term \in [Thread -> {"starting", "out", "request", "unsubscribe", "unsubscribing", "idleCheck",
                          "claimFree", "free", "freeing"}]
  /\ lifecycle # 3 => "host" \in strong /\ \A x \in Thread : term[x] \notin {"free", "freeing"}
  /\ lifecycle \in {2, 3} => closing["host"] = "done"
  /\ \A x \in Thread : term[x] = "free" => "host" \in strong
  /\ \A x, y \in Thread : term[x] = "free" /\ term[y] = "free" => x = y

(* Who drains has set processing and then read an open lifecycle, so that  *)
(* a canceller that comes to finalizeIfIdle sees it busy.                  *)
DrainIsSafe ==
  /\ chain \in {"process", "drain", "popping", "closing", "recheck", "release", "abandoned"} =>
       processing = 1
  /\ chain \in {"drain", "popping"} =>
       /\ lifecycle # 3
       /\ term["chain"] = "out" /\ term["canceller"] # "claimFree"
  /\ term["canceller"] \notin {"starting", "out", "request"} => lifecycle # 0

(* The chain has one poll at a time; one that is abandoned is the last.    *)
ChainIsSerial ==
  /\ current \in Poll
  /\ \A p \in Poll : at[p] # "idle" => chain = "stopped" \/ (chain = "polling" /\ p = current)

ContextInv == HandleOwned /\ DrainIsSafe /\ ChainIsSerial

LEMMA SubscriptionStutters ==
  ASSUME SubscriptionInv, UNCHANGED vars
  PROVE  SubscriptionInv'
BY DEF vars, ringVars, slotVars, refVars, SubscriptionInv, Shape, References, SlotAgrees,
   EndComes, RunnerStays, WakeComes

LEMMA RustStepsContext ==
  ASSUME SubscriptionInv, ContextInv, RustSteps
  PROVE  SubscriptionInv' /\ ContextInv'
<1>1. SubscriptionInv' /\ RustLeaves
  BY SubscriptionRust, RustPromises DEF RustSteps
<1>2. UNCHANGED contextVars
  BY DEF RustSteps
<1>3. ChainIsSerial'
  BY <1>1, <1>2 DEF contextVars, RustLeaves, ContextInv, ChainIsSerial, SubscriptionInv, Shape
<1>4. HandleOwned' /\ DrainIsSafe'
  BY <1>1, <1>2 DEF contextVars, RustLeaves, ContextInv, HandleOwned, DrainIsSafe
<1>5. QED
  BY <1>1, <1>3, <1>4 DEF ContextInv

LEMMA TermClaimsContext ==
  ASSUME SubscriptionInv, ContextInv, NEW x \in Thread, TermClaims(x)
  PROVE  SubscriptionInv' /\ ContextInv'
<1>1. SubscriptionInv'
  BY SubscriptionStutters DEF TermClaims
<1> USE DEF ContextInv, TermClaims, Goto, vars, refVars
<1>2. HandleOwned'
  BY DEF HandleOwned, Thread
<1>3. DrainIsSafe'
  BY DEF HandleOwned, DrainIsSafe, Thread
<1>4. ChainIsSerial'
  BY DEF ChainIsSerial
<1>5. QED
  BY <1>1, <1>2, <1>3, <1>4

LEMMA TermUnsubscribesContext ==
  ASSUME SubscriptionInv, ContextInv, NEW x \in Thread, TermUnsubscribes(x)
  PROVE  SubscriptionInv' /\ ContextInv'
<1>1. SubscriptionInv'
  BY UnsubscribeMarksKeeps DEF TermUnsubscribes, Closer
<1> USE DEF ContextInv, TermUnsubscribes, UnsubscribeMarks, MoveClose, Goto, refVars
<1>2. HandleOwned'
  BY DEF HandleOwned, Thread, SubscriptionInv, Shape, Closer
<1>3. DrainIsSafe'
  BY DEF HandleOwned, DrainIsSafe, Thread
<1>4. ChainIsSerial'
  BY DEF ChainIsSerial
<1>5. QED
  BY <1>1, <1>2, <1>3, <1>4

LEMMA TermMarksContext ==
  ASSUME SubscriptionInv, ContextInv, NEW x \in Thread, TermMarks(x)
  PROVE  SubscriptionInv' /\ ContextInv'
<1>1. SubscriptionInv'
  BY SubscriptionStutters DEF TermMarks
<1> USE DEF ContextInv, TermMarks, Goto, vars, refVars
<1>2. HandleOwned'
  BY DEF HandleOwned, Thread
<1>3. DrainIsSafe'
  BY DEF HandleOwned, DrainIsSafe, Thread
<1>4. ChainIsSerial'
  BY DEF ChainIsSerial
<1>5. QED
  BY <1>1, <1>2, <1>3, <1>4

LEMMA FinalChecksContext ==
  ASSUME SubscriptionInv, ContextInv, NEW x \in Thread, FinalChecks(x)
  PROVE  SubscriptionInv' /\ ContextInv'
<1>1. SubscriptionInv'
  BY SubscriptionStutters DEF FinalChecks
<1> USE DEF ContextInv, FinalChecks, Goto, vars, refVars
<1>2. HandleOwned'
  BY DEF HandleOwned, Thread
<1>3. DrainIsSafe'
  BY DEF HandleOwned, DrainIsSafe, Thread
<1>4. ChainIsSerial'
  BY DEF ChainIsSerial
<1>5. QED
  BY <1>1, <1>2, <1>3, <1>4

LEMMA FinalClaimsContext ==
  ASSUME SubscriptionInv, ContextInv, NEW x \in Thread, FinalClaims(x)
  PROVE  SubscriptionInv' /\ ContextInv'
<1>1. SubscriptionInv'
  BY SubscriptionStutters DEF FinalClaims
<1> USE DEF ContextInv, FinalClaims, Goto, vars, refVars
<1>2. HandleOwned'
  BY DEF HandleOwned, Thread
<1>3. DrainIsSafe'
  BY DEF HandleOwned, DrainIsSafe, Thread
<1>4. ChainIsSerial'
  BY DEF ChainIsSerial
<1>5. QED
  BY <1>1, <1>2, <1>3, <1>4

LEMMA FinalFreesContext ==
  ASSUME SubscriptionInv, ContextInv, NEW x \in Thread, FinalFrees(x)
  PROVE  SubscriptionInv' /\ ContextInv'
<1>1. SubscriptionInv'
  BY FreeKeeps DEF ContextInv, FinalFrees, HandleOwned
<1> USE DEF ContextInv, FinalFrees, Free, Goto
<1>2. HandleOwned'
  BY DEF HandleOwned, Thread
<1>3. DrainIsSafe'
  BY DEF HandleOwned, DrainIsSafe, Thread
<1>4. ChainIsSerial'
  BY DEF ChainIsSerial
<1>5. QED
  BY <1>1, <1>2, <1>3, <1>4

LEMMA FinalFinishesContext ==
  ASSUME SubscriptionInv, ContextInv, NEW x \in Thread, FinalFinishes(x)
  PROVE  SubscriptionInv' /\ ContextInv'
<1>1. SubscriptionInv'
  BY SubscriptionStutters DEF FinalFinishes
<1> USE DEF ContextInv, FinalFinishes, Goto, vars, refVars
<1>2. HandleOwned'
  BY DEF HandleOwned, Thread
<1>3. DrainIsSafe'
  BY DEF HandleOwned, DrainIsSafe, Thread
<1>4. ChainIsSerial'
  BY DEF ChainIsSerial
<1>5. QED
  BY <1>1, <1>2, <1>3, <1>4

LEMMA CancelsContext ==
  ASSUME SubscriptionInv, ContextInv, StartReturns \/ Cancels
  PROVE  SubscriptionInv' /\ ContextInv'
<1>1. SubscriptionInv'
  BY SubscriptionStutters DEF StartReturns, Cancels
<1> USE DEF ContextInv, StartReturns, Cancels, Goto, vars, refVars
<1>2. HandleOwned'
  BY DEF HandleOwned, Thread
<1>3. DrainIsSafe'
  BY DEF HandleOwned, DrainIsSafe, Thread
<1>4. ChainIsSerial'
  BY DEF ChainIsSerial
<1>5. QED
  BY <1>1, <1>2, <1>3, <1>4

LEMMA RegisterReadsContext ==
  ASSUME SubscriptionInv, ContextInv, RegisterReads
  PROVE  SubscriptionInv' /\ ContextInv'
<1>1. SubscriptionInv'
  BY SubscriptionStutters DEF RegisterReads
<1> USE DEF ContextInv, RegisterReads, At, Chain, Goto, vars, refVars
<1>2. HandleOwned'
  BY DEF HandleOwned, Thread
<1>3. DrainIsSafe'
  BY DEF HandleOwned, DrainIsSafe, Thread
<1>4. ChainIsSerial'
  BY DEF ChainIsSerial
<1>5. QED
  BY <1>1, <1>2, <1>3, <1>4

LEMMA RegisterPollsContext ==
  ASSUME SubscriptionInv, ContextInv, NEW p \in Poll, RegisterPolls(p)
  PROVE  SubscriptionInv' /\ ContextInv'
<1>1. SubscriptionInv'
  BY PollCallKeeps DEF ContextInv, RegisterPolls, At, Chain, ChainIsSerial
<1> USE DEF ContextInv, RegisterPolls, PollCall, MovePoll, At, Chain, refVars
<1>2. HandleOwned'
  BY DEF HandleOwned, Thread
<1>3. DrainIsSafe'
  BY DEF HandleOwned, DrainIsSafe, Thread
<1>4. ChainIsSerial'
  BY DEF ChainIsSerial, SubscriptionInv, Shape
<1>5. QED
  BY <1>1, <1>2, <1>3, <1>4

LEMMA CallbackRunsContext ==
  ASSUME SubscriptionInv, ContextInv, CallbackRuns
  PROVE  SubscriptionInv' /\ ContextInv'
<1>1. SubscriptionInv'
  BY ForgetKeeps DEF ContextInv, ChainIsSerial, CallbackRuns
<1> USE DEF ContextInv, CallbackRuns, Forget, At, Chain, refVars
<1>2. HandleOwned'
  BY DEF HandleOwned, Thread
<1>3. DrainIsSafe'
  BY DEF HandleOwned, DrainIsSafe, Thread
<1>4. ChainIsSerial'
  BY DEF ChainIsSerial, SubscriptionInv, Shape
<1>5. QED
  BY <1>1, <1>2, <1>3, <1>4

LEMMA HandleClaimsContext ==
  ASSUME SubscriptionInv, ContextInv, HandleClaims
  PROVE  SubscriptionInv' /\ ContextInv'
<1>1. SubscriptionInv'
  BY SubscriptionStutters DEF HandleClaims
<1> USE DEF ContextInv, HandleClaims, At, Chain, Goto, vars, refVars
<1>2. HandleOwned'
  BY DEF HandleOwned, Thread
<1>3. DrainIsSafe'
  BY DEF HandleOwned, DrainIsSafe, Thread
<1>4. ChainIsSerial'
  BY DEF ChainIsSerial
<1>5. QED
  BY <1>1, <1>2, <1>3, <1>4

LEMMA ProcessReadsContext ==
  ASSUME SubscriptionInv, ContextInv, ProcessReads
  PROVE  SubscriptionInv' /\ ContextInv'
<1>1. SubscriptionInv'
  BY SubscriptionStutters DEF ProcessReads
<1> USE DEF ContextInv, ProcessReads, At, Chain, vars, refVars
<1>2. HandleOwned'
  BY DEF HandleOwned, Thread
<1>3. DrainIsSafe'
  BY DEF HandleOwned, DrainIsSafe, Thread
<1>4. ChainIsSerial'
  BY DEF ChainIsSerial
<1>5. QED
  BY <1>1, <1>2, <1>3, <1>4

LEMMA DrainContext ==
  ASSUME SubscriptionInv, ContextInv, Drain
  PROVE  SubscriptionInv' /\ ContextInv'
<1>1. SubscriptionInv'
  BY PopTakesKeeps DEF Drain
<1> USE DEF ContextInv, Drain, PopTakes, At, Chain, Goto, refVars
<1>2. HandleOwned'
  BY DEF HandleOwned, Thread
<1>3. DrainIsSafe'
  BY DEF HandleOwned, DrainIsSafe, Thread
<1>4. ChainIsSerial'
  BY DEF ChainIsSerial
<1>5. QED
  BY <1>1, <1>2, <1>3, <1>4

LEMMA YieldContext ==
  ASSUME SubscriptionInv, ContextInv, Yield
  PROVE  SubscriptionInv' /\ ContextInv'
<1>1. SubscriptionInv'
  BY PopReturnsKeeps DEF Yield
<1> USE DEF ContextInv, Yield, PopReturns, At, Chain, refVars
<1>2. HandleOwned'
  BY DEF HandleOwned, Thread
<1>3. DrainIsSafe'
  BY DEF HandleOwned, DrainIsSafe, Thread
<1>4. ChainIsSerial'
  BY DEF ChainIsSerial
<1>5. QED
  BY <1>1, <1>2, <1>3, <1>4

LEMMA ProcessEndsContext ==
  ASSUME SubscriptionInv, ContextInv, ProcessEnds
  PROVE  SubscriptionInv' /\ ContextInv'
<1>1. SubscriptionInv'
  BY SubscriptionStutters DEF ProcessEnds
<1> USE DEF ContextInv, ProcessEnds, At, Chain, vars, refVars
<1>2. HandleOwned'
  BY DEF HandleOwned, Thread
<1>3. DrainIsSafe'
  BY DEF HandleOwned, DrainIsSafe, Thread
<1>4. ChainIsSerial'
  BY DEF ChainIsSerial
<1>5. QED
  BY <1>1, <1>2, <1>3, <1>4

LEMMA HandleReleasesContext ==
  ASSUME SubscriptionInv, ContextInv, HandleReleases
  PROVE  SubscriptionInv' /\ ContextInv'
<1>1. SubscriptionInv'
  BY SubscriptionStutters DEF HandleReleases
<1> USE DEF ContextInv, HandleReleases, At, Chain, Goto, vars, refVars
<1>2. HandleOwned'
  BY DEF HandleOwned, Thread
<1>3. DrainIsSafe'
  BY DEF HandleOwned, DrainIsSafe, Thread
<1>4. ChainIsSerial'
  BY DEF ChainIsSerial
<1>5. QED
  BY <1>1, <1>2, <1>3, <1>4

LEMMA HandleReturnsContext ==
  ASSUME SubscriptionInv, ContextInv, HandleReturns
  PROVE  SubscriptionInv' /\ ContextInv'
<1>1. SubscriptionInv'
  BY SubscriptionStutters DEF HandleReturns
<1> USE DEF ContextInv, HandleReturns, At, Chain, Goto, vars, refVars
<1>2. HandleOwned'
  BY DEF HandleOwned, Thread
<1>3. DrainIsSafe'
  BY DEF HandleOwned, DrainIsSafe, Thread
<1>4. ChainIsSerial'
  BY DEF ChainIsSerial
<1>5. QED
  BY <1>1, <1>2, <1>3, <1>4

LEMMA CallbackEndsContext ==
  ASSUME SubscriptionInv, ContextInv, CallbackEnds
  PROVE  SubscriptionInv' /\ ContextInv'
<1>1. SubscriptionInv'
  BY SubscriptionStutters DEF CallbackEnds
<1> USE DEF ContextInv, CallbackEnds, At, vars, refVars
<1>2. HandleOwned'
  BY DEF HandleOwned, Thread
<1>3. DrainIsSafe'
  BY DEF HandleOwned, DrainIsSafe, Thread
<1>4. ChainIsSerial'
  BY DEF ChainIsSerial
<1>5. QED
  BY <1>1, <1>2, <1>3, <1>4

LEMMA AbandonsContext ==
  ASSUME SubscriptionInv, ContextInv, Abandons
  PROVE  SubscriptionInv' /\ ContextInv'
<1>1. SubscriptionInv'
  BY SubscriptionStutters, PopReturnsKeeps DEF Abandons
<1> USE DEF ContextInv, Abandons, PopReturns, At, Chain, vars, refVars
<1>2. HandleOwned'
  BY DEF HandleOwned, Thread
<1>3. DrainIsSafe'
  BY DEF HandleOwned, DrainIsSafe, Thread
<1>4. ChainIsSerial'
  BY DEF ChainIsSerial
<1>5. QED
  BY <1>1, <1>2, <1>3, <1>4

LEMMA ContextStep ==
  ASSUME SubscriptionInv, ContextInv, [SNext]_sVars
  PROVE  SubscriptionInv' /\ ContextInv'
<1>1. CASE RustSteps
  BY <1>1, RustStepsContext
<1>2. ASSUME NEW x \in Thread, RunTerm(x) PROVE SubscriptionInv' /\ ContextInv'
  BY <1>2, TermClaimsContext, TermUnsubscribesContext, TermMarksContext, FinalChecksContext,
     FinalClaimsContext, FinalFreesContext, FinalFinishesContext DEF RunTerm
<1>3. CASE RunChain
  BY <1>3, RegisterReadsContext, RegisterPollsContext, CallbackRunsContext, HandleClaimsContext,
     ProcessReadsContext, DrainContext, YieldContext, ProcessEndsContext, HandleReleasesContext,
     HandleReturnsContext, CallbackEndsContext, AbandonsContext DEF RunChain
<1>4. CASE StartReturns \/ Cancels
  BY <1>4, CancelsContext
<1>5. CASE UNCHANGED sVars
  BY <1>5, SubscriptionStutters DEF ContextInv, HandleOwned, DrainIsSafe, ChainIsSerial, sVars,
     contextVars, vars, refVars
<1>6. QED
  BY <1>1, <1>2, <1>3, <1>4, <1>5 DEF SNext

(* A step of a context stays with its language.                            *)
LEMMA ContextStays ==
  ASSUME SNext PROVE host' = host
<1>1. CASE RustSteps
  BY <1>1 DEF RustSteps, contextVars
<1>2. CASE \E x \in Thread : RunTerm(x)
  BY <1>2 DEF RunTerm, TermClaims, TermUnsubscribes, TermMarks, FinalChecks, FinalClaims,
     FinalFrees, FinalFinishes
<1>3. CASE StartReturns \/ Cancels \/ RunChain
  BY <1>3 DEF StartReturns, Cancels, RunChain, RegisterReads, RegisterPolls, CallbackRuns, HandleClaims,
     ProcessReads, Drain, Yield, ProcessEnds, HandleReleases, HandleReturns, CallbackEnds, Abandons
<1>4. QED
  BY <1>1, <1>2, <1>3 DEF SNext

-----------------------------------------------------------------------------
(* All hosts.  Whichever of the two reads, the other's variables stay as   *)
(* they were in the beginning.                                             *)
StreamInv ==
  /\ SubscriptionInv
  /\ host = "any" => ReaderInv /\ term = Starting /\ chain = "register"
  /\ host # "any" => ContextInv /\ reader = "idle"

LEMMA StreamInitially == StreamInit => StreamInv
<1> SUFFICES ASSUME StreamInit PROVE StreamInv
  OBVIOUS
<1> USE DEF StreamInit, SInit, HInit, Init, Ring!Init, Slot!Init
<1>1. Shape
  <2>1. /\ queue \in Seq(Event) /\ held \in Seq(Event)
        /\ slot \in {"Empty", "Waked", "Cancelled"} \cup Poll
        /\ phase \in [Poll -> {"fresh", "parked", "claimed", "delivered"}]
        /\ signal \in [Poll -> {"none", "wake", "cancelled"}]
        /\ by \in [Poll -> Closer \cup Producer \cup {"poll"}]
    OBVIOUS
  <2>2. /\ active \in BOOLEAN
        /\ push \in [Producer -> {"idle", "upgraded", "offered", "accepted", "notified", "leaving"}]
        /\ at \in [Poll -> {"idle", "entered", "active", "empty", "ready", "closed",
                            "parked", "taking", "refused"}]
        /\ closing \in [Closer -> {"no", "marked", "notified", "telling", "done"}]
    OBVIOUS
  <2>3. wait \in WaitFrame
    BY DEF WaitFrame
  <2>4. strong \subseteq Holder /\ dropped \in BOOLEAN
    BY DEF Holder
  <2>5. QED
    BY <2>1, <2>2, <2>3, <2>4 DEF Shape
<1>2. References /\ EndComes
  BY DEF References, EndComes, Closer
<1>3. SlotAgrees /\ RunnerStays /\ WakeComes
  BY NamesAssumption DEF SlotAgrees, RunnerStays, WakeComes
<1>4. ReaderInv
  BY DEF ReaderInv, ReaderIsSerial, InsidePoll, AvailableIsThere, NoUseAfterFree
<1>5. ContextInv
  BY DEF ContextInv, HandleOwned, DrainIsSafe, ChainIsSerial, Thread, Starting
<1>6. QED
  BY <1>1, <1>2, <1>3, <1>4, <1>5 DEF StreamInv, SubscriptionInv

LEMMA StreamStep == StreamInv /\ [StreamNext]_streamVars => StreamInv'
<1> SUFFICES ASSUME StreamInv, [StreamNext]_streamVars PROVE StreamInv'
  OBVIOUS
<1>1. CASE AnyOnly /\ HNext
  BY <1>1, ReaderStep DEF StreamInv, AnyOnly, contextVars
<1>2. CASE ContextOnly /\ SNext
  BY <1>2, ContextStays, ContextStep DEF StreamInv, ContextOnly
<1>3. CASE UNCHANGED streamVars
  <2>1. ReaderInv => SubscriptionInv' /\ ReaderInv'
    BY <1>3, ReaderStep DEF StreamInv, streamVars, sVars, hostVars
  <2>2. ContextInv => SubscriptionInv' /\ ContextInv'
    BY <1>3, ContextStep DEF StreamInv, streamVars
  <2>3. QED
    BY <1>3, <2>1, <2>2 DEF StreamInv, streamVars, sVars, contextVars
<1>4. QED
  BY <1>1, <1>2, <1>3 DEF StreamNext

-----------------------------------------------------------------------------
(* The bindings without a context.                                         *)

(* The isolate polls only when its last poll was heard, and holds the      *)
(* subscription until the one release that its end or onCancel makes.      *)
DartInv ==
  /\ turn \in {"poll", "polling", "out", "drain", "popping", "close", "unsubscribing"}
  /\ streamActive => turn # "unsubscribing"
  /\ ~streamActive => turn \in {"unsubscribing", "out"}
  /\ streamActive \/ turn = "unsubscribing" => "host" \in strong
  /\ microtask => turn \in {"out", "unsubscribing"}
  /\ \A p \in Poll : at[p] # "idle" => turn \in {"polling", "out", "unsubscribing"} /\ ~microtask
  /\ \A p \in Poll : InsidePoll(p) => turn = "polling"
  /\ wait.at = "idle"

(* JavaScript makes a poll only when it has the answer to the last, and is *)
(* inside none when it disposes.                                           *)
TypeScriptInv ==
  /\ ~closed \/ disposing => "host" \in strong
  /\ disposing => closed
  /\ iterator \in {"poll", "popping"} => ~closed
  /\ \A p \in Poll : at[p] # "idle" => pending /\ iterator = "await"
  /\ \A p \in Poll : InsidePoll(p) => ~closed
  /\ wait.at = "idle"

(* The iterator makes one call at a time, and frees after the last.        *)
CSharpInv ==
  /\ readAll \in {"read", "popping", "yielding", "wait", "waiting", "finally",
                  "unsubscribing", "over"}
  /\ readAll # "over" => "host" \in strong
  /\ wait.at # "idle" => readAll = "waiting"
  /\ \A p \in Poll : at[p] = "idle"

BindingInv ==
  /\ binding = "dart" => DartInv
  /\ binding = "typescript" => TypeScriptInv
  /\ binding = "csharp" => CSharpInv

(* A step of the Rust side, for a host that holds the subscription while   *)
(* it is inside a call.                                                    *)
LEMMA RustUnderHost ==
  ASSUME SubscriptionInv, NoUseAfterFree, RustSide,
         (\E p \in Poll : InsidePoll(p)) \/ wait.at # "idle" => "host" \in strong
  PROVE  /\ SubscriptionInv' /\ NoUseAfterFree'
         /\ "host" \in strong <=> "host" \in strong'
         /\ \A p \in Poll : (at[p] = "idle" => at'[p] = "idle") /\ (InsidePoll(p)' => InsidePoll(p))
         /\ wait'.at # "idle" => wait.at # "idle"
<1>1. SubscriptionInv' /\ RustLeaves
  BY SubscriptionRust, RustPromises
<1>2. HostIsInside => ~dropped
  BY HeldIsThere DEF HostIsInside, SubscriptionInv, References
<1>3. touched' = touched \/ (HostIsInside /\ touched' = (touched \/ dropped))
  BY <1>1 DEF RustLeaves
<1>4. NoUseAfterFree'
  BY <1>2, <1>3 DEF NoUseAfterFree
<1>5. "host" \in strong <=> "host" \in strong'
  BY <1>1 DEF RustLeaves
<1>6. wait'.at # "idle" => wait.at # "idle"
  BY <1>1 DEF RustLeaves
<1>7. \A p \in Poll : (at[p] = "idle" => at'[p] = "idle") /\ (InsidePoll(p)' => InsidePoll(p))
  BY <1>1 DEF RustLeaves
<1>8. QED
  BY <1>1, <1>4, <1>5, <1>6, <1>7

(* The calls of a host that holds the subscription.                        *)
LEMMA CallsUnderHost ==
  ASSUME SubscriptionInv, NoUseAfterFree, "host" \in strong
  PROVE  /\ PopTakes \/ PopReturns => SubscriptionInv' /\ NoUseAfterFree'
                                        /\ UNCHANGED <<strong, at, wait>>
         /\ WaitCall => SubscriptionInv' /\ NoUseAfterFree' /\ UNCHANGED <<strong, at>>
         /\ UnsubscribeMarks("host") => SubscriptionInv' /\ NoUseAfterFree'
                                          /\ UNCHANGED <<strong, at, wait>>
         /\ Free /\ closing["host"] = "done" => SubscriptionInv' /\ NoUseAfterFree'
                                                  /\ UNCHANGED <<at, wait>>
         /\ \A p \in Poll : PollCall(p) /\ (\A q \in Poll : at[q] = "idle") =>
              SubscriptionInv' /\ NoUseAfterFree' /\ UNCHANGED <<strong, wait>>
                /\ \A q \in Poll : at'[q] = IF q = p THEN "entered" ELSE at[q]
<1> USE DEF NoUseAfterFree
<1>1. ~dropped
  BY HeldIsThere
<1>2. ASSUME PopTakes \/ PopReturns
      PROVE  SubscriptionInv' /\ NoUseAfterFree' /\ UNCHANGED <<strong, at, wait>>
  BY <1>1, <1>2, PopTakesKeeps, PopReturnsKeeps DEF PopTakes, PopReturns, Touch, refVars
<1>3. ASSUME WaitCall
      PROVE  SubscriptionInv' /\ NoUseAfterFree' /\ UNCHANGED <<strong, at>>
  BY <1>1, <1>3, WaitKeeps DEF WaitStep, WaitCall, InWait, Touch, refVars
<1>4. ASSUME UnsubscribeMarks("host")
      PROVE  SubscriptionInv' /\ NoUseAfterFree' /\ UNCHANGED <<strong, at, wait>>
  BY <1>1, <1>4, UnsubscribeMarksKeeps DEF UnsubscribeMarks, Closer, TouchAs, Touch, refVars
<1>5. ASSUME Free, closing["host"] = "done"
      PROVE  SubscriptionInv' /\ NoUseAfterFree' /\ UNCHANGED <<at, wait>>
  BY <1>5, FreeKeeps DEF Free
<1>6. ASSUME NEW p \in Poll, PollCall(p), \A q \in Poll : at[q] = "idle"
      PROVE  SubscriptionInv' /\ NoUseAfterFree' /\ UNCHANGED <<strong, wait>>
               /\ \A q \in Poll : at'[q] = IF q = p THEN "entered" ELSE at[q]
  <2>1. SubscriptionInv'
    BY <1>6, PollCallKeeps
  <2>2. NoUseAfterFree' /\ UNCHANGED <<strong, wait>>
    BY <1>1, <1>6 DEF PollCall, Touch, refVars
  <2>3. \A q \in Poll : at'[q] = IF q = p THEN "entered" ELSE at[q]
    BY <1>6 DEF PollCall, MovePoll, SubscriptionInv, Shape
  <2>4. QED
    BY <2>1, <2>2, <2>3
<1>7. QED
  BY <1>2, <1>3, <1>4, <1>5, <1>6

LEMMA HeardUnderHost ==
  ASSUME SubscriptionInv, NEW p \in Poll, Heard(p) # "none", Forget(p),
         UNCHANGED <<ringVars, active, push, wait, closing, refVars, touched>>
  PROVE  /\ SubscriptionInv' /\ UNCHANGED <<strong, wait, touched>>
         /\ \A q \in Poll : at'[q] = "idle"
         /\ at[p] # "idle" /\ ~InsidePoll(p)
<1>1. SubscriptionInv'
  BY ForgetKeeps
<1>2. at[p] # "idle" /\ ~InsidePoll(p)
  BY DEF Heard, InsidePoll, SubscriptionInv, SlotAgrees
<1>3. \A q \in Poll : at'[q] = "idle"
  BY <1>2 DEF Forget, SubscriptionInv, Shape, SlotAgrees
<1>4. QED
  BY <1>1, <1>2, <1>3 DEF refVars

LEMMA DartStep ==
  ASSUME SubscriptionInv, NoUseAfterFree, DartInv, DSNext
  PROVE  SubscriptionInv' /\ NoUseAfterFree' /\ DartInv'
<1> USE DEF DartInv
<1>0. (\E p \in Poll : InsidePoll(p)) \/ wait.at # "idle" => "host" \in strong
  OBVIOUS
<1>1. CASE RustSide /\ UNCHANGED dartStreamVars
  BY <1>0, <1>1, RustUnderHost DEF dartStreamVars
<1>2. ASSUME NEW p \in Poll, DSPolls(p)
      PROVE  SubscriptionInv' /\ NoUseAfterFree' /\ DartInv'
  BY <1>2, CallsUnderHost DEF DSPolls, InsidePoll
<1>3. CASE DSPolled
  <2>1. \A p \in Poll : ~InsidePoll(p)
    BY <1>3 DEF DSPolled, PollIsOver, InsidePoll, Heard, SubscriptionInv, SlotAgrees
  <2>2. SubscriptionInv' /\ NoUseAfterFree'
    BY <1>3, SubscriptionStutters DEF DSPolled, NoUseAfterFree, vars
  <2>3. DartInv'
    BY <1>3, <2>1 DEF DSPolled, vars, refVars, InsidePoll
  <2>4. QED
    BY <2>2, <2>3
<1>4. ASSUME NEW p \in Poll, DSHears(p)
      PROVE  SubscriptionInv' /\ NoUseAfterFree' /\ DartInv'
  BY <1>4, HeardUnderHost DEF DSHears, NoUseAfterFree, InsidePoll
<1>5. CASE DSPops \/ DSHasBatch
  BY <1>5, CallsUnderHost DEF DSPops, DSHasBatch, Drained, InsidePoll
<1>6. CASE DSResumes
  <2>1. SubscriptionInv' /\ NoUseAfterFree'
    BY <1>6, SubscriptionStutters DEF DSResumes, NoUseAfterFree, vars
  <2>2. DartInv'
    BY <1>6 DEF DSResumes, vars, refVars, InsidePoll
  <2>3. QED
    BY <2>1, <2>2
<1>7. CASE DSUnsubscribes
  BY <1>7, CallsUnderHost DEF DSUnsubscribes, InsidePoll
<1>8. CASE DSReleases
  <2>1. "host" \in strong /\ ~streamActive
    BY <1>8 DEF DSReleases
  <2>2. QED
    BY <1>8, <2>1, CallsUnderHost DEF DSReleases, InsidePoll
<1>9. QED
  BY <1>1, <1>2, <1>3, <1>4, <1>5, <1>6, <1>7, <1>8 DEF DSNext, DSTurns

LEMMA TypeScriptStep ==
  ASSUME SubscriptionInv, NoUseAfterFree, TypeScriptInv, TSNext
  PROVE  SubscriptionInv' /\ NoUseAfterFree' /\ TypeScriptInv'
<1> USE DEF TypeScriptInv
<1>0. (\E p \in Poll : InsidePoll(p)) \/ wait.at # "idle" => "host" \in strong
  OBVIOUS
<1>1. CASE TSRustSide
  <2>1. RustSide /\ UNCHANGED typeScriptVars
    BY <1>1 DEF TSRustSide, RustSide
  <2>2. QED
    BY <1>0, <2>1, RustUnderHost DEF typeScriptVars
<1>2. ASSUME UNCHANGED vars
      PROVE  /\ SubscriptionInv' /\ NoUseAfterFree'
             /\ UNCHANGED <<strong, at, wait>>
  BY <1>2, SubscriptionStutters DEF NoUseAfterFree, vars, refVars
<1>3. CASE TSPops
  BY <1>2, <1>3, CallsUnderHost DEF TSPops, InsidePoll
<1>4. CASE TSHasBatch
  BY <1>4, CallsUnderHost DEF TSHasBatch, InsidePoll
<1>5. CASE TSResumes \/ TSAwaits
  BY <1>2, <1>5 DEF TSResumes, TSAwaits, InsidePoll
<1>6. ASSUME NEW p \in Poll, TSPolls(p)
      PROVE  SubscriptionInv' /\ NoUseAfterFree' /\ TypeScriptInv'
  BY <1>6, CallsUnderHost DEF TSPolls, InsidePoll
<1>7. ASSUME NEW p \in Poll, TSWake(p)
      PROVE  SubscriptionInv' /\ NoUseAfterFree' /\ TypeScriptInv'
  BY <1>7, HeardUnderHost DEF TSWake, NoUseAfterFree, InsidePoll
<1>8. CASE TSFrees
  BY <1>8, CallsUnderHost DEF TSFrees, InsidePoll
<1>9. ASSUME Idle
      PROVE  \A p \in Poll : ~InsidePoll(p)
  BY <1>9 DEF Idle, InsidePoll
<1>10. ASSUME TSUnsubscribes, ~closed
       PROVE  SubscriptionInv' /\ NoUseAfterFree' /\ UNCHANGED <<strong, at, wait>>
  BY <1>2, <1>10, CallsUnderHost DEF TSUnsubscribes
<1>11. CASE TSFinally
  <2>1. CASE closed
    BY <1>2, <1>11, <2>1 DEF TSFinally, Disposes, InsidePoll
  <2>2. CASE ~closed
    BY <1>9, <1>10, <1>11, <2>2 DEF TSFinally, Disposes, InsidePoll
  <2>3. QED
    BY <2>1, <2>2
<1>12. CASE OwnerLeaves
  <2>1. CASE ~unsubscribed /\ TSUnsubscribes /\ UNCHANGED <<closed, disposing>>
    <3>1. UnsubscribeMarks("host") /\ "host" \in strong
      BY <2>1 DEF TSUnsubscribes, UnsubscribeMarks, MayClose
    <3>2. QED
      BY <1>12, <2>1, <3>1, CallsUnderHost DEF OwnerLeaves, InsidePoll
  <2>2. CASE ~closed /\ Disposes
    BY <1>9, <1>10, <1>12, <2>2 DEF OwnerLeaves, Disposes, InsidePoll
  <2>3. QED
    BY <1>12, <2>1, <2>2 DEF OwnerLeaves
<1>13. QED
  BY <1>1, <1>3, <1>4, <1>5, <1>6, <1>7, <1>8, <1>11, <1>12 DEF TSNext, TSRuns

LEMMA CSharpStep ==
  ASSUME SubscriptionInv, NoUseAfterFree, CSharpInv, CSNext
  PROVE  SubscriptionInv' /\ NoUseAfterFree' /\ CSharpInv'
<1> USE DEF CSharpInv
<1>0. (\E p \in Poll : InsidePoll(p)) \/ wait.at # "idle" => "host" \in strong
  BY DEF InsidePoll
<1>1. CASE RustSide /\ UNCHANGED csharpStreamVars
  BY <1>0, <1>1, RustUnderHost DEF csharpStreamVars
<1>2. ASSUME UNCHANGED vars
      PROVE  /\ SubscriptionInv' /\ NoUseAfterFree'
             /\ UNCHANGED <<strong, at, wait>>
  BY <1>2, SubscriptionStutters DEF NoUseAfterFree, vars, refVars
<1>3. CASE CSReads \/ CSHasBatch
  BY <1>3, CallsUnderHost DEF CSReads, CSHasBatch
<1>4. CASE CSYields \/ CSWaited \/ CSCancelled
  BY <1>2, <1>4 DEF CSYields, CSWaited, CSCancelled
<1>5. CASE CSWaits
  BY <1>2, <1>5, CallsUnderHost DEF CSWaits
<1>6. CASE CSFinally
  BY <1>6, CallsUnderHost DEF CSFinally
<1>7. QED
  BY <1>1, <1>3, <1>4, <1>5, <1>6 DEF CSNext, CSIterates

-----------------------------------------------------------------------------
(* All hosts and bindings.  Under a binding the variables of the contexts  *)
(* and of the general reader stay as they were in the beginning.           *)
NoContext ==
  /\ host = "any" /\ reader = "idle"
  /\ term = Starting /\ chain = "register"

HostsInv ==
  /\ SubscriptionInv
  /\ binding \in Bindings \cup {"none"}
  /\ binding = "none" => StreamInv
  /\ binding # "none" => NoContext /\ NoUseAfterFree
  /\ BindingInv

LEMMA HostsInitially == HostsInit => HostsInv
<1> SUFFICES ASSUME HostsInit PROVE HostsInv
  OBVIOUS
<1>1. StreamInv /\ SubscriptionInv
  BY StreamInitially DEF HostsInit, StreamInv
<1>2. /\ binding \in Bindings \cup {"none"} /\ (binding # "none" => NoContext /\ NoUseAfterFree)
  BY DEF HostsInit, StreamInit, SInit, HInit, Init, NoContext, NoUseAfterFree
<1>3. \A p \in Poll : at[p] = "idle"
  BY DEF HostsInit, StreamInit, HInit, Init
<1>4. wait.at = "idle" /\ "host" \in strong
  BY DEF HostsInit, StreamInit, HInit, Init
<1>5. BindingInv
  BY <1>3, <1>4 DEF HostsInit, DSInit, TSInit, CSInit, BindingInv, DartInv, TypeScriptInv, CSharpInv,
     InsidePoll
<1>6. QED
  BY <1>1, <1>2, <1>5 DEF HostsInv

LEMMA HostsStep == HostsInv /\ [HostsNext]_hostsVars => HostsInv'
<1> SUFFICES ASSUME HostsInv, [HostsNext]_hostsVars PROVE HostsInv'
  OBVIOUS
<1>1. CASE DriversOnly /\ StreamNext
  <2>1. StreamInv' /\ SubscriptionInv'
    BY <1>1, StreamStep DEF HostsInv, DriversOnly, StreamInv
  <2>2. QED
    BY <1>1, <2>1 DEF HostsInv, DriversOnly, BindingInv
<1>2. ASSUME NEW b \in {"dart", "typescript", "csharp"}, Reader(b), SubscriptionInv', NoUseAfterFree',
             BindingInv'
      PROVE  HostsInv'
  BY <1>2 DEF HostsInv, Reader, NoContext, contextVars
<1>3. CASE DartOnly /\ DSNext
  <2>1. SubscriptionInv' /\ NoUseAfterFree' /\ DartInv'
    BY <1>3, DartStep DEF HostsInv, BindingInv, DartOnly, Reader
  <2>2. QED
    BY <1>2, <1>3, <2>1 DEF BindingInv, DartOnly, Reader
<1>4. CASE TSOnly /\ TSNext
  <2>1. SubscriptionInv' /\ NoUseAfterFree' /\ TypeScriptInv'
    BY <1>4, TypeScriptStep DEF HostsInv, BindingInv, TSOnly, Reader
  <2>2. QED
    BY <1>2, <1>4, <2>1 DEF BindingInv, TSOnly, Reader
<1>5. CASE CSOnly /\ CSNext
  <2>1. SubscriptionInv' /\ NoUseAfterFree' /\ CSharpInv'
    BY <1>5, CSharpStep DEF HostsInv, BindingInv, CSOnly, Reader
  <2>2. QED
    BY <1>2, <1>5, <2>1 DEF BindingInv, CSOnly, Reader
<1>6. CASE UNCHANGED hostsVars
  <2>1. StreamInv => StreamInv'
    BY <1>6, StreamStep DEF hostsVars
  <2>2. SubscriptionInv' /\ UNCHANGED <<vars, at, strong, wait, touched>>
    BY <1>6, SubscriptionStutters DEF HostsInv, hostsVars, streamVars, sVars, vars, refVars
  <2>3. NoContext => NoContext'
    BY <1>6 DEF hostsVars, streamVars, sVars, contextVars, NoContext
  <2>4. BindingInv'
    BY <1>6, <2>2 DEF HostsInv, BindingInv, DartInv, TypeScriptInv, CSharpInv, hostsVars, bindingVars,
       dartStreamVars, typeScriptVars, csharpStreamVars, InsidePoll
  <2>5. QED
    BY <1>6, <2>1, <2>2, <2>3, <2>4 DEF HostsInv, NoUseAfterFree, hostsVars
<1>7. QED
  BY <1>1, <1>3, <1>4, <1>5, <1>6 DEF HostsNext

(* The invariant that the theorems below follow from.                      *)
THEOREM HostsInvariant == HostsSpec => []HostsInv
  BY HostsInitially, HostsStep, PTL DEF HostsSpec

-----------------------------------------------------------------------------
(* How the hosts use the ring and the slot: what the theorems about these  *)
(* two ask of their users.                                                 *)

(* The reader is at the place from which it pops, or has a batch whose     *)
(* room it has still to give back.                                         *)
Pops ==
  \/ binding = "none" /\ host = "any" /\ reader = "draining"
  \/ binding = "none" /\ host # "any" /\ At("drain")
  \/ binding = "dart" /\ turn = "drain"
  \/ binding = "typescript" /\ iterator = "test"
  \/ binding = "csharp" /\ readAll = "read"

Popping ==
  \/ binding = "none" /\ host = "any" /\ reader = "popping"
  \/ binding = "none" /\ host # "any" /\ chain = "popping"
  \/ binding = "dart" /\ turn = "popping"
  \/ binding = "typescript" /\ iterator = "popping"
  \/ binding = "csharp" /\ readAll = "popping"

OnePop == held # <<>> => Popping

OnePush ==
  /\ offer \in [Producer -> Ring!Answer \cup Event]
  /\ \A t, u \in Producer : push[t] # "idle" /\ push[u] # "idle" => t = u
  /\ \A t \in Producer :
       /\ push[t] = "offered" => offer[t] \in Event
       /\ push[t] # "offered" => offer[t] \in Ring!Answer

RingFits == Len(queue) + Len(held) <= Capacity /\ Len(held) <= MaxBatch

RingUse == OnePop /\ OnePush /\ RingFits

(* A step of a host does one thing to the ring at most.                    *)
Uses ==
  /\ \/ RustSide /\ (Popping => Popping')
     \/ Pops /\ PopTakes /\ (held' # <<>> => Popping')
     \/ PopReturns
     \/ UNCHANGED <<ringVars, push>> /\ (Popping => Popping')
  /\ RustSide \/ touched' \in {touched, TRUE, FALSE}

LEMMA ReaderUses ==
  ASSUME binding = "none", host = "any", AnyOnly, HNext, binding' = binding
  PROVE  Uses
<1> USE DEF Uses, Pops, Popping, Touch, TouchAs, AnyOnly, contextVars, ringVars
<1>1. CASE RustSide /\ UNCHANGED <<reader, answer>>
  BY <1>1
<1>2. CASE HostPops
  BY <1>2 DEF HostPops, PopTakes
<1>3. CASE HostHasBatch
  BY <1>3 DEF HostHasBatch, PopReturns
<1>4. CASE HostUnsubscribes \/ HostFrees
  BY <1>4 DEF HostUnsubscribes, UnsubscribeMarks, HostFrees, Free
<1>5. CASE HostWaits \/ HostHearsWait
  BY <1>5 DEF HostWaits, WaitCall, InWait, HostHearsWait, vars
<1>6. ASSUME NEW p \in Poll, HostPolls(p) \/ HostHears(p) PROVE Uses
  BY <1>6 DEF HostPolls, PollCall, HostHears
<1>7. QED
  BY <1>1, <1>2, <1>3, <1>4, <1>5, <1>6 DEF HNext, Reads

LEMMA ContextUses ==
  ASSUME binding = "none", host # "any", SNext, binding' = binding
  PROVE  Uses
<1> USE DEF Uses, Pops, Popping, Touch, TouchAs, At, Chain, Goto
<1>1. CASE RustSteps
  BY <1>1 DEF RustSteps, contextVars
<1>2. CASE Drain
  BY <1>2 DEF Drain, PopTakes
<1>3. CASE Yield
  BY <1>3 DEF Yield, PopReturns
<1>4. CASE Abandons
  BY <1>4 DEF Abandons, PopReturns, vars, ringVars
<1>5. CASE RegisterReads \/ HandleClaims \/ ProcessReads \/ ProcessEnds \/ HandleReleases
             \/ HandleReturns \/ CallbackEnds \/ StartReturns \/ Cancels
  BY <1>5 DEF RegisterReads, HandleClaims, ProcessReads, ProcessEnds, HandleReleases, HandleReturns,
     CallbackEnds, StartReturns, Cancels, vars, ringVars
<1>6. CASE CallbackRuns \/ \E p \in Poll : RegisterPolls(p)
  BY <1>6 DEF CallbackRuns, RegisterPolls, PollCall, ringVars
<1>7. ASSUME NEW x \in Thread, RunTerm(x) PROVE Uses
  BY <1>7 DEF RunTerm, TermClaims, TermUnsubscribes, UnsubscribeMarks, TermMarks, FinalChecks,
     FinalClaims, FinalFrees, Free, FinalFinishes, vars, ringVars
<1>8. QED
  BY <1>1, <1>2, <1>3, <1>4, <1>5, <1>6, <1>7 DEF SNext, RunChain

LEMMA BindingUses ==
  ASSUME \/ DartOnly /\ DSNext
         \/ TSOnly /\ TSNext
         \/ CSOnly /\ CSNext
  PROVE  Uses
<1> USE DEF Uses, Pops, Popping, Touch, TouchAs, Reader
<1>1. CASE DartOnly /\ DSNext
  <2> USE <1>1 DEF DartOnly, dartStreamVars
  <2>1. CASE RustSide /\ UNCHANGED dartStreamVars
    BY <2>1
  <2>2. CASE DSPops \/ DSHasBatch
    BY <2>2 DEF DSPops, DSHasBatch, PopTakes, PopReturns
  <2>3. CASE DSPolled \/ DSResumes \/ DSUnsubscribes \/ DSReleases
    BY <2>3 DEF DSPolled, DSResumes, DSUnsubscribes, UnsubscribeMarks, DSReleases, Free, vars, ringVars
  <2>4. ASSUME NEW p \in Poll, DSPolls(p) \/ DSHears(p) PROVE Uses
    BY <2>4 DEF DSPolls, PollCall, DSHears, ringVars
  <2>5. QED
    BY <2>1, <2>2, <2>3, <2>4 DEF DSNext, DSTurns
<1>2. CASE TSOnly /\ TSNext
  <2> USE <1>2 DEF TSOnly, typeScriptVars
  <2>1. CASE TSRustSide
    BY <2>1 DEF TSRustSide, RustSide
  <2>2. CASE TSPops \/ TSHasBatch
    BY <2>2 DEF TSPops, TSHasBatch, PopTakes, PopReturns, vars, ringVars
  <2>3. CASE TSResumes \/ TSAwaits \/ TSFrees
    BY <2>3 DEF TSResumes, TSAwaits, TSFrees, Free, vars, ringVars
  <2>4. CASE TSFinally \/ OwnerLeaves
    BY <2>4 DEF TSFinally, OwnerLeaves, Disposes, TSUnsubscribes, UnsubscribeMarks, vars, ringVars
  <2>5. ASSUME NEW p \in Poll, TSPolls(p) \/ TSWake(p) PROVE Uses
    BY <2>5 DEF TSPolls, PollCall, TSWake, ringVars
  <2>6. QED
    BY <2>1, <2>2, <2>3, <2>4, <2>5 DEF TSNext, TSRuns
<1>3. CASE CSOnly /\ CSNext
  <2> USE <1>3 DEF CSOnly, csharpStreamVars
  <2>1. CASE RustSide /\ UNCHANGED csharpStreamVars
    BY <2>1
  <2>2. CASE CSReads \/ CSHasBatch
    BY <2>2 DEF CSReads, CSHasBatch, PopTakes, PopReturns
  <2>3. CASE CSYields \/ CSWaits \/ CSWaited \/ CSFinally \/ CSCancelled
    BY <2>3 DEF CSYields, CSWaits, WaitCall, InWait, CSWaited, CSFinally, UnsubscribeMarks, Free,
       CSCancelled, vars, ringVars
  <2>4. QED
    BY <2>1, <2>2, <2>3 DEF CSNext, CSIterates
<1>4. QED
  BY <1>1, <1>2, <1>3

LEMMA HostsUse == HostsInv /\ HostsNext => Uses
<1> SUFFICES ASSUME HostsInv, HostsNext PROVE Uses
  OBVIOUS
<1>1. CASE DriversOnly /\ StreamNext
  BY <1>1, ReaderUses, ContextUses DEF DriversOnly, StreamNext, AnyOnly, ContextOnly
<1>2. QED
  BY <1>1, BindingUses DEF HostsNext

(* Who has a batch holds the subscription.                                 *)
LEMMA PoppingHolds == HostsInv /\ Popping => "host" \in strong
<1> SUFFICES ASSUME HostsInv, Popping PROVE "host" \in strong
  OBVIOUS
<1>1. CASE binding = "none" /\ host = "any" /\ reader = "popping"
  BY <1>1 DEF HostsInv, StreamInv, ReaderInv
<1>2. CASE binding = "none" /\ host # "any" /\ chain = "popping"
  BY <1>2 DEF HostsInv, StreamInv, ContextInv, HandleOwned, DrainIsSafe
<1>3. CASE binding \in {"dart", "typescript", "csharp"}
  BY <1>3 DEF Popping, HostsInv, BindingInv, DartInv, TypeScriptInv, CSharpInv
<1>4. QED
  BY <1>1, <1>2, <1>3 DEF Popping

(* The Rust side pushes, one thread at a time, and Drop discards what is   *)
(* left when nobody is popping.                                            *)
LEMMA RustUsesRing ==
  ASSUME HostsInv, RingUse, RustSide
  PROVE  [Ring!Next]_ringVars /\ OnePush' /\ RingFits' /\ held' = held
<1> USE DEF RingUse, ringVars
<1>0. SubscriptionInv /\ Shape
  BY DEF HostsInv, SubscriptionInv
<1>1. ASSUME UNCHANGED <<ringVars, push>>
      PROVE  [Ring!Next]_ringVars /\ OnePush' /\ RingFits' /\ held' = held
  BY <1>1 DEF OnePush, RingFits
<1>2. ASSUME NEW t \in Producer, PushUpgrades(t) \/ RunPush(t)
      PROVE  [Ring!Next]_ringVars /\ OnePush' /\ RingFits' /\ held' = held
  <2> USE <1>0 DEF OnePush, MovePush, Shape
  <2>1. ASSUME UNCHANGED ringVars,
               NEW l \in {"idle", "upgraded", "accepted", "notified", "leaving"}, MovePush(t, l),
               push[t] # "offered", push[t] # "idle" \/ \A u \in Producer : push[u] = "idle"
        PROVE  [Ring!Next]_ringVars /\ OnePush' /\ RingFits' /\ held' = held
    BY <2>1 DEF RingFits
  <2>2. CASE PushUpgrades(t)
    BY <2>1, <2>2 DEF PushUpgrades
  <2>3. CASE PushReadsActive(t) /\ UNCHANGED ringVars /\ MovePush(t, "leaving")
    BY <2>1, <2>3 DEF PushReadsActive
  <2>4. ASSUME NEW v \in Event, Ring!Offer(t, v), PushReadsActive(t), MovePush(t, "offered")
        PROVE  [Ring!Next]_ringVars /\ OnePush' /\ RingFits' /\ held' = held
    <3>1. [Ring!Next]_ringVars /\ RingFits' /\ held' = held
      BY <2>4 DEF Ring!Next, Ring!Offer, RingFits
    <3>2. /\ offer' = [offer EXCEPT ![t] = v]
          /\ push' = [push EXCEPT ![t] = "offered"]
          /\ push[t] # "idle"
      BY <2>4 DEF Ring!Offer, PushReadsActive
    <3>3. OnePush'
      BY <3>2
    <3>4. QED
      BY <3>1, <3>3
  <2>5. CASE PushToRing(t)
    <3>1. push[t] = "offered" /\ offer[t] \in Event
      BY <2>5 DEF PushToRing
    <3>2. CASE Ring!Accept(t)
      <4>1. queue' = Append(queue, offer[t]) /\ held' = held /\ Len(queue) + Len(held) # Capacity
        BY <3>2 DEF Ring!Accept, Ring!Full
      <4>2. Len(queue') = Len(queue) + 1 /\ Len(queue) \in Nat /\ Len(held) \in Nat
        BY <3>1, <4>1, AppendProperties, LenProperties
      <4>3. RingFits'
        BY <4>1, <4>2, SizesAssumption DEF RingFits
      <4>4. OnePush'
        BY <2>5, <3>1, <3>2 DEF PushToRing, Ring!Accept, Ring!Refuse, Ring!Answer
      <4>5. QED
        BY <3>2, <4>1, <4>3, <4>4 DEF Ring!Next
    <3>3. CASE Ring!Refuse(t)
      <4>1. OnePush'
        BY <2>5, <3>1, <3>3 DEF PushToRing, Ring!Accept, Ring!Refuse, Ring!Answer
      <4>2. QED
        BY <3>3, <4>1 DEF Ring!Next, Ring!Refuse, RingFits
    <3>4. QED
      BY <2>5, <3>2, <3>3 DEF PushToRing
  <2>6. CASE PushNotifies(t) \/ PushWakes(t) \/ PushLeaves(t)
    BY <2>1, <2>6 DEF PushNotifies, PushWakes, PushLeaves
  <2>7. QED
    BY <1>2, <2>2, <2>3, <2>4, <2>5, <2>6 DEF RunPush, PushReadsActive
<1>3. CASE Drops
  <2>1. held = <<>>
    BY <1>0, <1>3, PoppingHolds DEF Drops, SubscriptionInv, References, OnePop
  <2>2. UNCHANGED <<held, offer, push>> /\ queue' = <<>>
    BY <1>3 DEF Drops
  <2>3. Len(<<>>) = 0 /\ Len(held) \in Nat
    BY <2>1
  <2>4. QED
    BY <2>1, <2>2, <2>3, SizesAssumption DEF Ring!Next, Ring!Discard, OnePush, RingFits
<1>4. ASSUME NEW p \in Poll, RunPoll(p) PROVE UNCHANGED <<ringVars, push>>
  BY <1>4 DEF RunPoll, PollReadsActive, PollReadsCount, PollStores, Deliver
<1>5. ASSUME NEW x \in Closer, RunUnsubscribe(x) \/ UnsubscribeMarks(x), ~Drops
      PROVE  UNCHANGED <<ringVars, push>>
  BY <1>5 DEF RunUnsubscribe, UnsubscribeMarks, UnsubscribeNotifies, UnsubscribeCancels,
     UnsubscribeReturns
<1>6. CASE ClassReleases
  BY <1>1, <1>6 DEF ClassReleases
<1>7. CASE RunWait \/ SpuriousWakeup
  BY <1>0, <1>1, <1>7, WaitSteps DEF WaitStep, Shape
<1>8. QED
  BY <1>1, <1>2, <1>3, <1>4, <1>5, <1>6, <1>7 DEF RustSide, Library, Closer

LEMMA PopUsesRing ==
  ASSUME HostsInv, RingUse, PopTakes \/ PopReturns
  PROVE  Ring!Next /\ OnePush' /\ RingFits'
<1> USE DEF RingUse
<1>1. queue \in Seq(Event) /\ held \in Seq(Event)
  BY DEF HostsInv, SubscriptionInv, Shape
<1>2. OnePush'
  BY DEF PopTakes, PopReturns, Ring!Take, Ring!Taken, OnePush
<1>3. CASE PopTakes
  <2> DEFINE n == IF Len(queue) < MaxBatch THEN Len(queue) ELSE MaxBatch
  <2>1. n \in Nat /\ n <= Len(queue) /\ n <= MaxBatch /\ Len(queue) \in Nat
    BY <1>1, SizesAssumption
  <2>2. held = <<>> /\ held' = SubSeq(queue, 1, n) /\ queue' = SubSeq(queue, n + 1, Len(queue))
    BY <1>3 DEF PopTakes, Ring!Take
  <2> HIDE DEF n
  <2>3. Len(held') = n
    BY <1>1, <2>1, <2>2, ElementOfSeq, SubSeqProperties
  <2>4. Len(queue') = Len(queue) - n
    BY <1>1, <2>1, <2>2, ElementOfSeq, SubSeqProperties
  <2>5. Len(held) = 0
    BY <2>2
  <2>6. RingFits'
    BY <2>1, <2>3, <2>4, <2>5, SizesAssumption DEF RingFits
  <2>7. QED
    BY <1>2, <1>3, <2>6 DEF PopTakes, Ring!Next
<1>4. CASE PopReturns
  <2>1. queue' = queue /\ held' = <<>> /\ Len(<<>>) = 0
    BY <1>4 DEF PopReturns, Ring!Taken
  <2>2. Len(queue) \in Nat /\ Len(held) \in Nat
    BY <1>1, LenProperties
  <2>3. RingFits'
    BY <2>1, <2>2, SizesAssumption DEF RingFits
  <2>4. QED
    BY <1>2, <1>4, <2>3 DEF PopReturns, Ring!Next
<1>5. QED
  BY <1>3, <1>4

LEMMA RingStep ==
  ASSUME HostsInv, RingUse, [HostsNext]_hostsVars
  PROVE  RingUse' /\ [Ring!Next]_ringVars
<1> USE DEF RingUse, OnePop
<1>1. CASE RustSide /\ (Popping => Popping')
  BY <1>1, RustUsesRing
<1>2. CASE PopTakes /\ (held' # <<>> => Popping')
  BY <1>2, PopUsesRing
<1>3. CASE PopReturns
  BY <1>3, PopUsesRing DEF PopReturns, Ring!Taken
<1>4. CASE UNCHANGED <<ringVars, push>> /\ (Popping => Popping')
  BY <1>4 DEF ringVars, OnePush, RingFits
<1>5. CASE UNCHANGED hostsVars
  <2>1. UNCHANGED <<ringVars, push>> /\ Popping' = Popping
    BY <1>5 DEF hostsVars, streamVars, sVars, contextVars, bindingVars, dartStreamVars, typeScriptVars,
       csharpStreamVars, vars, Popping
  <2>2. QED
    BY <1>4, <2>1
<1>6. QED
  BY <1>1, <1>2, <1>3, <1>4, <1>5, HostsUse DEF Uses

LEMMA RingInitially == HostsInit => RingUse /\ Ring!Init
<1> SUFFICES ASSUME HostsInit PROVE RingUse /\ Ring!Init
  OBVIOUS
<1>1. Ring!Init /\ push = [t \in Producer |-> "idle"]
  BY DEF HostsInit, StreamInit, HInit, Init
<1>2. OnePop /\ OnePush
  BY <1>1 DEF Ring!Init, Ring!Answer, OnePop, OnePush
<1>3. RingFits
  BY <1>1, SizesAssumption DEF Ring!Init, RingFits
<1>4. QED
  BY <1>1, <1>2, <1>3 DEF RingUse

(* Whichever of the seven reads, the ring is used as it was made for, a    *)
(* bounded queue of one producer and one consumer: a reader that comes to  *)
(* pop has given back the room of its last batch, nobody else pops, a      *)
(* push finds its answer taken, and Drop discards what is left when no     *)
(* batch is out.                                                           *)
THEOREM RingHasOneUserASide ==
  HostsSpec => /\ Ring!Init /\ [][Ring!Next]_ringVars
               /\ [](RingUse /\ (Pops => held = <<>>))
<1>1. HostsInit => RingUse /\ Ring!Init
  BY RingInitially
<1>2. HostsInv /\ RingUse /\ [HostsNext]_hostsVars => RingUse' /\ [Ring!Next]_ringVars
  BY RingStep
<1>3. RingUse /\ Pops => held = <<>>
  BY DEF RingUse, OnePop, Pops, Popping, At
<1>4. QED
  BY <1>1, <1>2, <1>3, HostsInvariant, PTL DEF HostsSpec

(* Every variable of the subscription has its type, and the ring and the   *)
(* batch never hold more than they have room for.                          *)
THEOREM SubscriptionTyped == HostsSpec => []TypeOK
<1>1. HostsInit => touched \in BOOLEAN
  BY DEF HostsInit, StreamInit, HInit, Init
<1>2. HostsInv /\ touched \in BOOLEAN /\ [HostsNext]_hostsVars => (touched \in BOOLEAN)'
  <2> SUFFICES ASSUME HostsInv, touched \in BOOLEAN, [HostsNext]_hostsVars
               PROVE  touched' \in BOOLEAN
    OBVIOUS
  <2>1. CASE RustSide
    BY <2>1, RustPromises DEF HostsInv, RustLeaves
  <2>2. CASE HostsNext /\ ~RustSide
    BY <2>2, HostsUse DEF Uses
  <2>3. CASE UNCHANGED hostsVars
    BY <2>3 DEF hostsVars, streamVars, sVars, vars
  <2>4. QED
    BY <2>1, <2>2, <2>3
<1>3. HostsInv /\ RingUse /\ touched \in BOOLEAN => TypeOK
  <2> SUFFICES ASSUME SubscriptionInv, RingUse, touched \in BOOLEAN PROVE TypeOK
    BY DEF HostsInv
  <2> USE DEF SubscriptionInv, Shape
  <2>1. Len(queue) + Len(held) <= Capacity /\ Len(held) <= MaxBatch
    BY DEF RingUse, RingFits
  <2>2. offer \in [Producer -> Ring!Answer \cup Event]
    BY DEF RingUse, OnePush
  <2>3. /\ wait.at \in {"idle", "entered", "active", "locked", "testing", "tested", "asleep",
                         "timedOut", "woken", "counting"}
        /\ wait.expired \in BOOLEAN
        /\ wait.answer \in {"none", "EventsAvailable", "Timeout", "Unsubscribed"}
    BY DEF WaitFrame
  <2>4. QED
    BY <2>1, <2>2, <2>3 DEF TypeOK
<1>4. QED
  BY <1>1, <1>2, <1>3, RingHasOneUserASide, HostsInvariant, PTL DEF HostsSpec

(* A reader makes its next poll when its last was heard, so one that comes *)
(* to store its continuation is the serial consumer that the theorems      *)
(* about the scheduler are about.                                          *)
THEOREM ReadersOfferOneByOne ==
  HostsSpec => [](\A p \in Poll : at[p] = "empty" => Slot!Offers(p))
<1>1. SubscriptionInv => \A p \in Poll : at[p] = "empty" => Slot!Offers(p)
  BY DEF SubscriptionInv, SlotAgrees, Slot!Offers
<1>2. HostsInv => SubscriptionInv
  BY DEF HostsInv
<1>3. QED
  BY <1>1, <1>2, HostsInvariant, PTL

-----------------------------------------------------------------------------
(* The reader that frees outside of its calls only, and the bindings of    *)
(* Dart, TypeScript and C#, never use a handle that is gone, whichever of  *)
(* pushes, class and host lets go last.                                    *)
THEOREM HandleStaysHeld == HostsSpec => []HandleIsHeld
<1>1. HostsInv => HandleIsHeld
  BY DEF HostsInv, StreamInv, ReaderInv, HandleIsHeld
<1>2. QED
  BY <1>1, HostsInvariant, PTL

(* A wait that answers EventsAvailable has seen events that only the       *)
(* reader itself can take.                                                 *)
THEOREM AvailableIsNoGuess == HostsSpec => []AvailableIsThere
<1>1. HostsInv => AvailableIsThere
  <2>1. HostsInv /\ reader # "idle" => ReaderInv
    BY DEF HostsInv, StreamInv, NoContext
  <2>2. QED
    BY <2>1 DEF ReaderInv, AvailableIsThere
<1>2. QED
  BY <1>1, HostsInvariant, PTL

(* No continuation parks over events, or over the end of the stream,       *)
(* without a push or an unsubscribe that has still to run it: no host is   *)
(* left waiting by a race of its poll with either.                         *)
THEOREM NobodyStaysStranded == HostsSpec => []NobodyIsStranded
<1>1. HostsInv => NobodyIsStranded
  BY NamesAssumption DEF HostsInv, SubscriptionInv, SlotAgrees, WakeComes, EndComes,
     NobodyIsStranded, NoSilentPark, Shape
<1>2. QED
  BY <1>1, HostsInvariant, PTL

(* Closed is told of a closed stream only, and whoever was parked when the *)
(* memory goes has been told before, by a call that held a reference.      *)
THEOREM ClosedIsTold == HostsSpec => []CloseIsTold
<1>1. ASSUME SubscriptionInv PROVE ClosedIsSound
  <2> USE <1>1 DEF SubscriptionInv
  <2>1. ASSUME NEW p \in Poll, Heard(p) = "Closed" PROVE ~active
    BY <2>1 DEF Heard, EndComes, Shape
  <2>2. wait.answer = "Unsubscribed" => ~active
    BY DEF EndComes
  <2>3. ASSUME dropped, NEW p \in Poll, at[p] = "parked" PROVE phase[p] = "delivered"
    <3>1. strong = {} /\ closing["drop"] = "done" /\ slot = "Cancelled"
      BY <2>3 DEF References, EndComes
    <3>2. phase[p] \notin {"fresh", "parked"}
      BY <2>3, <3>1, NamesAssumption DEF SlotAgrees
    <3>3. phase[p] # "claimed"
      BY <2>3, <3>1 DEF RunnerStays, References, Closer
    <3>4. QED
      BY <3>2, <3>3 DEF Shape
  <2>4. QED
    BY <2>1, <2>2, <2>3 DEF ClosedIsSound
<1>2. HostsInv => CloseIsTold
  BY <1>1 DEF HostsInv, CloseIsTold
<1>3. QED
  BY <1>2, HostsInvariant, PTL

(* A context pops only from a subscription that it still holds: a          *)
(* canceller that comes to free finds it processing.                       *)
THEOREM ContextPopsWhatItHolds == HostsSpec => []PopsWhatItHolds
<1>1. HostsInv => PopsWhatItHolds
  <2>1. HostsInv /\ chain # "register" => ContextInv
    BY DEF HostsInv, StreamInv, NoContext
  <2>2. QED
    BY <2>1 DEF ContextInv, HandleOwned, DrainIsSafe, PopsWhatItHolds
<1>2. QED
  BY <1>1, HostsInvariant, PTL

(* Two threads in finalizeIfIdle never free twice.                         *)
THEOREM ContextFreesOnce == HostsSpec => FreesOnce
<1>1. HostsInv => [(\E x \in Thread : FinalFrees(x)) => "host" \in strong]_sVars
  <2> SUFFICES ASSUME HostsInv, NEW x \in Thread, FinalFrees(x) PROVE "host" \in strong
    OBVIOUS
  <2>1. term[x] = "free"
    BY DEF FinalFrees
  <2>2. term # Starting
    BY <2>1 DEF Starting
  <2>3. ContextInv
    BY <2>2 DEF HostsInv, StreamInv, NoContext
  <2>4. QED
    BY <2>1, <2>3 DEF ContextInv, HandleOwned
<1>2. QED
  BY <1>1, HostsInvariant, PTL DEF FreesOnce

-----------------------------------------------------------------------------
(* What the contexts lack.  A context frees between the lines of a poll:   *)
(* registerPoll has read an open lifecycle, or poll has not returned.      *)
PollIsUnderWay == chain = "poll" \/ \E p \in Poll : InsidePoll(p)

FreesBetweenPolls == [][(\E x \in Thread : FinalFrees(x)) => ~PollIsUnderWay]_sVars

(* Once it freed, a context polls no more.                                 *)
FreedIsQuiet ==
  host # "any" => /\ NoUseAfterFree
                  /\ wait.at = "idle"
                  /\ "host" \notin strong => ~PollIsUnderWay

(* A step of the Rust side uses the handle for a poll or an unsubscribe of *)
(* the host only.                                                          *)
LEMMA RustUnderContext ==
  ASSUME SubscriptionInv, host # "any", FreedIsQuiet, RustSteps
  PROVE  FreedIsQuiet'
<1>1. RustLeaves /\ UNCHANGED contextVars
  BY RustPromises DEF RustSteps
<1>2. wait'.at = "idle"
  BY <1>1 DEF RustLeaves, FreedIsQuiet
<1>3. "host" \notin strong' => ~PollIsUnderWay'
  BY <1>1 DEF RustLeaves, FreedIsQuiet, PollIsUnderWay, contextVars
<1>4. HostIsInside => "host" \in strong
  BY DEF HostIsInside, FreedIsQuiet, PollIsUnderWay, SubscriptionInv, References
<1>5. touched' = touched \/ (~dropped /\ touched' = (touched \/ dropped))
  BY <1>1, <1>4, HeldIsThere DEF RustLeaves
<1>6. QED
  BY <1>2, <1>3, <1>5 DEF FreedIsQuiet, NoUseAfterFree

(* A step of the chain starts a poll or a pop while it holds the           *)
(* subscription.                                                           *)
LEMMA ChainUnderContext ==
  ASSUME SubscriptionInv, ContextInv, host # "any", FreedIsQuiet, RunChain
  PROVE  FreedIsQuiet'
<1> USE DEF FreedIsQuiet, NoUseAfterFree, PollIsUnderWay, InsidePoll, At, Chain, Touch, vars, refVars
<1>1. "host" \in strong => ~dropped
  BY HeldIsThere
<1>2. lifecycle # 3 => "host" \in strong
  BY DEF ContextInv, HandleOwned
<1>3. chain \in {"drain", "popping"} => ~dropped
  BY <1>1, <1>2 DEF ContextInv, DrainIsSafe
<1>4. CASE RegisterReads
  BY <1>2, <1>4 DEF RegisterReads
<1>5. ASSUME NEW p \in Poll, RegisterPolls(p) PROVE FreedIsQuiet'
  BY <1>1, <1>5 DEF RegisterPolls, PollCall
<1>6. CASE CallbackRuns
  BY <1>6 DEF CallbackRuns, Forget, SubscriptionInv, Shape
<1>7. CASE Drain
  BY <1>3, <1>7 DEF Drain, PopTakes
<1>8. CASE Yield
  BY <1>3, <1>8 DEF Yield, PopReturns
<1>9. CASE Abandons
  BY <1>3, <1>9 DEF Abandons, PopReturns
<1>10. CASE HandleClaims \/ ProcessReads \/ ProcessEnds \/ HandleReleases
  BY <1>10 DEF HandleClaims, ProcessReads, ProcessEnds, HandleReleases
<1>11. CASE HandleReturns \/ CallbackEnds
  BY <1>11 DEF HandleReturns, CallbackEnds
<1>12. QED
  BY <1>4, <1>5, <1>6, <1>7, <1>8, <1>9, <1>10, <1>11 DEF RunChain

(* Whoever ends the stream unsubscribes while it holds the subscription,   *)
(* and frees it once, between polls by assumption.                         *)
LEMMA TermUnderContext ==
  ASSUME SubscriptionInv, ContextInv, host # "any", FreedIsQuiet, NEW x \in Thread, RunTerm(x),
         FinalFrees(x) => ~PollIsUnderWay
  PROVE  FreedIsQuiet'
<1> USE DEF FreedIsQuiet, NoUseAfterFree, PollIsUnderWay, InsidePoll, vars, refVars
<1>1. CASE TermUnsubscribes(x)
  BY <1>1, HeldIsThere DEF TermUnsubscribes, UnsubscribeMarks, MayClose, TouchAs, Touch, Closer
<1>2. CASE FinalFrees(x)
  BY <1>2 DEF FinalFrees, Free, ContextInv, HandleOwned
<1>3. CASE TermClaims(x) \/ TermMarks(x) \/ FinalChecks(x) \/ FinalClaims(x) \/ FinalFinishes(x)
  BY <1>3 DEF TermClaims, TermMarks, FinalChecks, FinalClaims, FinalFinishes
<1>4. QED
  BY <1>1, <1>2, <1>3 DEF RunTerm

(* The one way in which a context of Swift, Kotlin or Java uses a          *)
(* subscription that is gone is the free that meets a poll: while each     *)
(* free falls between two polls, no poll, pop or unsubscribe comes after   *)
(* the memory went, whoever held it last, and there is no second free.     *)
THEOREM ContextsDoNotDangle ==
  HostsSpec /\ FreesBetweenPolls => []NoUseAfterFree
<1>1. HostsInit => FreedIsQuiet
  BY DEF HostsInit, StreamInit, SInit, HInit, Init, FreedIsQuiet, NoUseAfterFree
<1>2. ASSUME HostsInv, FreedIsQuiet, [HostsNext]_hostsVars,
             [(\E x \in Thread : FinalFrees(x)) => ~PollIsUnderWay]_sVars
      PROVE  FreedIsQuiet'
  <2>1. CASE UNCHANGED sVars
    BY <1>2, <2>1 DEF FreedIsQuiet, NoUseAfterFree, PollIsUnderWay, InsidePoll, sVars, contextVars,
       vars, refVars
  <2>2. CASE host = "any"
    BY <1>2, <2>2 DEF HostsNext, DriversOnly, StreamNext, AnyOnly, ContextOnly, DartOnly, TSOnly, CSOnly,
       Reader, contextVars, hostsVars, streamVars, sVars, FreedIsQuiet
  <2>3. CASE host # "any" /\ SNext /\ ~UNCHANGED sVars
    <3>1. SubscriptionInv /\ ContextInv
      BY <1>2, <2>3 DEF HostsInv, StreamInv, NoContext
    <3>2. CASE StartReturns \/ Cancels
      BY <1>2, <3>2 DEF StartReturns, Cancels, FreedIsQuiet, NoUseAfterFree, PollIsUnderWay, InsidePoll, vars, refVars
    <3>3. QED
      BY <1>2, <2>3, <3>1, <3>2, RustUnderContext, ChainUnderContext, TermUnderContext DEF SNext
  <2>4. QED
    BY <1>2, <2>1, <2>2, <2>3 DEF HostsInv, NoContext, HostsNext, DriversOnly, StreamNext, AnyOnly,
       ContextOnly, DartOnly, TSOnly, CSOnly, Reader, hostsVars, streamVars
<1>3. HostsInv /\ FreedIsQuiet => NoUseAfterFree
  BY DEF HostsInv, StreamInv, ReaderInv, FreedIsQuiet
<1>4. QED
  BY <1>1, <1>2, <1>3, HostsInvariant, PTL DEF HostsSpec, FreesBetweenPolls
===============================================================================
