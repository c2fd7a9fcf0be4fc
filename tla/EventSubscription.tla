-------------------------- MODULE EventSubscription --------------------------
(***************************************************************************)
(* One stream subscription (boltffi_core/src/runtime/subscription.rs): the *)
(* Rust threads that push events into it, and poll, pop_batch_into,        *)
(* wait_for_events, unsubscribe and free, which the host calls.  The ring  *)
(* buffer is taken at the level of BoundedFifo, which SpscRingBuffer       *)
(* implements, and the continuation slot at that of ContinuationHandoff,   *)
(* which ContinuationScheduler implements.                                 *)
(*                                                                         *)
(* The subscription lives in an Arc.  The host holds one reference, its    *)
(* raw handle; a push holds one while it runs (StreamProducer keeps a Weak *)
(* and upgrades it); a class that keeps the subscription it returned holds *)
(* one more.  Whoever lets go of the last runs Drop, which unsubscribes.   *)
(*                                                                         *)
(* The module is the operations.  EventSubscriptionHost has the most       *)
(* general host that reads one subscription.                               *)
(***************************************************************************)
EXTENDS Naturals, Sequences

CONSTANTS Producer,   \* threads that push
          Event,
          Poll,       \* names for the polls; a poll that was heard frees its name
          Capacity,   \* of the ring buffer
          MaxBatch,   \* room in the buffer passed to pop_batch_into
          Owned       \* TRUE: the Rust class keeps the subscription too

ASSUME SizesAssumption == Capacity \in Nat \ {0} /\ MaxBatch \in Nat \ {0}
ASSUME OwnedAssumption == Owned \in BOOLEAN
ASSUME NamesAssumption ==
  /\ Producer \cap {"host", "class", "drop", "poll"} = {}
  /\ Poll \cap {"Empty", "Waked", "Cancelled"} = {}

VARIABLES
  queue, held, offer,     \* the ring buffer
  slot, phase, signal,    \* the continuation slot
  by,                     \* the call that runs a continuation out of the slot
  active,                 \* is_active
  push,                   \* where each push_event is
  at,                     \* where each poll is
  wait,                   \* where the call of wait_for_events is
  closing,                \* where each call of unsubscribe is
  strong,                 \* who holds a reference
  dropped,                \* the subscription's memory is gone
  touched                 \* history: the handle was used after that

ringVars == <<queue, held, offer>>
slotVars == <<slot, phase, signal, by>>
refVars == <<strong, dropped>>
vars == <<ringVars, slotVars, active, push, at, wait, closing, refVars, touched>>

Ring == INSTANCE BoundedFifo WITH Limit <- {MaxBatch}
Slot == INSTANCE ContinuationHandoff WITH Continuation <- Poll

Closer == {"host", "class", "drop"}
Holder == {"host", "class"} \cup Producer

TypeOK ==
  /\ queue \in Seq(Event) /\ Len(queue) + Len(held) <= Capacity
  /\ held \in Seq(Event) /\ Len(held) <= MaxBatch
  /\ offer \in [Producer -> Ring!Answer \cup Event]
  /\ slot \in {"Empty", "Waked", "Cancelled"} \cup Poll
  /\ phase \in [Poll -> {"fresh", "parked", "claimed", "delivered"}]
  /\ signal \in [Poll -> {"none", "wake", "cancelled"}]
  /\ by \in [Poll -> Closer \cup Producer \cup {"poll"}]
  /\ active \in BOOLEAN
  /\ push \in [Producer -> {"idle", "upgraded", "offered", "accepted", "notified", "leaving"}]
  /\ at \in [Poll -> {"idle", "entered", "active", "empty", "ready", "closed",
                      "parked", "taking", "refused"}]
  /\ wait.at \in {"idle", "entered", "active", "locked", "testing", "tested", "asleep",
                  "timedOut", "woken", "counting"}
  /\ wait.expired \in BOOLEAN
  /\ wait.answer \in {"none", "EventsAvailable", "Timeout", "Unsubscribed"}
  /\ closing \in [Closer -> {"no", "marked", "notified", "telling", "done"}]
  /\ strong \subseteq Holder
  /\ dropped \in BOOLEAN
  /\ touched \in BOOLEAN

Init ==
  /\ Ring!Init
  /\ Slot!Init
  /\ by = [p \in Poll |-> "poll"]
  /\ active = TRUE
  /\ push = [t \in Producer |-> "idle"]
  /\ at = [p \in Poll |-> "idle"]
  /\ wait = [at |-> "idle", expired |-> FALSE, answer |-> "none"]
  /\ closing = [x \in Closer |-> "no"]
  /\ strong = {"host"} \cup (IF Owned THEN {"class"} ELSE {})
  /\ dropped = FALSE
  /\ touched = FALSE

(* A step of the host that dereferences its handle.                        *)
Touch == touched' = (touched \/ dropped)

available_count == Len(queue) + Len(held)

(* A continuation that a push or an unsubscribe took out of the slot is    *)
(* run by that call before it goes on.                                     *)
Running(x) == \E p \in Poll : by[p] = x /\ phase[p] = "claimed"
TakenBy(x) == by' = IF slot \in Poll THEN [by EXCEPT ![slot] = x] ELSE by

-----------------------------------------------------------------------------
(* push_event.  The ring has room for one producer at a time.              *)

MovePush(t, l) == push' = [push EXCEPT ![t] = l]

PushUpgrades(t) ==
  /\ \A u \in Producer : push[u] = "idle"
  /\ strong # {}
  /\ strong' = strong \cup {t}
  /\ MovePush(t, "upgraded")
  /\ UNCHANGED <<ringVars, slotVars, active, at, wait, closing, dropped, touched>>

PushReadsActive(t) ==
  /\ push[t] = "upgraded"
  /\ IF active THEN (\E v \in Event : Ring!Offer(t, v)) /\ MovePush(t, "offered")
               ELSE UNCHANGED ringVars /\ MovePush(t, "leaving")
  /\ UNCHANGED <<slotVars, active, at, wait, closing, refVars, touched>>

(* Mutant: the ring takes events without looking for room.                 *)
PushToRingAnyway(t) ==
  /\ push[t] = "offered"
  /\ queue' = Append(queue, offer[t])
  /\ offer' = [offer EXCEPT ![t] = "accepted"]
  /\ MovePush(t, "accepted")
  /\ UNCHANGED <<held, slotVars, active, at, wait, closing, refVars, touched>>

PushToRing(t) ==
  /\ push[t] = "offered"
  /\ \/ Ring!Accept(t) /\ MovePush(t, "accepted")
     \/ Ring!Refuse(t) /\ MovePush(t, "leaving")
  /\ UNCHANGED <<slotVars, active, at, wait, closing, refVars, touched>>

(* notify_one and notify_all, without the mutex: only a waiter that is     *)
(* already asleep hears them.                                              *)
Notify == wait' = IF wait.at = "asleep" THEN [wait EXCEPT !.at = "locked"] ELSE wait

PushNotifies(t) ==
  /\ push[t] = "accepted"
  /\ Notify
  /\ MovePush(t, "notified")
  /\ UNCHANGED <<ringVars, slotVars, active, at, closing, refVars, touched>>

(* Mutant: an idle slot does not keep the wake.                            *)
WakeForgets ==
  \/ \E p \in Poll : Slot!WakeParked(p)
  \/ slot \notin Poll /\ UNCHANGED <<slot, phase, signal>>

Wake ==
  \/ \E p \in Poll : Slot!WakeParked(p)
  \/ Slot!BufferWake
  \/ slot \in {"Waked", "Cancelled"} /\ UNCHANGED <<slot, phase, signal>>

PushWakes(t) ==
  /\ push[t] = "notified"
  /\ Wake /\ TakenBy(t)
  /\ MovePush(t, "leaving")
  /\ UNCHANGED <<ringVars, active, at, wait, closing, refVars, touched>>

(* Mutant: the push releases one reference more than it took.              *)
PushLeavesTwice(t) ==
  /\ push[t] = "leaving"
  /\ ~Running(t)
  /\ strong' = strong \ {t, "host"}
  /\ MovePush(t, "idle")
  /\ UNCHANGED <<ringVars, slotVars, active, at, wait, closing, dropped, touched>>

PushLeaves(t) ==
  /\ push[t] = "leaving"
  /\ ~Running(t)
  /\ strong' = strong \ {t}
  /\ MovePush(t, "idle")
  /\ UNCHANGED <<ringVars, slotVars, active, at, wait, closing, dropped, touched>>

-----------------------------------------------------------------------------
(* poll.  The continuation of p is run by the poll itself ("ready",        *)
(* "closed"), or through the slot.                                         *)

MovePoll(p, l) == at' = [at EXCEPT ![p] = l]

PollCall(p) ==
  /\ at[p] = "idle"
  /\ MovePoll(p, "entered")
  /\ Touch
  /\ UNCHANGED <<ringVars, slotVars, active, push, wait, closing, refVars>>

PollReadsActive(p) ==
  /\ at[p] = "entered"
  /\ MovePoll(p, IF active THEN "active" ELSE "closed")
  /\ Touch
  /\ UNCHANGED <<ringVars, slotVars, active, push, wait, closing, refVars>>

PollReadsCount(p) ==
  /\ at[p] = "active"
  /\ MovePoll(p, IF available_count > 0 THEN "ready" ELSE "empty")
  /\ Touch
  /\ UNCHANGED <<ringVars, slotVars, active, push, wait, closing, refVars>>

(* Mutant: parks over a buffered wake.                                     *)
PollStoresOverWake(p) ==
  /\ at[p] = "empty"
  /\ \/ /\ slot \in {"Empty", "Waked"}
        /\ slot' = p
        /\ phase' = [phase EXCEPT ![p] = "parked"]
        /\ UNCHANGED signal
        /\ MovePoll(p, "parked")
     \/ Slot!Refuse(p) /\ MovePoll(p, "refused")
  /\ Touch
  /\ UNCHANGED <<ringVars, by, active, push, wait, closing, refVars>>

PollStores(p) ==
  /\ at[p] = "empty"
  /\ \/ Slot!Park(p) /\ MovePoll(p, "parked")
     \/ Slot!TakeBufferedWake(p) /\ MovePoll(p, "taking")
     \/ Slot!Refuse(p) /\ MovePoll(p, "refused")
  /\ Touch
  /\ UNCHANGED <<ringVars, by, active, push, wait, closing, refVars>>

Deliver(p) ==
  /\ Slot!Deliver(p)
  /\ UNCHANGED <<ringVars, by, active, push, at, wait, closing, refVars, touched>>

(* What the continuation of p told the host, "none" while it did not run.  *)
Heard(p) ==
  CASE at[p] = "ready"                                     -> "Ready"
    [] at[p] = "closed"                                    -> "Closed"
    [] phase[p] = "delivered" /\ signal[p] = "wake"        -> "Ready"
    [] phase[p] = "delivered" /\ signal[p] = "cancelled"   -> "Closed"
    [] OTHER                                               -> "none"

(* The call of poll returns when its continuation is parked or was run.    *)
PollIsOver(p) == at[p] \in {"idle", "parked"} \/ Heard(p) # "none"
InsidePoll(p) == at[p] \in {"entered", "active", "empty"}

(* The host is done with the poll p, and its name may be used again.       *)
Forget(p) ==
  /\ at' = [at EXCEPT ![p] = "idle"]
  /\ phase' = [phase EXCEPT ![p] = "fresh"]
  /\ signal' = [signal EXCEPT ![p] = "none"]
  /\ by' = [by EXCEPT ![p] = "poll"]
  /\ UNCHANGED slot

-----------------------------------------------------------------------------
(* pop_batch_into: the batch is taken, then its room is given back.        *)

PopTakes ==
  /\ Ring!Take(MaxBatch)
  /\ Touch
  /\ UNCHANGED <<slotVars, active, push, at, wait, closing, refVars>>

PopReturns ==
  /\ Ring!Taken
  /\ Touch
  /\ UNCHANGED <<slotVars, active, push, at, wait, closing, refVars>>

-----------------------------------------------------------------------------
(* wait_for_events.  The condition of wait_timeout_while is two loads; the *)
(* waiter holds the mutex from "locked" on, except while it is asleep.     *)

Waits(l) == wait' = [wait EXCEPT !.at = l]

WaitAnswers(a) == wait' = [at |-> "idle", expired |-> FALSE, answer |-> a]

InWait(l) ==
  /\ wait.at = l
  /\ Touch
  /\ UNCHANGED <<ringVars, slotVars, active, push, at, closing, refVars>>

WaitCall ==
  /\ InWait("idle")
  /\ wait' = [at |-> "entered", expired |-> FALSE, answer |-> "none"]

WaitReadsActive ==
  /\ InWait("entered")
  /\ IF active THEN Waits("active") ELSE WaitAnswers("Unsubscribed")

WaitReadsCount ==
  /\ InWait("active")
  /\ IF available_count > 0 THEN WaitAnswers("EventsAvailable") ELSE Waits("locked")

WaitTestsActive ==
  /\ InWait("locked")
  /\ Waits(IF active THEN "testing" ELSE "woken")

WaitTestsEmpty ==
  /\ InWait("testing")
  /\ Waits(IF available_count = 0 THEN "tested" ELSE "woken")

(* The time may be over before the waiter ever sleeps.                     *)
WaitSleeps ==
  /\ InWait("tested")
  /\ \/ ~wait.expired /\ Waits("asleep")
     \/ Waits("timedOut")

(* The condvar wakes a waiter when its time is over, and now and then for  *)
(* no reason.                                                              *)
TimesOut ==
  /\ wait.at = "asleep"
  /\ wait' = [wait EXCEPT !.at = "locked", !.expired = TRUE]
  /\ UNCHANGED <<ringVars, slotVars, active, push, at, closing, refVars, touched>>

SpuriousWakeup ==
  /\ wait.at = "asleep"
  /\ Waits("locked")
  /\ UNCHANGED <<ringVars, slotVars, active, push, at, closing, refVars, touched>>

(* Mutant: a waiter woken by an event answers without counting.            *)
WaitReadsActiveTrusting ==
  \/ /\ InWait("timedOut")
     /\ WaitAnswers(IF active THEN "Timeout" ELSE "Unsubscribed")
  \/ /\ InWait("woken")
     /\ WaitAnswers("EventsAvailable")

WaitReadsActiveAgain ==
  \/ /\ InWait("timedOut")
     /\ WaitAnswers(IF active THEN "Timeout" ELSE "Unsubscribed")
  \/ /\ InWait("woken")
     /\ IF active THEN Waits("counting") ELSE WaitAnswers("Unsubscribed")

WaitCountsAgain ==
  /\ InWait("counting")
  /\ WaitAnswers(IF available_count > 0 THEN "EventsAvailable" ELSE "Timeout")

-----------------------------------------------------------------------------
(* unsubscribe, by the host, by the class that keeps the subscription, or  *)
(* by Drop.                                                                *)

MoveClose(x, l) == closing' = [closing EXCEPT ![x] = l]

MayClose(x) == IF x = "drop" THEN strong = {} ELSE x \in strong

(* Only the host calls through a raw handle.                               *)
TouchAs(x) == IF x = "host" THEN Touch ELSE UNCHANGED touched

UnsubscribeMarks(x) ==
  /\ closing[x] = "no"
  /\ MayClose(x)
  /\ active' = FALSE
  /\ MoveClose(x, "marked")
  /\ TouchAs(x)
  /\ UNCHANGED <<ringVars, slotVars, push, at, wait, refVars>>

UnsubscribeNotifies(x) ==
  /\ closing[x] = "marked"
  /\ Notify
  /\ MoveClose(x, "notified")
  /\ TouchAs(x)
  /\ UNCHANGED <<ringVars, slotVars, active, push, at, refVars>>

(* Mutant: closes the slot without running what is parked in it.           *)
CancelSilent == slot' = "Cancelled" /\ UNCHANGED <<phase, signal>>

Cancel ==
  \/ \E p \in Poll : Slot!CancelParked(p)
  \/ Slot!CancelIdle
  \/ slot = "Cancelled" /\ UNCHANGED <<slot, phase, signal>>

UnsubscribeCancels(x) ==
  /\ closing[x] = "notified"
  /\ Cancel /\ TakenBy(x)
  /\ MoveClose(x, "telling")
  /\ TouchAs(x)
  /\ UNCHANGED <<ringVars, active, push, at, wait, refVars>>

UnsubscribeReturns(x) ==
  /\ closing[x] = "telling"
  /\ ~Running(x)
  /\ MoveClose(x, "done")
  /\ UNCHANGED <<ringVars, slotVars, active, push, at, wait, refVars, touched>>

(* The class lets go of the subscription between two of its own calls.     *)
ClassReleases ==
  /\ "class" \in strong
  /\ closing["class"] \in {"no", "done"}
  /\ strong' = strong \ {"class"}
  /\ UNCHANGED <<ringVars, slotVars, active, push, at, wait, closing, dropped, touched>>

(* The free export drops the host's reference: once, or it is a use of a   *)
(* handle that is gone.                                                    *)
Free ==
  /\ strong' = strong \ {"host"}
  /\ touched' = (touched \/ "host" \notin strong)
  /\ UNCHANGED <<ringVars, slotVars, active, push, at, wait, closing, dropped>>

(* Mutant: Drop does not unsubscribe first.                                *)
DropsSilently ==
  /\ strong = {} /\ ~dropped
  /\ dropped' = TRUE
  /\ queue' = <<>>
  /\ UNCHANGED <<held, offer, slotVars, active, push, at, wait, closing, strong, touched>>

(* After the unsubscribe of Drop the fields go, the ring with its events.  *)
Drops ==
  /\ closing["drop"] = "done" /\ ~dropped
  /\ dropped' = TRUE
  /\ queue' = <<>>
  /\ UNCHANGED <<held, offer, slotVars, active, push, at, wait, closing, strong, touched>>

-----------------------------------------------------------------------------
RunPush(t) ==
  PushReadsActive(t) \/ PushToRing(t) \/ PushNotifies(t) \/ PushWakes(t) \/ PushLeaves(t)

RunPoll(p) == PollReadsActive(p) \/ PollReadsCount(p) \/ PollStores(p) \/ Deliver(p)

RunWait ==
  \/ WaitReadsActive \/ WaitReadsCount \/ WaitTestsActive \/ WaitTestsEmpty
  \/ WaitSleeps \/ TimesOut \/ WaitReadsActiveAgain \/ WaitCountsAgain

RunUnsubscribe(x) ==
  \/ UnsubscribeNotifies(x) \/ UnsubscribeCancels(x) \/ UnsubscribeReturns(x)
  \/ x = "drop" /\ (UnsubscribeMarks(x) \/ Drops)

Library ==
  \/ \E t \in Producer : RunPush(t)
  \/ \E p \in Poll : RunPoll(p)
  \/ RunWait
  \/ \E x \in Closer : RunUnsubscribe(x)

RustSide ==
  \/ Library
  \/ SpuriousWakeup
  \/ \E t \in Producer : PushUpgrades(t)
  \/ UnsubscribeMarks("class")
  \/ ClassReleases

(* A thread inside the library goes on.  Nobody is obliged to push or to   *)
(* unsubscribe, nor the condvar to wake without a reason.  Time passes     *)
(* whatever wakes the waiter in between: each sleep is for what is left.   *)
LibraryFairness ==
  /\ \A t \in Producer : WF_vars(RunPush(t))
  /\ \A p \in Poll : WF_vars(RunPoll(p))
  /\ WF_vars(RunWait) /\ SF_vars(TimesOut)
  /\ \A x \in Closer : WF_vars(RunUnsubscribe(x))

-----------------------------------------------------------------------------
(* The host's raw handle is not counted: no call of the host runs once the *)
(* last reference is gone.                                                 *)
NoUseAfterFree == ~touched

(* poll counts the events before it parks, push wakes after it published:  *)
(* no continuation stays parked over events unless the push that brought   *)
(* them has still to wake it, or an unsubscribe has still to close it.     *)
NoSilentPark ==
  \A p \in Poll : phase[p] = "parked" =>
    /\ queue = <<>> \/ \E t \in Producer : push[t] \in {"accepted", "notified"}
    /\ active \/ \E x \in Closer : closing[x] \in {"marked", "notified"}

(* The host is told Closed only when somebody unsubscribed, and a          *)
(* continuation still parked when the memory goes was told.                *)
ClosedIsSound ==
  /\ \A p \in Poll : Heard(p) = "Closed" => ~active
  /\ wait.answer = "Unsubscribed" => ~active
  /\ dropped => \A p \in Poll : at[p] = "parked" => phase[p] = "delivered"
=============================================================================
