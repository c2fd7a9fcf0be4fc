------------------------ MODULE ContinuationScheduler ------------------------
(***************************************************************************)
(* The lock-free slot of boltffi_core/src/runtime/continuation.rs that     *)
(* both the futures and the event streams of the runtime park their host   *)
(* continuation in.  Threads call store_continuation, wake and cancel; a   *)
(* step is one atomic access, so `state`, `callback_ptr` and               *)
(* `callback_data`, three separate atomics, can be seen apart.             *)
(*                                                                         *)
(* A continuation is one call of store_continuation: its callback pointer  *)
(* and its callback data are both represented by the continuation itself,  *)
(* so reading the pointer of one and the data of another is visible.       *)
(***************************************************************************)
EXTENDS Naturals

CONSTANTS Thread,        \* threads that can be inside the scheduler
          Continuation,  \* one per call of store_continuation
          Null,          \* the null callback pointer
          MayDisplace    \* TRUE: the consumer stores without waiting for the
                         \* previous continuation to be run

ASSUME NullAssumption == Null \notin Continuation
ASSUME DisplaceAssumption == MayDisplace \in BOOLEAN

VARIABLES
  state, callback_ptr, callback_data,  \* the three atomics
  call,                                \* what each thread is doing in there
  issued, invoked, told, torn, owed    \* history: see below

(* History, never read by the code: `issued` are the continuations handed  *)
(* to the scheduler, `invoked` and `told` how often and with what signal   *)
(* each was run, `torn` whether a callback ran with another's data, `owed` *)
(* whether a wake was called since the last time a continuation was run.   *)

shared  == <<state, callback_ptr, callback_data>>
history == <<issued, invoked, told, torn, owed>>
vars    == <<shared, call, history>>

SlotState == {"Empty", "Waked", "Stored", "Cancelled"}
Op        == {"store", "wake", "cancel"}
Label     == {"idle", "read", "cas", "writeData", "writePtr",
              "loadPtr", "loadData", "invoke"}
Signal    == {"displaced", "wake", "cancelled"}
Cell      == Continuation \cup {Null}

(* A thread's call: where it is, the state it last read, the continuation  *)
(* it stores, and the pointer and data it is about to invoke.              *)
Frame == [at : Label, op : Op, seen : SlotState, arg : Cell, ptr : Cell, data : Cell]

Idle == [at |-> "idle", op |-> "wake", seen |-> "Empty",
         arg |-> Null, ptr |-> Null, data |-> Null]

TypeOK ==
  /\ state \in SlotState
  /\ callback_ptr \in Cell
  /\ callback_data \in Cell
  /\ call \in [Thread -> Frame]
  /\ issued \in SUBSET Continuation
  /\ invoked \in [Continuation -> Nat]
  /\ told \in [Continuation -> Signal \cup {"none"}]
  /\ torn \in BOOLEAN
  /\ owed \in BOOLEAN

Init ==
  /\ state = "Empty"
  /\ callback_ptr = Null
  /\ callback_data = Null
  /\ call = [t \in Thread |-> Idle]
  /\ issued = {}
  /\ invoked = [c \in Continuation |-> 0]
  /\ told = [c \in Continuation |-> "none"]
  /\ torn = FALSE
  /\ owed = FALSE

-----------------------------------------------------------------------------
(* The callers.                                                            *)

Pending(c) == c \in issued /\ invoked[c] = 0

Storing(t) == call[t].at # "idle" /\ call[t].op = "store"

(* The consumers in this repository poll again only from the continuation  *)
(* they passed before.  With MayDisplace the consumer, still one caller at *)
(* a time, stores again while the previous continuation is parked.         *)
ConsumerMayStore ==
  IF MayDisplace THEN \A t \in Thread : ~Storing(t)
                 ELSE \A c \in Continuation : ~Pending(c)

(* Moves t to label l with locals f; a call that returns leaves none.      *)
Goto(t, l, f) ==
  call' = [call EXCEPT ![t] = IF l = "idle" THEN Idle ELSE [f EXCEPT !.at = l]]

Enter(t, o, c) ==
  /\ call[t].at = "idle"
  /\ Goto(t, "read", [Idle EXCEPT !.op = o, !.arg = c])
  /\ UNCHANGED <<shared, invoked, told, torn>>

CallStore(t, c) ==
  /\ c \notin issued
  /\ ConsumerMayStore
  /\ Enter(t, "store", c)
  /\ issued' = issued \cup {c}
  /\ UNCHANGED owed

CallWake(t) ==
  /\ Enter(t, "wake", Null)
  /\ owed' = TRUE
  /\ UNCHANGED issued

CallCancel(t) ==
  /\ Enter(t, "cancel", Null)
  /\ UNCHANGED <<issued, owed>>

-----------------------------------------------------------------------------
(* The scheduler.                                                          *)

(* Where each call goes on having read the state: the arms of the `match`  *)
(* in the three loops.  "idle" is the return of the call.                  *)
AfterRead(o, s) ==
  CASE o = "store" /\ s = "Empty"     -> "writeData"
    [] o = "store" /\ s = "Waked"     -> "cas"
    [] o = "store" /\ s = "Stored"    -> "loadPtr"
    [] o = "store" /\ s = "Cancelled" -> "invoke"
    [] o = "wake"   -> IF s \in {"Stored", "Empty"} THEN "cas" ELSE "idle"
    [] o = "cancel" -> IF s # "Cancelled" THEN "cas" ELSE "idle"

(* A store that finds a wake or a cancel invokes its own continuation.     *)
Own(f) == [f EXCEPT !.ptr = f.arg, !.data = f.arg]

ReadState(t) ==
  LET f == [call[t] EXCEPT !.seen = state] IN
  /\ call[t].at = "read"
  /\ Goto(t, AfterRead(f.op, state),
          IF f.op = "store" /\ state = "Cancelled" THEN Own(f) ELSE f)
  /\ UNCHANGED <<shared, history>>

(* Mutants of the transition table: a wake on an empty slot that is not    *)
(* buffered; a store that takes the buffered wake and leaves it there.     *)
TargetWakeDropped(o, s) ==
  CASE o = "store"  -> IF s = "Empty" THEN "Stored" ELSE "Empty"
    [] o = "wake"   -> "Empty"
    [] o = "cancel" -> "Cancelled"

TargetWakeKept(o, s) ==
  CASE o = "store"  -> IF s = "Empty" THEN "Stored" ELSE "Waked"
    [] o = "wake"   -> IF s = "Stored" THEN "Empty" ELSE "Waked"
    [] o = "cancel" -> "Cancelled"

(* The transition a call tries from the state it read.                     *)
Target(o, s) ==
  CASE o = "store"  -> IF s = "Empty" THEN "Stored" ELSE "Empty"
    [] o = "wake"   -> IF s = "Stored" THEN "Empty" ELSE "Waked"
    [] o = "cancel" -> "Cancelled"

(* Mutant: a cancel that does not run the continuation it finds parked.    *)
AfterTransitionCancelSilent(o, s) ==
  CASE o = "store"  -> IF s = "Waked" THEN "invoke" ELSE "idle"
    [] o = "wake"   -> IF s = "Stored" THEN "loadPtr" ELSE "idle"
    [] o = "cancel" -> "idle"

(* Once the transition is made, a wake or a cancel that found a parked     *)
(* continuation goes to invoke it, a store that found a wake invokes its   *)
(* own.                                                                    *)
AfterTransition(o, s) ==
  CASE o = "store" -> IF s = "Waked" THEN "invoke" ELSE "idle"
    [] OTHER       -> IF s = "Stored" THEN "loadPtr" ELSE "idle"

(* Mutant: the state is stored without comparing it with the one read.     *)
TryTransitionBlind(t) ==
  LET f == call[t] IN
  /\ f.at = "cas"
  /\ state' = Target(f.op, f.seen)
  /\ Goto(t, AfterTransition(f.op, f.seen), IF f.op = "store" THEN Own(f) ELSE f)
  /\ UNCHANGED <<callback_ptr, callback_data, history>>

TryTransition(t) ==
  LET f == call[t] IN
  /\ f.at = "cas"
  /\ \/ /\ state = f.seen
        /\ state' = Target(f.op, f.seen)
        /\ Goto(t, AfterTransition(f.op, f.seen), IF f.op = "store" THEN Own(f) ELSE f)
     \/ /\ state # f.seen
        /\ Goto(t, "read", f)
        /\ UNCHANGED state
  /\ UNCHANGED <<callback_ptr, callback_data, history>>

(* write_continuation: the data is stored before the pointer.  In the      *)
(* displacing arm the call returns after it, with no transition.           *)
WriteData(t) ==
  /\ call[t].at = "writeData"
  /\ callback_data' = call[t].arg
  /\ Goto(t, "writePtr", call[t])
  /\ UNCHANGED <<state, callback_ptr, history>>

WritePtr(t) ==
  /\ call[t].at = "writePtr"
  /\ callback_ptr' = call[t].arg
  /\ Goto(t, IF call[t].seen = "Empty" THEN "cas" ELSE "idle", call[t])
  /\ UNCHANGED <<state, callback_data, history>>

(* load_continuation: the pointer is read before the data.                 *)
LoadPtr(t) ==
  /\ call[t].at = "loadPtr"
  /\ Goto(t, "loadData", [call[t] EXCEPT !.ptr = callback_ptr])
  /\ UNCHANGED <<shared, history>>

LoadData(t) ==
  /\ call[t].at = "loadData"
  /\ Goto(t, "invoke", [call[t] EXCEPT !.data = callback_data])
  /\ UNCHANGED <<shared, history>>

(* The signal a call passes on: the policy's displaced(), wake() and       *)
(* cancelled().                                                            *)
SignalOf(o, s) ==
  CASE o = "wake" \/ (o = "store" /\ s = "Waked") -> "wake"
    [] o = "store" /\ s = "Stored"                -> "displaced"
    [] OTHER                                      -> "cancelled"

(* A null pointer is nothing to invoke.                                    *)
Invoke(t) ==
  LET f == call[t] IN
  /\ f.at = "invoke"
  /\ IF f.ptr # Null /\ f.data # Null
       THEN /\ invoked' = [invoked EXCEPT ![f.data] = @ + 1]
            /\ told' = [told EXCEPT ![f.data] = SignalOf(f.op, f.seen)]
            /\ torn' = (torn \/ f.ptr # f.data)
            /\ owed' = FALSE
       ELSE UNCHANGED <<invoked, told, torn, owed>>
  /\ Goto(t, IF f.op = "store" /\ f.seen = "Stored" THEN "writeData" ELSE "idle", f)
  /\ UNCHANGED <<shared, issued>>

Run(t) ==
  \/ ReadState(t) \/ TryTransition(t)
  \/ WriteData(t) \/ WritePtr(t)
  \/ LoadPtr(t) \/ LoadData(t) \/ Invoke(t)

Next ==
  \E t \in Thread :
    \/ \E c \in Continuation : CallStore(t, c)
    \/ CallWake(t)
    \/ CallCancel(t)
    \/ Run(t)

(* A call that was entered goes on: nothing in the scheduler blocks.  No   *)
(* thread is obliged to call anything.                                     *)
Fairness == \A t \in Thread : WF_vars(Run(t))

Spec == Init /\ [][Next]_vars /\ Fairness

-----------------------------------------------------------------------------
(* Safety.                                                                 *)

(* A continuation is run at most once, and never with the callback of      *)
(* another: the host frees or resumes what the data points to when it runs *)
(* (continuation.rs, invoke_stored against write_continuation).            *)
InvokedAtMostOnce == (\A c \in Continuation : invoked[c] <= 1) /\ ~torn

(* Two threads never use the pair of cells at the same time, one of them   *)
(* writing it: what the state machine is there to exclude.                 *)
UsesCells(t) == call[t].at \in {"writeData", "writePtr", "loadPtr", "loadData"}
CellsExclusive ==
  \A t, u \in Thread :
    (UsesCells(t) /\ UsesCells(u) /\ t # u)
      => (call[t].at \in {"loadPtr", "loadData"} /\ call[u].at \in {"loadPtr", "loadData"})

(* A continuation the scheduler accepted is never forgotten: until it is   *)
(* run, it is parked, or the call that must run it or park it is under way.*)
Claims(t, c) ==
  \/ call[t].at \in {"loadPtr", "loadData"} /\ callback_data = c
  \/ call[t].at = "invoke" /\ call[t].data = c

Holds(t, c) ==
  \/ Storing(t) /\ call[t].arg = c
  \/ Claims(t, c)

NeverForgotten ==
  \A c \in Continuation : Pending(c) =>
    \/ state = "Stored" /\ callback_data = c
    \/ \E t \in Thread : Holds(t, c)

(* Why the serial consumer is safe, as an inductive invariant.  A thread   *)
(* is busy with the slot while it stores, or while it is about to invoke a *)
(* continuation; there is at most one, and none while the state is Stored. *)
Busy(t) == Storing(t) \/ call[t].at \in {"loadPtr", "loadData", "invoke"}

Only(c) == c \in Continuation /\ \A d \in Continuation : Pending(d) <=> d = c

OneUser ==
  /\ \A t, u \in Thread : Busy(t) /\ Busy(u) => t = u
  /\ state = "Stored" => \A t \in Thread : ~Busy(t)

OwnerHoldsPending ==
  /\ \A t \in Thread : Busy(t) =>
       Only(IF Storing(t) THEN call[t].arg ELSE callback_data)
  /\ state = "Stored" => Only(callback_data) /\ callback_ptr = callback_data

FrameAgrees(f) ==
  /\ f.at \in {"writeData", "writePtr"} => f.op = "store" /\ f.seen = "Empty"
  /\ f.at = "writePtr" => callback_data = f.arg
  /\ f.at = "cas" /\ f.op = "store" => f.seen \in {"Empty", "Waked"}
  /\ f.at = "cas" /\ f.op = "store" /\ f.seen = "Empty" =>
       callback_data = f.arg /\ callback_ptr = f.arg
  /\ f.at = "cas" /\ f.op = "wake" => f.seen \in {"Empty", "Stored"}
  /\ f.at \in {"loadPtr", "loadData"} => f.op # "store" /\ callback_ptr = callback_data
  /\ f.at = "loadData" => f.ptr = callback_data
  /\ f.at = "invoke" /\ f.op # "store" => f.ptr = callback_data /\ f.data = callback_data
  /\ f.at = "invoke" /\ f.op = "store" => f.ptr = f.arg /\ f.data = f.arg /\ f.seen # "Stored"

LocalsAgree == \A t \in Thread : FrameAgrees(call[t])

OnlyIssuedInvoked == \A c \in Continuation : c \notin issued => invoked[c] = 0

SlotInv ==
  /\ TypeOK
  /\ OneUser
  /\ OwnerHoldsPending
  /\ LocalsAgree
  /\ OnlyIssuedInvoked
  /\ InvokedAtMostOnce
  /\ NeverForgotten

(* Liveness: "a wake is not lost if it arrives before a continuation is    *)
(* stored" (continuation.rs:85-87), nor when it races a store, a wake or a *)
(* cancel: once wake is called, the continuation now in the consumer's     *)
(* hands is run, after that call began.                                    *)
WakeNotLost ==
  \A c \in Continuation : (owed /\ Pending(c)) ~> (invoked[c] > 0)

(* After a cancel no continuation stays parked, whether it was stored      *)
(* before or after (continuation.rs, cancel).                              *)
CancelReleases ==
  \A c \in Continuation : (state = "Cancelled" /\ Pending(c)) ~> (invoked[c] > 0)

-----------------------------------------------------------------------------
(* The one-slot handoff the three atomics implement.                       *)

slotBar == IF state = "Stored" THEN callback_data ELSE state

phaseBar ==
  [c \in Continuation |->
     CASE invoked[c] > 1                          -> "repeated"
       [] invoked[c] = 1                          -> "delivered"
       [] \E t \in Thread : Claims(t, c)          -> "claimed"
       [] state = "Stored" /\ callback_data = c   -> "parked"
       [] OTHER                                   -> "fresh"]

signalBar ==
  [c \in Continuation |->
     IF phaseBar[c] = "claimed"
       THEN LET t == CHOOSE u \in Thread : Claims(u, c) IN SignalOf(call[t].op, call[t].seen)
       ELSE told[c]]

Handoff == INSTANCE ContinuationHandoff
             WITH slot <- slotBar, phase <- phaseBar, signal <- signalBar

(* Every step of the atomics is one step of the handoff or none of its     *)
(* business, and what the handoff claims it also delivers.                 *)
ImplementsHandoff == Handoff!Spec
=============================================================================
