--------------------- MODULE ContinuationSchedulerProofs ---------------------
(***************************************************************************)
(* Theorems about the continuation slot, for any number of threads and     *)
(* continuations.                                                          *)
(*                                                                         *)
(* Type correctness holds for every consumer.  The rest is proved for the  *)
(* serial consumer (~MayDisplace), from the inductive invariant SlotInv:   *)
(* the slot has at most one user at a time, the user or the Stored state   *)
(* owns the one pending continuation, and the cells hold it whenever they  *)
(* are read.  From it follows that the three atomics implement the one     *)
(* slot of ContinuationHandoff: each operation takes effect in one step.   *)
(***************************************************************************)
EXTENDS ContinuationScheduler, TLAPS

(* What a move of one thread leaves behind.                                *)
LEMMA IdleTyped == Idle \in Frame
  BY DEF Idle, Frame, Label, Op, SlotState, Cell

LEMMA GotoTyped ==
  ASSUME NEW t \in Thread, NEW l \in Label, NEW f \in Frame,
         call \in [Thread -> Frame], Goto(t, l, f)
  PROVE  /\ call' \in [Thread -> Frame]
         /\ call'[t] = IF l = "idle" THEN Idle ELSE [f EXCEPT !.at = l]
         /\ \A u \in Thread : u # t => call'[u] = call[u]
<1> DEFINE g == IF l = "idle" THEN Idle ELSE [f EXCEPT !.at = l]
<1>1. [f EXCEPT !.at = l] \in Frame
  BY DEF Frame
<1>2. g \in Frame
  BY <1>1, IdleTyped
<1>3. call' = [call EXCEPT ![t] = g]
  BY DEF Goto
<1> HIDE DEF g
<1>4. /\ call' \in [Thread -> Frame]
      /\ call'[t] = g
      /\ \A u \in Thread : u # t => call'[u] = call[u]
  BY <1>2, <1>3
<1> QED
  BY <1>4 DEF g

LEMMA TypingInit == Init => TypeOK
<1> SUFFICES ASSUME Init PROVE TypeOK
  OBVIOUS
<1>1. call \in [Thread -> Frame]
  BY IdleTyped DEF Init
<1> QED
  BY <1>1 DEF Init, TypeOK, SlotState, Cell, Signal

(* No step leaves the types.                                               *)
LEMMA TypingStep == TypeOK /\ [Next]_vars => TypeOK'
<1> SUFFICES ASSUME TypeOK, [Next]_vars PROVE TypeOK'
  OBVIOUS
<1> USE DEF TypeOK
<1>1. ASSUME NEW t \in Thread, NEW c \in Continuation, CallStore(t, c) PROVE TypeOK'
  <2>1. [Idle EXCEPT !.op = "store", !.arg = c] \in Frame
    BY IdleTyped DEF Frame, Op, Cell
  <2>2. call' \in [Thread -> Frame]
    BY <1>1, <2>1, GotoTyped DEF CallStore, Enter, Label
  <2> QED
    BY <1>1, <2>2 DEF CallStore, Enter, shared
<1>2. ASSUME NEW t \in Thread, NEW o \in Op, Enter(t, o, Null) PROVE call' \in [Thread -> Frame]
  <2>1. [Idle EXCEPT !.op = o, !.arg = Null] \in Frame
    BY IdleTyped DEF Frame, Op, Cell
  <2> QED
    BY <1>2, <2>1, GotoTyped DEF Enter, Label
<1>3. ASSUME NEW t \in Thread, CallWake(t) \/ CallCancel(t) PROVE TypeOK'
  <2>1. call' \in [Thread -> Frame]
    BY <1>2, <1>3 DEF CallWake, CallCancel, Op
  <2> QED
    BY <1>3, <2>1 DEF CallWake, CallCancel, Enter, shared
<1>4. ASSUME NEW t \in Thread, ReadState(t) PROVE TypeOK'
  <2> DEFINE f == [call[t] EXCEPT !.seen = state]
  <2>1. f \in Frame /\ Own(f) \in Frame
    BY DEF Frame, Own
  <2>2. AfterRead(f.op, state) \in Label
    BY <2>1 DEF AfterRead, Frame, Op, SlotState, Label
  <2>3. call' \in [Thread -> Frame]
    BY <1>4, <2>1, <2>2, GotoTyped DEF ReadState
  <2> QED
    BY <1>4, <2>3 DEF ReadState, shared, history
<1>5. ASSUME NEW t \in Thread, TryTransition(t) PROVE TypeOK'
  <2>1. call[t] \in Frame /\ Own(call[t]) \in Frame
    BY DEF Frame, Own
  <2>2. /\ AfterTransition(call[t].op, call[t].seen) \in Label
        /\ Target(call[t].op, call[t].seen) \in SlotState
    BY <2>1 DEF AfterTransition, Target, Frame, Op, SlotState, Label
  <2>3. call' \in [Thread -> Frame]
    BY <1>5, <2>1, <2>2, GotoTyped DEF TryTransition, Label
  <2> QED
    BY <1>5, <2>2, <2>3 DEF TryTransition, history
<1>6. ASSUME NEW t \in Thread, WriteData(t) \/ WritePtr(t) PROVE TypeOK'
  <2>1. call[t] \in Frame /\ call[t].arg \in Cell
    BY DEF Frame
  <2>2. call' \in [Thread -> Frame]
    BY <1>6, <2>1, GotoTyped DEF WriteData, WritePtr, Label
  <2> QED
    BY <1>6, <2>1, <2>2 DEF WriteData, WritePtr, history
<1>7. ASSUME NEW t \in Thread, LoadPtr(t) \/ LoadData(t) PROVE TypeOK'
  <2>1. /\ [call[t] EXCEPT !.ptr = callback_ptr] \in Frame
        /\ [call[t] EXCEPT !.data = callback_data] \in Frame
    BY DEF Frame
  <2>2. call' \in [Thread -> Frame]
    BY <1>7, <2>1, GotoTyped DEF LoadPtr, LoadData, Label
  <2> QED
    BY <1>7, <2>2 DEF LoadPtr, LoadData, shared, history
<1>8. ASSUME NEW t \in Thread, Invoke(t) PROVE TypeOK'
  <2>1. call[t] \in Frame /\ SignalOf(call[t].op, call[t].seen) \in Signal
    BY DEF SignalOf, Signal
  <2>2. call' \in [Thread -> Frame]
    BY <1>8, <2>1, GotoTyped DEF Invoke, Label
  <2>3. invoked' \in [Continuation -> Nat] /\ told' \in [Continuation -> Signal \cup {"none"}]
    BY <1>8, <2>1 DEF Invoke, Frame, Cell
  <2>4. torn' \in BOOLEAN /\ owed' \in BOOLEAN
    BY <1>8 DEF Invoke
  <2> QED
    BY <1>8, <2>2, <2>3, <2>4 DEF Invoke, shared
<1>9. CASE UNCHANGED vars
  BY <1>9 DEF vars, shared, history
<1> QED
  BY <1>1, <1>3, <1>4, <1>5, <1>6, <1>7, <1>8, <1>9 DEF Next, Run

(* Every reachable state is well typed: in particular the callback data    *)
(* that is invoked is always that of a continuation the host handed over.  *)
THEOREM TypeCorrect == Spec => []TypeOK
  BY TypingInit, TypingStep, PTL DEF Spec

-----------------------------------------------------------------------------
(* The serial consumer.                                                    *)

LEMMA SlotInit == Init => SlotInv
<1> SUFFICES ASSUME Init PROVE SlotInv
  OBVIOUS
<1>1. \A t \in Thread : call[t] = Idle /\ ~Busy(t) /\ FrameAgrees(call[t])
  BY DEF Init, Busy, Storing, Idle, FrameAgrees
<1>2. \A c \in Continuation : ~Pending(c)
  BY DEF Init, Pending
<1>3. OneUser /\ OwnerHoldsPending /\ LocalsAgree /\ NeverForgotten
  BY <1>1, <1>2 DEF Init, OneUser, OwnerHoldsPending, LocalsAgree, NeverForgotten
<1>4. OnlyIssuedInvoked /\ InvokedAtMostOnce
  BY DEF Init, OnlyIssuedInvoked, InvokedAtMostOnce
<1> QED
  BY <1>1, <1>3, <1>4, TypingInit DEF SlotInv

(* A step of the one thread that uses the slot, before or after it: the    *)
(* other threads are in none of the steps that read or write the cells.    *)
LEMMA OwnerStep ==
  ASSUME SlotInv, TypeOK', NEW t \in Thread,
         \A u \in Thread : u # t => ~Busy(u) /\ call'[u] = call[u],
         FrameAgrees(call[t])',
         OnlyIssuedInvoked',
         InvokedAtMostOnce',
         Busy(t)' => Only(IF Storing(t) THEN call[t].arg ELSE callback_data)',
         state' = "Stored" => ~Busy(t)' /\ Only(callback_data)' /\ callback_ptr' = callback_data',
         \A c \in Continuation : Pending(c)' =>
            (state' = "Stored" /\ callback_data' = c) \/ Holds(t, c)'
  PROVE  SlotInv'
<1>1. \A u \in Thread : u # t => ~Busy(u)'
  BY DEF Busy, Storing
<1>2. OneUser' /\ OwnerHoldsPending'
  BY <1>1 DEF OneUser, OwnerHoldsPending
<1>3. \A u \in Thread : u # t => FrameAgrees(call[u])'
  BY DEF SlotInv, LocalsAgree, FrameAgrees, Busy, Storing
<1>4. LocalsAgree' /\ NeverForgotten'
  BY <1>3 DEF LocalsAgree, NeverForgotten
<1> QED
  BY <1>2, <1>4 DEF SlotInv

(* A step that changes no shared variable, and of the threads only t: t    *)
(* must stay as busy as it was, with the same continuation in hand.        *)
LEMMA PrivateStep ==
  ASSUME SlotInv, TypeOK', NEW t \in Thread,
         UNCHANGED <<shared, issued, invoked, torn>>,
         \A u \in Thread : u # t => call'[u] = call[u],
         Busy(t)' <=> Busy(t),
         Busy(t) => (Storing(t)' <=> Storing(t)),
         Storing(t) => call'[t].arg = call[t].arg,
         \A c \in Continuation : Holds(t, c) => Holds(t, c)',
         FrameAgrees(call[t])'
  PROVE  SlotInv'
<1> USE DEF SlotInv, shared
<1>1. \A u \in Thread : u # t => (Busy(u)' <=> Busy(u)) /\ (Storing(u)' <=> Storing(u))
  BY DEF Busy, Storing
<1>2. \A c \in Continuation : Pending(c)' <=> Pending(c)
  BY DEF Pending
<1>3. OneUser'
  BY <1>1 DEF OneUser
<1>4. \A c : Only(c)' <=> Only(c)
  BY <1>2 DEF Only
<1>5. OwnerHoldsPending'
  <2>1. \A u \in Thread : Busy(u)' => Only(IF Storing(u) THEN call[u].arg ELSE callback_data)'
    BY <1>1, <1>4 DEF OwnerHoldsPending, Busy
  <2> QED
    BY <2>1, <1>4 DEF OwnerHoldsPending
<1>6. LocalsAgree'
  <2>1. \A u \in Thread : u # t => FrameAgrees(call[u])'
    BY DEF LocalsAgree, FrameAgrees
  <2> QED
    BY <2>1 DEF LocalsAgree
<1>7. OnlyIssuedInvoked' /\ InvokedAtMostOnce'
  BY DEF OnlyIssuedInvoked, InvokedAtMostOnce
<1>8. NeverForgotten'
  <2>1. \A u \in Thread, c \in Continuation : Holds(u, c) => Holds(u, c)'
    BY <1>1 DEF Holds, Claims
  <2> QED
    BY <2>1, <1>2 DEF NeverForgotten
<1> QED
  BY <1>3, <1>5, <1>6, <1>7, <1>8

(* One step of the serial consumer's slot.                                 *)
LEMMA SlotStep ==
  ASSUME ~MayDisplace, SlotInv, [Next]_vars
  PROVE  SlotInv'
<1>0. TypeOK /\ TypeOK'
  BY TypingStep DEF SlotInv
<1>1. ASSUME NEW t \in Thread, NEW c \in Continuation, CallStore(t, c) PROVE SlotInv'
  <2>1. /\ call'[t].at = "read" /\ call'[t].op = "store" /\ call'[t].arg = c
        /\ call[t].at = "idle"
        /\ \A u \in Thread : u # t => call'[u] = call[u]
    BY <1>0, <1>1 DEF CallStore, Enter, Goto, TypeOK, Idle
  <2>2. UNCHANGED <<shared, invoked, torn>> /\ issued' = issued \cup {c} /\ c \notin issued
    BY <1>1 DEF CallStore, Enter
  <2>3. \A d \in Continuation : ~Pending(d)
    BY <1>1 DEF CallStore, ConsumerMayStore
  <2>4. state # "Stored" /\ \A u \in Thread : ~Busy(u)
    BY <2>3 DEF SlotInv, OwnerHoldsPending, Only
  <2>5. \A d \in Continuation : Pending(d)' <=> d = c
    BY <2>2, <2>3 DEF SlotInv, Pending, OnlyIssuedInvoked
  <2>6. Storing(t)' /\ Busy(t)' /\ FrameAgrees(call[t])' /\ Only(call[t].arg)'
    BY <2>1, <2>5 DEF Storing, Busy, FrameAgrees, Only
  <2>7. OnlyIssuedInvoked' /\ InvokedAtMostOnce'
    BY <2>2 DEF SlotInv, OnlyIssuedInvoked, InvokedAtMostOnce
  <2>8. \A d \in Continuation : Pending(d)' => Holds(t, d)'
    BY <2>1, <2>5, <2>6 DEF Holds
  <2>9. state' # "Stored"
    BY <2>2, <2>4 DEF shared
  <2> QED
    BY <1>0, <2>1, <2>4, <2>6, <2>7, <2>8, <2>9, OwnerStep
<1>2. ASSUME NEW t \in Thread, CallWake(t) \/ CallCancel(t) PROVE SlotInv'
  <2>1. /\ call'[t].at = "read" /\ call'[t].op # "store"
        /\ call[t].at = "idle"
        /\ \A u \in Thread : u # t => call'[u] = call[u]
    BY <1>0, <1>2 DEF CallWake, CallCancel, Enter, Goto, TypeOK, Idle
  <2>2. UNCHANGED <<shared, issued, invoked, torn>>
    BY <1>2 DEF CallWake, CallCancel, Enter
  <2>3. ~Busy(t) /\ ~Busy(t)' /\ ~Storing(t) /\ FrameAgrees(call[t])'
    BY <2>1 DEF Busy, Storing, FrameAgrees
  <2>4. \A c \in Continuation : ~Holds(t, c)
    BY <2>1 DEF Holds, Claims, Storing
  <2> QED
    BY <1>0, <2>1, <2>2, <2>3, <2>4, PrivateStep
<1>3. ASSUME NEW t \in Thread, ReadState(t) PROVE SlotInv'
  <2> DEFINE f == [call[t] EXCEPT !.seen = state]
             l == AfterRead(f.op, state)
             g == IF f.op = "store" /\ state = "Cancelled" THEN Own(f) ELSE f
  <2>1. f \in Frame /\ g \in Frame /\ l \in Label
    BY <1>0 DEF TypeOK, Frame, Own, AfterRead, Op, SlotState, Label
  <2>2. /\ call'[t] = IF l = "idle" THEN Idle ELSE [g EXCEPT !.at = l]
        /\ call[t].at = "read"
        /\ \A u \in Thread : u # t => call'[u] = call[u]
        /\ UNCHANGED <<shared, history>>
    BY <1>0, <1>3, <2>1, GotoTyped DEF ReadState, TypeOK
  <2>3. /\ g.op = call[t].op /\ g.arg = call[t].arg /\ g.seen = state
        /\ f.op = call[t].op /\ call[t].op \in Op
        /\ g.op = "store" /\ state = "Cancelled" => g.ptr = g.arg /\ g.data = g.arg
    BY <1>0 DEF Own, TypeOK, Frame
  <2> HIDE DEF f, g
  <2>4. CASE Storing(t)
    <3>1. f.op = "store" /\ state \in {"Empty", "Waked", "Cancelled"}
      BY <1>0, <2>2, <2>3, <2>4 DEF SlotInv, OneUser, Busy, Storing, TypeOK, SlotState
    <3>2. l = IF state = "Empty" THEN "writeData" ELSE IF state = "Waked" THEN "cas" ELSE "invoke"
      BY <3>1 DEF AfterRead
    <3> HIDE DEF l
    <3>3. /\ call'[t] = [g EXCEPT !.at = l] /\ call'[t].at = l /\ call'[t].op = "store"
          /\ call'[t].arg = call[t].arg /\ call'[t].seen = state
          /\ state = "Cancelled" => call'[t].ptr = call[t].arg /\ call'[t].data = call[t].arg
      BY <2>1, <2>2, <2>3, <3>1, <3>2 DEF Frame
    <3>4. FrameAgrees(call[t])' /\ Storing(t)'
      BY <3>1, <3>2, <3>3 DEF FrameAgrees, Storing
    <3>5. \A c \in Continuation : Holds(t, c) => Holds(t, c)'
      BY <2>2, <3>3, <3>4 DEF Holds, Claims
    <3> QED
      BY <1>0, <2>2, <2>4, <3>3, <3>4, <3>5, PrivateStep DEF Busy, history
  <2>5. CASE ~Storing(t)
    <3>1. call[t].op \in {"wake", "cancel"}
      BY <2>2, <2>3, <2>5 DEF Storing, Op
    <3>2. l \in {"cas", "idle"} /\ (l = "cas" /\ f.op = "wake" => state \in {"Empty", "Stored"})
      BY <2>3, <3>1 DEF AfterRead
    <3> HIDE DEF l
    <3>3. \/ call'[t].at = "idle"
          \/ /\ call'[t].at = "cas" /\ call'[t].op = call[t].op /\ call'[t].seen = state
             /\ call[t].op = "wake" => state \in {"Empty", "Stored"}
      BY <2>1, <2>2, <2>3, <3>2 DEF Frame, Idle
    <3>4. FrameAgrees(call[t])' /\ ~Busy(t)' /\ ~Busy(t)
      BY <2>2, <2>3, <2>5, <3>1, <3>3 DEF FrameAgrees, Busy, Storing
    <3>5. \A c \in Continuation : ~Holds(t, c)
      BY <2>2, <2>5 DEF Holds, Claims
    <3> QED
      BY <1>0, <2>2, <2>5, <3>4, <3>5, PrivateStep DEF history
  <2> QED
    BY <2>4, <2>5
<1>4. ASSUME NEW t \in Thread, TryTransition(t) PROVE SlotInv'
  <2> DEFINE f == call[t]
             l == AfterTransition(f.op, f.seen)
             g == IF f.op = "store" THEN Own(f) ELSE f
  <2>1. f \in Frame /\ g \in Frame /\ l \in Label /\ "read" \in Label
    BY <1>0 DEF TypeOK, Frame, Own, AfterTransition, Op, SlotState, Label
  <2>2. /\ f.at = "cas" /\ f.op \in Op /\ f.seen \in SlotState
        /\ UNCHANGED <<callback_ptr, callback_data, issued, invoked, torn>>
        /\ FrameAgrees(f)
    BY <1>0, <1>4, <2>1 DEF TryTransition, history, SlotInv, LocalsAgree, Frame
  <2>3. \A d : (Pending(d)' <=> Pending(d)) /\ (Only(d)' <=> Only(d))
    BY <2>2 DEF Pending, Only
  <2>4. OnlyIssuedInvoked' /\ InvokedAtMostOnce'
    BY <2>2 DEF SlotInv, OnlyIssuedInvoked, InvokedAtMostOnce
  <2>5. CASE state # f.seen
    <3>1. /\ state' = state
          /\ call'[t] = [f EXCEPT !.at = "read"]
          /\ \A u \in Thread : u # t => call'[u] = call[u]
      BY <1>0, <1>4, <2>1, <2>5, GotoTyped DEF TryTransition, TypeOK
    <3>2. call'[t].at = "read" /\ call'[t].op = f.op /\ call'[t].arg = f.arg
      BY <2>1, <3>1 DEF Frame
    <3>3. /\ Busy(t)' <=> Busy(t)
          /\ Storing(t)' <=> Storing(t)
          /\ FrameAgrees(call[t])'
          /\ \A c \in Continuation : Holds(t, c) => Holds(t, c)'
      BY <2>2, <3>2 DEF Busy, Storing, FrameAgrees, Holds, Claims
    <3> QED
      BY <1>0, <2>2, <3>1, <3>2, <3>3, PrivateStep DEF shared
  <2>6. CASE state = f.seen
    <3>1. /\ state' = Target(f.op, state)
          /\ call'[t] = IF l = "idle" THEN Idle ELSE [g EXCEPT !.at = l]
          /\ \A u \in Thread : u # t => call'[u] = call[u]
      BY <1>0, <1>4, <2>1, <2>6, GotoTyped DEF TryTransition, TypeOK
    <3>2. /\ g.op = f.op /\ g.arg = f.arg /\ g.seen = state
          /\ f.op = "store" => g.ptr = g.arg /\ g.data = g.arg
      BY <2>1, <2>6 DEF Own, Frame
    <3>3. CASE f.op = "store"
      <4>1. state \in {"Empty", "Waked"} /\ Storing(t) /\ Busy(t)
        BY <2>2, <2>6, <3>3 DEF FrameAgrees, Storing, Busy
      <4>2. PICK c : c = f.arg
        OBVIOUS
      <4>5. /\ Only(c)
            /\ \A u \in Thread : u # t => ~Busy(u) /\ call'[u] = call[u]
        BY <3>1, <4>1, <4>2 DEF SlotInv, OneUser, OwnerHoldsPending
      <4>6. Only(c)'
        BY <2>3, <4>5
      <4>3. CASE state = "Empty"
        <5>1. state' = "Stored" /\ call'[t].at = "idle"
          BY <2>6, <3>1, <3>3, <4>3 DEF AfterTransition, Target, Idle
        <5>2. ~Busy(t)' /\ FrameAgrees(call[t])'
          BY <5>1 DEF Busy, Storing, FrameAgrees
        <5>3. callback_data' = c /\ callback_ptr' = c
          BY <2>2, <2>6, <3>3, <4>2, <4>3 DEF FrameAgrees
        <5>4. Only(callback_data)' /\ \A d \in Continuation : Pending(d)' => callback_data' = d
          BY <4>6, <5>3 DEF Only
        <5> QED
          BY <1>0, <2>4, <4>5, <5>1, <5>2, <5>3, <5>4, OwnerStep
      <4>4. CASE state = "Waked"
        <5>1. state' = "Empty" /\ l = "invoke"
          BY <3>1, <3>3, <4>4, <2>6 DEF AfterTransition, Target
        <5> HIDE DEF g, l
        <5>2. /\ call'[t].at = "invoke" /\ call'[t].op = "store" /\ call'[t].seen = "Waked"
              /\ call'[t].arg = c /\ call'[t].ptr = c /\ call'[t].data = c
          BY <2>1, <4>2, <3>1, <3>2, <3>3, <4>4, <5>1 DEF Frame
        <5>3. Storing(t)' /\ FrameAgrees(call[t])'
          BY <5>2 DEF Storing, FrameAgrees
        <5>4. Only(call[t].arg)' /\ \A d \in Continuation : Pending(d)' => Holds(t, d)'
          BY <4>6, <5>2 DEF Only, Holds, Claims
        <5> QED
          BY <1>0, <2>4, <4>5, <5>1, <5>2, <5>3, <5>4, OwnerStep
      <4> QED
        BY <4>1, <4>3, <4>4
    <3>4. CASE f.op # "store" /\ state = "Stored"
      <4>1. state' # "Stored" /\ l = "loadPtr"
        BY <2>2, <2>6, <3>1, <3>4 DEF AfterTransition, Target, Op
      <4>2. /\ Only(callback_data)' /\ callback_ptr = callback_data
            /\ \A u \in Thread : ~Busy(u)
        BY <2>2, <2>3, <3>4 DEF SlotInv, OneUser, OwnerHoldsPending, Only
      <4> HIDE DEF g, l
      <4>3. call'[t].at = "loadPtr" /\ call'[t].op = f.op
        BY <2>1, <3>1, <3>2, <4>1 DEF Frame
      <4>4. ~Storing(t)' /\ FrameAgrees(call[t])'
        BY <2>2, <3>4, <4>2, <4>3 DEF Storing, FrameAgrees
      <4>5. \A c \in Continuation : Pending(c)' => Holds(t, c)'
        BY <2>2, <4>2, <4>3 DEF Only, Holds, Claims
      <4> QED
        BY <1>0, <2>2, <2>4, <3>1, <4>1, <4>2, <4>4, <4>5, OwnerStep
    <3>5. CASE f.op # "store" /\ state # "Stored"
      <4>1. /\ state' # "Stored" /\ call'[t].at = "idle"
        BY <2>2, <2>6, <3>1, <3>5 DEF AfterTransition, Target, Op, Idle
      <4>2. ~Busy(t) /\ ~Busy(t)' /\ FrameAgrees(call[t])'
        BY <2>2, <3>5, <4>1 DEF Busy, Storing, FrameAgrees
      <4>3. \A c \in Continuation : ~Holds(t, c)
        BY <2>2, <3>5 DEF Holds, Claims, Storing
      <4>4. \A u \in Thread : (Busy(u)' <=> Busy(u)) /\ (Storing(u)' <=> Storing(u))
        BY <3>1, <4>2, <2>2, <3>5, <4>1 DEF Busy, Storing
      <4>5. OneUser'
        BY <4>1, <4>4 DEF SlotInv, OneUser
      <4>6. OwnerHoldsPending'
        <5>1. \A u \in Thread : Busy(u)' => Only(IF Storing(u) THEN call[u].arg ELSE callback_data)'
          BY <2>2, <2>3, <3>1, <4>2, <4>4 DEF SlotInv, OwnerHoldsPending
        <5> QED
          BY <4>1, <5>1 DEF OwnerHoldsPending
      <4>7. LocalsAgree'
        <5>1. \A u \in Thread : u # t => FrameAgrees(call[u])'
          BY <2>2, <3>1 DEF SlotInv, LocalsAgree, FrameAgrees
        <5> QED
          BY <4>2, <5>1 DEF LocalsAgree
      <4>8. NeverForgotten'
        <5>1. \A u \in Thread, c \in Continuation : Holds(u, c) => Holds(u, c)'
          BY <2>2, <3>1, <4>3, <4>4 DEF Holds, Claims
        <5> QED
          BY <2>3, <3>5, <5>1 DEF SlotInv, NeverForgotten
      <4> QED
        BY <1>0, <2>4, <4>5, <4>6, <4>7, <4>8 DEF SlotInv
    <3> QED
      BY <3>3, <3>4, <3>5
  <2> QED
    BY <2>5, <2>6
<1>5. ASSUME NEW t \in Thread, WriteData(t) \/ WritePtr(t) PROVE SlotInv'
  <2> DEFINE f == call[t]
  <2>1. f \in Frame /\ f.arg \in Cell /\ "writePtr" \in Label /\ "cas" \in Label /\ "idle" \in Label
    BY <1>0 DEF TypeOK, Frame, Label
  <2>2. /\ f.op = "store" /\ f.seen = "Empty" /\ f.at \in {"writeData", "writePtr"}
        /\ f.at = "writePtr" => callback_data = f.arg
    BY <1>5 DEF WriteData, WritePtr, SlotInv, LocalsAgree, FrameAgrees
  <2>3. /\ callback_data' = f.arg
        /\ UNCHANGED <<state, issued, invoked, torn>>
        /\ \A u \in Thread : u # t => call'[u] = call[u]
        /\ \/ call'[t] = [f EXCEPT !.at = "writePtr"]
           \/ call'[t] = [f EXCEPT !.at = "cas"] /\ callback_ptr' = f.arg
    BY <1>0, <1>5, <2>1, <2>2, GotoTyped DEF WriteData, WritePtr, TypeOK, history
  <2>4. /\ call'[t].op = "store" /\ call'[t].seen = "Empty" /\ call'[t].arg = f.arg
        /\ call'[t].at = "writePtr" \/ (call'[t].at = "cas" /\ callback_ptr' = f.arg)
    BY <2>1, <2>2, <2>3 DEF Frame
  <2>5. Storing(t) /\ Busy(t) /\ Storing(t)' /\ FrameAgrees(call[t])'
    BY <2>2, <2>3, <2>4 DEF Storing, Busy, FrameAgrees
  <2>6. \A d : (Pending(d)' <=> Pending(d)) /\ (Only(d)' <=> Only(d))
    BY <2>3 DEF Pending, Only
  <2>7. /\ Only(call[t].arg) /\ state' # "Stored"
        /\ \A u \in Thread : u # t => ~Busy(u)
    BY <2>3, <2>5 DEF SlotInv, OneUser, OwnerHoldsPending
  <2>10. Only(call[t].arg)'
    BY <2>4, <2>6, <2>7
  <2>8. OnlyIssuedInvoked' /\ InvokedAtMostOnce'
    BY <2>3 DEF SlotInv, OnlyIssuedInvoked, InvokedAtMostOnce
  <2>9. \A c \in Continuation : Pending(c)' => Holds(t, c)'
    BY <2>4, <2>5, <2>10 DEF Only, Holds
  <2> QED
    BY <1>0, <2>3, <2>4, <2>5, <2>7, <2>8, <2>9, <2>10, OwnerStep
<1>6. ASSUME NEW t \in Thread, LoadPtr(t) \/ LoadData(t) PROVE SlotInv'
  <2> DEFINE f == call[t]
  <2>1. /\ [f EXCEPT !.ptr = callback_ptr] \in Frame /\ [f EXCEPT !.data = callback_data] \in Frame
        /\ f \in Frame /\ "loadData" \in Label /\ "invoke" \in Label
    BY <1>0 DEF TypeOK, Frame, Label
  <2>2. /\ f.op # "store" /\ callback_ptr = callback_data /\ f.at \in {"loadPtr", "loadData"}
        /\ f.at = "loadData" => f.ptr = callback_data
    BY <1>6 DEF LoadPtr, LoadData, SlotInv, LocalsAgree, FrameAgrees
  <2>3. /\ UNCHANGED <<shared, issued, invoked, torn>>
        /\ \A u \in Thread : u # t => call'[u] = call[u]
        /\ \/ call'[t] = [[f EXCEPT !.ptr = callback_ptr] EXCEPT !.at = "loadData"]
           \/ /\ f.at = "loadData"
              /\ call'[t] = [[f EXCEPT !.data = callback_data] EXCEPT !.at = "invoke"]
    <3>1. UNCHANGED <<shared, issued, invoked, torn>>
      BY <1>6 DEF LoadPtr, LoadData, history
    <3> DEFINE p == [f EXCEPT !.ptr = callback_ptr]
               d == [f EXCEPT !.data = callback_data]
    <3>4. p \in Frame /\ d \in Frame /\ call \in [Thread -> Frame]
      BY <1>0, <2>1 DEF TypeOK
    <3>5. LoadPtr(t) => Goto(t, "loadData", p)
      BY DEF LoadPtr
    <3>6. LoadData(t) => f.at = "loadData" /\ Goto(t, "invoke", d)
      BY DEF LoadData
    <3> HIDE DEF p, d
    <3>2. CASE LoadPtr(t)
      <4>1. call'[t] = [p EXCEPT !.at = "loadData"] /\ \A u \in Thread : u # t => call'[u] = call[u]
        BY <2>1, <3>2, <3>4, <3>5, GotoTyped
      <4> QED
        BY <3>1, <4>1 DEF p
    <3>3. CASE LoadData(t)
      <4>1. call'[t] = [d EXCEPT !.at = "invoke"] /\ \A u \in Thread : u # t => call'[u] = call[u]
        BY <2>1, <3>3, <3>4, <3>6, GotoTyped
      <4> QED
        BY <3>1, <3>3, <3>6, <4>1 DEF d
    <3> QED
      BY <1>6, <3>2, <3>3
  <2>4. /\ call'[t].op = f.op /\ call'[t].ptr = callback_data
        /\ \/ call'[t].at = "loadData"
           \/ call'[t].at = "invoke" /\ call'[t].data = callback_data
    BY <2>1, <2>2, <2>3 DEF Frame
  <2>5. /\ Busy(t) /\ Busy(t)' /\ ~Storing(t) /\ ~Storing(t)' /\ FrameAgrees(call[t])'
        /\ \A c \in Continuation : Holds(t, c) => Holds(t, c)'
    BY <2>2, <2>3, <2>4 DEF Busy, Storing, FrameAgrees, Holds, Claims, shared
  <2> QED
    BY <1>0, <2>3, <2>5, PrivateStep
<1>7. ASSUME NEW t \in Thread, Invoke(t) PROVE SlotInv'
  <2> DEFINE f == call[t]
             c == IF f.op = "store" THEN f.arg ELSE callback_data
  <2>1. Busy(t) /\ (Storing(t) <=> f.op = "store") /\ f.at = "invoke"
    BY <1>7 DEF Invoke, Busy, Storing
  <2>2. /\ Only(c) /\ state # "Stored"
        /\ \A u \in Thread : u # t => ~Busy(u)
    BY <2>1 DEF SlotInv, OneUser, OwnerHoldsPending
  <2>3. f.ptr = c /\ f.data = c /\ (f.op = "store" => f.seen # "Stored")
    BY <2>1 DEF SlotInv, LocalsAgree, FrameAgrees
  <2> HIDE DEF c
  <2>4. c \in Continuation /\ c # Null /\ Pending(c) /\ \A d \in Continuation : Pending(d) <=> d = c
    BY <2>2, NullAssumption DEF Only
  <2>5. /\ invoked' = [invoked EXCEPT ![c] = @ + 1]
        /\ torn' = (torn \/ f.ptr # f.data)
        /\ UNCHANGED <<shared, issued>>
        /\ Goto(t, "idle", f)
    BY <1>7, <2>3, <2>4 DEF Invoke
  <2>6. /\ call'[t].at = "idle"
        /\ \A u \in Thread : u # t => call'[u] = call[u]
    BY <1>0, <2>5 DEF Goto, TypeOK, Idle
  <2>7. ~torn'
    BY <2>3, <2>5 DEF SlotInv, InvokedAtMostOnce
  <2>8. /\ \A d \in Continuation : ~Pending(d)'
        /\ \A d \in Continuation : invoked'[d] <= 1
        /\ OnlyIssuedInvoked'
    BY <1>0, <2>4, <2>5 DEF SlotInv, TypeOK, Pending, InvokedAtMostOnce, OnlyIssuedInvoked
  <2>9. ~Busy(t)' /\ FrameAgrees(call[t])' /\ state' # "Stored"
    BY <2>2, <2>5, <2>6 DEF Busy, Storing, FrameAgrees, shared
  <2> QED
    BY <1>0, <2>2, <2>6, <2>7, <2>8, <2>9, OwnerStep DEF InvokedAtMostOnce
<1>20. CASE UNCHANGED vars
  <2>1. call' = call /\ UNCHANGED <<shared, issued, invoked, torn>>
    BY <1>20 DEF vars, history
  <2>2. \A t \in Thread : FrameAgrees(call[t])' <=> FrameAgrees(call[t])
    BY <2>1 DEF FrameAgrees, shared
  <2>3. (OneUser /\ OwnerHoldsPending /\ NeverForgotten) =>
          (OneUser /\ OwnerHoldsPending /\ NeverForgotten)'
    BY <2>1 DEF OneUser, OwnerHoldsPending, NeverForgotten, Busy, Storing, Holds, Claims,
                Only, Pending, shared
  <2>4. (OnlyIssuedInvoked /\ InvokedAtMostOnce) => (OnlyIssuedInvoked /\ InvokedAtMostOnce)'
    BY <2>1 DEF OnlyIssuedInvoked, InvokedAtMostOnce
  <2> QED
    BY <1>0, <2>2, <2>3, <2>4 DEF SlotInv, LocalsAgree
<1> QED
  BY <1>1, <1>2, <1>3, <1>4, <1>5, <1>6, <1>7, <1>20 DEF Next, Run

(* With a serial consumer, whatever the number of threads that wake and    *)
(* cancel, a continuation is run at most once, never with another's data,  *)
(* and is not forgotten before it is run.                                  *)
THEOREM SerialConsumerSafe ==
  ASSUME ~MayDisplace
  PROVE  Spec => [](InvokedAtMostOnce /\ NeverForgotten)
<1>1. Spec => []SlotInv
  BY SlotInit, SlotStep, PTL DEF Spec
<1>2. SlotInv => InvokedAtMostOnce /\ NeverForgotten
  BY DEF SlotInv
<1> QED
  BY <1>1, <1>2, PTL

(* And no thread reads or writes the cells while another writes them.      *)
THEOREM SerialCellsExclusive ==
  ASSUME ~MayDisplace
  PROVE  Spec => []CellsExclusive
<1>1. Spec => []SlotInv
  BY SlotInit, SlotStep, PTL DEF Spec
<1>2. SlotInv => CellsExclusive
  <2>1. SlotInv => \A t \in Thread : UsesCells(t) => Busy(t)
    BY DEF SlotInv, LocalsAgree, FrameAgrees, UsesCells, Busy, Storing
  <2> QED
    BY <2>1 DEF SlotInv, OneUser, CellsExclusive
<1> QED
  BY <1>1, <1>2, PTL

-----------------------------------------------------------------------------
(* The handoff that the atomics implement.  What it calls claimed is in    *)
(* the hands of the one busy thread, and what it calls parked is in the    *)
(* cells of a Stored slot.                                                 *)
Claimed(c) == \E t \in Thread : Claims(t, c)
Parked(c)  == state = "Stored" /\ callback_data = c

LEMMA ClaimsAreOwned ==
  ASSUME SlotInv, NEW t \in Thread, NEW c \in Continuation, Claims(t, c)
  PROVE  Busy(t) /\ Only(c)
<1>1. Busy(t)
  BY DEF Claims, Busy
<1>2. FrameAgrees(call[t])
  BY DEF SlotInv, LocalsAgree
<1>3. c = IF Storing(t) THEN call[t].arg ELSE callback_data
  BY <1>2 DEF Claims, Storing, FrameAgrees
<1> QED
  BY <1>1, <1>3 DEF SlotInv, OwnerHoldsPending

(* The refinement mapping without its CHOOSE.                              *)
BarOf(c) ==
  /\ Claimed(c) => invoked[c] = 0 /\ ~Parked(c)
  /\ Parked(c) => invoked[c] = 0
  /\ phaseBar[c] = IF invoked[c] = 1 THEN "delivered"
                   ELSE IF Claimed(c) THEN "claimed"
                   ELSE IF Parked(c) THEN "parked" ELSE "fresh"
  /\ \A t \in Thread : Claims(t, c) =>
       Busy(t) /\ Only(c) /\ signalBar[c] = SignalOf(call[t].op, call[t].seen)
  /\ ~Claimed(c) => signalBar[c] = told[c]

BarsAgree == \A c \in Continuation : BarOf(c)

LEMMA Bars == SlotInv => BarsAgree
<1> SUFFICES ASSUME SlotInv, NEW c \in Continuation PROVE BarOf(c)
  BY DEF BarsAgree
<1>1. Claimed(c) => invoked[c] = 0 /\ ~Parked(c)
  BY ClaimsAreOwned DEF Claimed, Parked, Only, Pending, SlotInv, OneUser
<1>2. Parked(c) => invoked[c] = 0
  BY DEF Parked, SlotInv, OwnerHoldsPending, Only, Pending
<1>3. invoked[c] \in Nat /\ invoked[c] <= 1
  BY DEF SlotInv, TypeOK, InvokedAtMostOnce
<1>4. phaseBar[c] = IF invoked[c] = 1 THEN "delivered"
                    ELSE IF Claimed(c) THEN "claimed"
                    ELSE IF Parked(c) THEN "parked" ELSE "fresh"
  <2>1. phaseBar[c] = CASE invoked[c] > 1 -> "repeated"
                        [] invoked[c] = 1 -> "delivered"
                        [] Claimed(c)     -> "claimed"
                        [] Parked(c)      -> "parked"
                        [] OTHER          -> "fresh"
    BY DEF phaseBar, Claimed, Parked
  <2> QED
    BY <1>1, <1>2, <1>3, <2>1
<1>5. phaseBar[c] = "claimed" <=> Claimed(c)
  BY <1>1, <1>4
<1>6. ASSUME NEW t \in Thread, Claims(t, c)
      PROVE  signalBar[c] = SignalOf(call[t].op, call[t].seen)
  <2> DEFINE u == CHOOSE v \in Thread : Claims(v, c)
  <2>1. u \in Thread /\ Claims(u, c)
    BY <1>6
  <2>2. u = t
    BY <1>6, <2>1, ClaimsAreOwned DEF SlotInv, OneUser
  <2>3. signalBar[c] = SignalOf(call[u].op, call[u].seen)
    BY <1>5, <1>6 DEF signalBar, Claimed
  <2> HIDE DEF u
  <2> QED
    BY <2>2, <2>3
<1>7. ~Claimed(c) => signalBar[c] = told[c]
  BY <1>5 DEF signalBar
<1> QED
  BY <1>1, <1>2, <1>4, <1>6, <1>7, ClaimsAreOwned DEF BarOf

(* Both are functions of the continuations.                                *)
BarFunctions ==
  /\ phaseBar = [c \in Continuation |-> phaseBar[c]]
  /\ signalBar = [c \in Continuation |-> signalBar[c]]

LEMMA BarsAreFunctions == BarFunctions
<1>1. phaseBar = [c \in Continuation |-> phaseBar[c]]
  BY DEF phaseBar
<1>2. signalBar = [c \in Continuation |-> signalBar[c]]
  BY DEF signalBar
<1> QED
  BY <1>1, <1>2 DEF BarFunctions

LEMMA BarsAreFunctionsNext == BarFunctions'
  BY BarsAreFunctions, PTL

LEMMA BarsNext == SlotInv' => BarsAgree'
  BY Bars, PTL

(* A step that claims and parks nothing is none of the handoff's.          *)
LEMMA BarsStay ==
  ASSUME SlotInv, SlotInv', UNCHANGED <<invoked, told>>,
         \A c \in Continuation : Parked(c)' <=> Parked(c),
         \A c \in Continuation : Claimed(c)' <=> Claimed(c),
         \A t \in Thread, c \in Continuation : Claims(t, c) =>
            Claims(t, c)' /\ call'[t].op = call[t].op /\ call'[t].seen = call[t].seen
  PROVE  UNCHANGED <<phaseBar, signalBar>>
<1>1. ASSUME NEW c \in Continuation
      PROVE  phaseBar'[c] = phaseBar[c] /\ signalBar'[c] = signalBar[c]
  <2>1. phaseBar'[c] = phaseBar[c]
    BY Bars, BarsNext DEF BarsAgree, BarOf
  <2>2. CASE Claimed(c)
    <3>1. PICK t \in Thread : Claims(t, c)
      BY <2>2 DEF Claimed
    <3>2. signalBar[c] = SignalOf(call[t].op, call[t].seen)
      BY <3>1, Bars DEF BarsAgree, BarOf
    <3>3. signalBar'[c] = SignalOf(call'[t].op, call'[t].seen)
      BY <3>1, BarsNext DEF BarsAgree, BarOf
    <3> QED
      BY <2>1, <3>1, <3>2, <3>3
  <2>3. CASE ~Claimed(c)
    <3>1. signalBar[c] = told[c] /\ signalBar'[c] = told'[c]
      BY <2>3, Bars, BarsNext DEF BarsAgree, BarOf
    <3> QED
      BY <2>1, <3>1
  <2> QED
    BY <2>2, <2>3
<1>2. phaseBar' = phaseBar
  BY <1>1 DEF phaseBar
<1>3. signalBar' = signalBar
  BY <1>1 DEF signalBar
<1> QED
  BY <1>2, <1>3

(* A step of t alone that leaves its claim, if it has one, as it was.      *)
LEMMA PrivateStutter ==
  ASSUME SlotInv, SlotInv', NEW t \in Thread, UNCHANGED <<shared, invoked, told>>,
         \A u \in Thread : u # t => call'[u] = call[u],
         \A c \in Continuation : Claims(t, c)' <=> Claims(t, c),
         \A c \in Continuation : Claims(t, c) =>
            call'[t].op = call[t].op /\ call'[t].seen = call[t].seen
  PROVE  UNCHANGED Handoff!vars
<1>1. \A u \in Thread, c \in Continuation : Claims(u, c)' <=> Claims(u, c)
  BY DEF Claims, shared
<1>2. \A c \in Continuation : (Claimed(c)' <=> Claimed(c)) /\ (Parked(c)' <=> Parked(c))
  BY <1>1 DEF Claimed, Parked, shared
<1>3. UNCHANGED <<phaseBar, signalBar>>
  BY <1>1, <1>2, BarsStay
<1>4. slotBar' = slotBar
  BY DEF slotBar, shared
<1> QED
  BY <1>3, <1>4 DEF Handoff!vars

(* A step with which t makes the claim, when there was none.               *)
LEMMA BarsClaim ==
  ASSUME SlotInv, SlotInv', NEW t \in Thread, NEW c \in Continuation,
         UNCHANGED <<invoked, told>>, Claims(t, c)', state' # "Stored",
         \A d \in Continuation : ~Claimed(d) /\ (d # c => ~Parked(d))
  PROVE  Handoff!Claim(c, SignalOf(call'[t].op, call'[t].seen))
<1>1. BarsAgree /\ BarsAgree'
  BY Bars, BarsNext
<1>2. Only(c)'
  BY <1>1 DEF BarsAgree, BarOf
<1>3. \A d \in Continuation : Claimed(d)' <=> d = c
  BY <1>1, <1>2 DEF BarsAgree, BarOf, Only, Claimed
<1>4. \A d \in Continuation : ~Parked(d)'
  BY DEF Parked
<1>5. phaseBar' = [phaseBar EXCEPT ![c] = "claimed"]
  <2>1. \A d \in Continuation : phaseBar'[d] = IF d = c THEN "claimed" ELSE phaseBar[d]
    BY <1>1, <1>3, <1>4 DEF BarsAgree, BarOf
  <2> QED
    BY <2>1, BarsAreFunctions, BarsAreFunctionsNext DEF BarFunctions
<1>6. signalBar' = [signalBar EXCEPT ![c] = SignalOf(call'[t].op, call'[t].seen)]
  <2>1. signalBar'[c] = SignalOf(call'[t].op, call'[t].seen)
    BY <1>1 DEF BarsAgree, BarOf
  <2>2. \A d \in Continuation : d # c => signalBar'[d] = signalBar[d]
    BY <1>1, <1>3 DEF BarsAgree, BarOf
  <2> QED
    BY <2>1, <2>2, BarsAreFunctions, BarsAreFunctionsNext DEF BarFunctions
<1> QED
  BY <1>5, <1>6 DEF Handoff!Claim

(* What the consumer stores, it may offer: nothing else is on its way.     *)
LEMMA StoreOffers ==
  ASSUME SlotInv, NEW t \in Thread, Storing(t), call[t].at \in {"read", "cas"}
  PROVE  /\ call[t].arg \in Continuation
         /\ Handoff!Offers(call[t].arg)
         /\ state # "Stored"
         /\ \A d \in Continuation : ~Claimed(d) /\ ~Parked(d)
<1>1. Busy(t) /\ state # "Stored"
  BY DEF SlotInv, OneUser, Busy
<1>2. Only(call[t].arg)
  BY <1>1 DEF SlotInv, OwnerHoldsPending
<1>3. \A d \in Continuation : ~Claimed(d) /\ ~Parked(d)
  <2>1. \A u \in Thread : Busy(u) => u = t
    BY <1>1 DEF SlotInv, OneUser
  <2>2. \A d \in Continuation : ~Claims(t, d)
    BY DEF Claims
  <2> QED
    BY <1>1, <2>1, <2>2, ClaimsAreOwned DEF Claimed, Parked
<1>4. Handoff!Offers(call[t].arg)
  BY <1>2, <1>3, Bars DEF BarsAgree, BarOf, Handoff!Offers, Only, Pending
<1> QED
  BY <1>1, <1>2, <1>3, <1>4 DEF Only

LEMMA ReadHandsOff ==
  ASSUME SlotInv, SlotInv', NEW t \in Thread, ReadState(t)
  PROVE  [Handoff!Next]_(Handoff!vars)
<1> DEFINE f == [call[t] EXCEPT !.seen = state]
           l == AfterRead(f.op, state)
           g == IF f.op = "store" /\ state = "Cancelled" THEN Own(f) ELSE f
<1>0. call \in [Thread -> Frame] /\ state \in SlotState
  BY DEF SlotInv, TypeOK
<1>1. f \in Frame /\ g \in Frame /\ l \in Label
  BY <1>0 DEF Frame, Own, AfterRead, Op, SlotState, Label
<1>2. /\ call'[t] = IF l = "idle" THEN Idle ELSE [g EXCEPT !.at = l]
      /\ call[t].at = "read"
      /\ \A u \in Thread : u # t => call'[u] = call[u]
      /\ UNCHANGED <<shared, invoked, told>>
  BY <1>0, <1>1, GotoTyped DEF ReadState, history
<1>3. /\ g.op = call[t].op /\ g.arg = call[t].arg /\ g.seen = state
      /\ f.op = call[t].op /\ call[t].op \in Op
      /\ g.op = "store" /\ state = "Cancelled" => g.ptr = g.arg /\ g.data = g.arg
  BY <1>0 DEF Own, Frame
<1>4. \A c \in Continuation : ~Claims(t, c)
  BY <1>2 DEF Claims
<1> HIDE DEF f, g
<1>5. CASE call[t].op = "store" /\ state = "Cancelled"
  <2>1. PICK c \in Continuation : c = call[t].arg
    BY <1>2, <1>5, StoreOffers DEF Storing
  <2>2. Handoff!Offers(c) /\ \A d \in Continuation : ~Claimed(d) /\ ~Parked(d)
    BY <1>2, <1>5, <2>1, StoreOffers DEF Storing
  <2>3. l = "invoke"
    BY <1>3, <1>5 DEF AfterRead
  <2> HIDE DEF l
  <2>4. /\ call'[t].at = "invoke" /\ call'[t].op = "store" /\ call'[t].seen = "Cancelled"
        /\ call'[t].data = c
    BY <1>1, <1>2, <1>3, <1>5, <2>1, <2>3 DEF Frame
  <2>5. Claims(t, c)' /\ SignalOf(call'[t].op, call'[t].seen) = "cancelled"
    BY <2>4 DEF Claims, SignalOf
  <2>6. slotBar' = slotBar /\ slotBar = "Cancelled" /\ state' # "Stored"
    BY <1>2, <1>5 DEF slotBar, shared
  <2>7. Handoff!Claim(c, "cancelled")
    BY <1>2, <2>2, <2>5, <2>6, BarsClaim
  <2> QED
    BY <2>2, <2>6, <2>7 DEF Handoff!Refuse, Handoff!Next
<1>6. CASE ~(call[t].op = "store" /\ state = "Cancelled")
  <2>1. Storing(t) => state # "Stored"
    BY <1>2, StoreOffers
  <2>2. l \in {"writeData", "cas", "idle"}
    BY <1>0, <1>2, <1>3, <1>6, <2>1 DEF AfterRead, Op, SlotState, Storing
  <2> HIDE DEF l
  <2>3. call'[t].at \in {"writeData", "cas", "idle"}
    BY <1>1, <1>2, <2>2 DEF Frame, Idle
  <2>4. \A c \in Continuation : ~Claims(t, c)'
    BY <2>3 DEF Claims
  <2> QED
    BY <1>2, <1>4, <2>4, PrivateStutter
<1> QED
  BY <1>5, <1>6

(* The parked continuation, which only a wake or a cancel takes.           *)
ParkedAlone ==
  state = "Stored" =>
    /\ callback_data \in Continuation
    /\ \A d \in Continuation : ~Claimed(d) /\ (d # callback_data => ~Parked(d))

LEMMA StoredIsParked == SlotInv => ParkedAlone
  BY ClaimsAreOwned DEF SlotInv, OneUser, OwnerHoldsPending, Only, Busy, Claimed, Parked,
                        ParkedAlone

LEMMA StoredIsParkedNext == SlotInv' => ParkedAlone'
  BY StoredIsParked, PTL

LEMMA TransitionHandsOff ==
  ASSUME SlotInv, SlotInv', NEW t \in Thread, TryTransition(t)
  PROVE  [Handoff!Next]_(Handoff!vars)
<1> DEFINE f == call[t]
           l == AfterTransition(f.op, f.seen)
           g == IF f.op = "store" THEN Own(f) ELSE f
<1>0. call \in [Thread -> Frame] /\ state \in SlotState /\ FrameAgrees(f)
  BY DEF SlotInv, TypeOK, LocalsAgree
<1>1. f \in Frame /\ g \in Frame /\ l \in Label /\ "read" \in Label
  BY <1>0 DEF Frame, Own, AfterTransition, Op, SlotState, Label
<1>2. /\ f.at = "cas" /\ f.op \in Op
      /\ UNCHANGED <<callback_ptr, callback_data, invoked, told>>
      /\ \A c \in Continuation : ~Claims(t, c)
  BY <1>1 DEF TryTransition, history, Frame, Claims
<1>3. CASE state # f.seen
  <2>1. /\ UNCHANGED shared
        /\ call'[t] = [f EXCEPT !.at = "read"]
        /\ \A u \in Thread : u # t => call'[u] = call[u]
    BY <1>0, <1>1, <1>3, GotoTyped DEF TryTransition, shared
  <2>2. call'[t].at = "read"
    BY <1>1, <2>1 DEF Frame
  <2>3. \A c \in Continuation : ~Claims(t, c)'
    BY <2>2 DEF Claims
  <2> QED
    BY <1>2, <2>1, <2>3, PrivateStutter
<1>4. CASE state = f.seen
  <2>1. /\ state' = Target(f.op, state)
        /\ call'[t] = IF l = "idle" THEN Idle ELSE [g EXCEPT !.at = l]
        /\ \A u \in Thread : u # t => call'[u] = call[u]
    BY <1>0, <1>1, <1>4, GotoTyped DEF TryTransition
  <2>2. /\ g.op = f.op /\ g.arg = f.arg /\ g.seen = state
        /\ f.op = "store" => g.data = g.arg
    BY <1>1, <1>4 DEF Own, Frame
  <2>3. CASE f.op = "store"
    <3>1. PICK c \in Continuation : c = f.arg
      BY <1>2, <2>3, StoreOffers DEF Storing
    <3>2. Handoff!Offers(c) /\ \A d \in Continuation : ~Claimed(d) /\ ~Parked(d)
      BY <1>2, <2>3, <3>1, StoreOffers DEF Storing
    <3>3. CASE state = "Empty"
      <4>1. state' = "Stored" /\ callback_data' = c /\ slotBar = "Empty" /\ slotBar' = c
        BY <1>0, <1>2, <1>4, <2>1, <2>3, <3>1, <3>3 DEF Target, FrameAgrees, slotBar
      <4>2. \A d \in Continuation : ~Claimed(d)' /\ (Parked(d)' <=> d = c)
        BY <4>1, StoredIsParkedNext DEF ParkedAlone, Parked
      <4>3. \A d \in Continuation :
              /\ phaseBar'[d] = IF d = c THEN "parked" ELSE phaseBar[d]
              /\ signalBar'[d] = signalBar[d]
        BY <1>2, <3>2, <4>2, Bars, BarsNext DEF BarsAgree, BarOf
      <4>4. phaseBar' = [phaseBar EXCEPT ![c] = "parked"] /\ signalBar' = signalBar
        BY <4>3, BarsAreFunctions, BarsAreFunctionsNext DEF BarFunctions
      <4> QED
        BY <3>2, <4>1, <4>4 DEF Handoff!Park, Handoff!Next
    <3>4. CASE state = "Waked"
      <4>1. state' = "Empty" /\ l = "invoke" /\ slotBar = "Waked" /\ slotBar' = "Empty"
        BY <1>4, <2>1, <2>3, <3>4 DEF AfterTransition, Target, slotBar
      <4> HIDE DEF f, g, l
      <4>2. /\ call'[t].at = "invoke" /\ call'[t].op = "store" /\ call'[t].seen = "Waked"
            /\ call'[t].data = c
        BY <1>1, <2>1, <2>2, <2>3, <3>1, <3>4, <4>1 DEF Frame
      <4>3. Claims(t, c)' /\ SignalOf(call'[t].op, call'[t].seen) = "wake"
        BY <4>2 DEF Claims, SignalOf
      <4>4. Handoff!Claim(c, "wake")
        BY <1>2, <3>2, <4>1, <4>3, BarsClaim
      <4> QED
        BY <3>2, <4>1, <4>4 DEF Handoff!TakeBufferedWake, Handoff!Next
    <3> QED
      BY <1>0, <1>2, <1>4, <2>3, <3>3, <3>4 DEF FrameAgrees
  <2>4. CASE f.op # "store" /\ state = "Stored"
    <3>1. PICK c \in Continuation : c = callback_data
      BY <2>4, StoredIsParked DEF ParkedAlone
    <3>2. \A d \in Continuation : ~Claimed(d) /\ (d # c => ~Parked(d))
      BY <2>4, <3>1, StoredIsParked DEF ParkedAlone
    <3>3. l = "loadPtr" /\ slotBar = c
      BY <1>2, <1>4, <2>4, <3>1 DEF AfterTransition, Op, slotBar
    <3>4. \/ f.op = "wake" /\ state' = "Empty" /\ slotBar' = "Empty"
          \/ f.op = "cancel" /\ state' = "Cancelled" /\ slotBar' = "Cancelled"
      BY <1>2, <2>1, <2>4 DEF Op, Target, slotBar
    <3> HIDE DEF f, g, l
    <3>5. call'[t].at = "loadPtr" /\ call'[t].op = f.op /\ call'[t].seen = "Stored"
      BY <1>1, <2>1, <2>2, <2>4, <3>3 DEF Frame
    <3>6. Claims(t, c)'
      BY <1>2, <3>1, <3>5 DEF Claims
    <3>7. Handoff!Claim(c, SignalOf(f.op, "Stored"))
      BY <1>2, <3>2, <3>4, <3>5, <3>6, BarsClaim
    <3>8. SignalOf(f.op, "Stored") = IF f.op = "wake" THEN "wake" ELSE "cancelled"
      BY <3>4 DEF SignalOf
    <3> QED
      BY <3>3, <3>4, <3>7, <3>8 DEF Handoff!WakeParked, Handoff!CancelParked, Handoff!Next
  <2>5. CASE f.op # "store" /\ state # "Stored"
    <3>1. state' # "Stored" /\ call'[t].at = "idle"
      BY <1>2, <1>4, <2>1, <2>5 DEF AfterTransition, Target, Op, Idle
    <3>2. \A u \in Thread, c \in Continuation : Claims(u, c)' <=> Claims(u, c)
      BY <1>2, <2>1, <3>1 DEF Claims
    <3>3. \A c \in Continuation : (Claimed(c)' <=> Claimed(c)) /\ (Parked(c)' <=> Parked(c))
      BY <2>5, <3>1, <3>2 DEF Claimed, Parked
    <3>4. UNCHANGED <<phaseBar, signalBar>>
      BY <1>2, <2>1, <3>2, <3>3, BarsStay
    <3>5. slotBar = state /\ slotBar' = state'
      BY <2>5, <3>1 DEF slotBar
    <3>6. \/ slotBar = "Empty" /\ slotBar' = "Waked"
          \/ slotBar \in {"Empty", "Waked"} /\ slotBar' = "Cancelled"
          \/ slotBar' = slotBar
      BY <1>0, <1>2, <1>4, <2>1, <2>5, <3>5 DEF Target, Op, SlotState, FrameAgrees
    <3> QED
      BY <3>4, <3>6 DEF Handoff!BufferWake, Handoff!CancelIdle, Handoff!Next, Handoff!vars
  <2> QED
    BY <2>3, <2>4, <2>5
<1> QED
  BY <1>3, <1>4

(* The calls, the stores and the loads are none of the handoff's.          *)
LEMMA EnterStutters ==
  ASSUME SlotInv, SlotInv', NEW t \in Thread,
         (\E c \in Continuation : CallStore(t, c)) \/ CallWake(t) \/ CallCancel(t)
  PROVE  UNCHANGED Handoff!vars
<1>1. /\ call[t].at = "idle" /\ call'[t].at = "read"
      /\ \A u \in Thread : u # t => call'[u] = call[u]
      /\ UNCHANGED <<shared, invoked, told>>
  BY DEF CallStore, CallWake, CallCancel, Enter, Goto, Idle, SlotInv, TypeOK
<1>2. \A c \in Continuation : ~Claims(t, c) /\ ~Claims(t, c)'
  BY <1>1 DEF Claims
<1> QED
  BY <1>1, <1>2, PrivateStutter

LEMMA WriteStutters ==
  ASSUME SlotInv, SlotInv', NEW t \in Thread, WriteData(t) \/ WritePtr(t)
  PROVE  UNCHANGED Handoff!vars
<1>1. /\ call[t].at \in {"writeData", "writePtr"} /\ call[t].op = "store"
      /\ call'[t].at \in {"writePtr", "cas", "idle"}
      /\ \A u \in Thread : u # t => call'[u] = call[u]
      /\ UNCHANGED <<state, invoked, told>>
  <2>1. FrameAgrees(call[t]) /\ call \in [Thread -> Frame] /\ call[t] \in Frame
    BY DEF SlotInv, LocalsAgree, TypeOK
  <2>2. "writePtr" \in Label /\ "cas" \in Label /\ "idle" \in Label
    BY DEF Label
  <2>3. CASE WriteData(t)
    <3>1. call[t].at = "writeData" /\ Goto(t, "writePtr", call[t])
          /\ UNCHANGED <<state, invoked, told>>
      BY <2>3 DEF WriteData, history
    <3>2. call[t].op = "store"
      BY <2>1, <3>1 DEF FrameAgrees
    <3>3. /\ call'[t] = [call[t] EXCEPT !.at = "writePtr"]
          /\ \A u \in Thread : u # t => call'[u] = call[u]
      BY <2>1, <2>2, <3>1, GotoTyped
    <3>4. call'[t].at = "writePtr"
      BY <2>1, <3>3 DEF Frame
    <3> QED
      BY <3>1, <3>2, <3>3, <3>4
  <2>4. CASE WritePtr(t)
    <3> DEFINE l == IF call[t].seen = "Empty" THEN "cas" ELSE "idle"
    <3>1. call[t].at = "writePtr" /\ Goto(t, l, call[t]) /\ UNCHANGED <<state, invoked, told>>
      BY <2>4 DEF WritePtr, history
    <3>2. call[t].op = "store" /\ l = "cas"
      BY <2>1, <3>1 DEF FrameAgrees
    <3>3. /\ call'[t] = [call[t] EXCEPT !.at = "cas"]
          /\ \A u \in Thread : u # t => call'[u] = call[u]
      BY <2>1, <2>2, <3>1, <3>2, GotoTyped
    <3>4. call'[t].at = "cas"
      BY <2>1, <3>3 DEF Frame
    <3> QED
      BY <3>1, <3>2, <3>3, <3>4
  <2> QED
    BY <2>3, <2>4
<1>2. state # "Stored" /\ \A u \in Thread : Busy(u) => u = t
  BY <1>1 DEF SlotInv, OneUser, Busy, Storing
<1>3. \A u \in Thread, c \in Continuation : ~Claims(u, c) /\ ~Claims(u, c)'
  BY <1>1, <1>2 DEF Claims, Busy
<1>4. UNCHANGED <<phaseBar, signalBar>>
  BY <1>1, <1>2, <1>3, BarsStay DEF Claimed, Parked
<1>5. slotBar' = slotBar
  BY <1>1, <1>2 DEF slotBar
<1> QED
  BY <1>4, <1>5 DEF Handoff!vars

LEMMA LoadStutters ==
  ASSUME SlotInv, SlotInv', NEW t \in Thread, LoadPtr(t) \/ LoadData(t)
  PROVE  UNCHANGED Handoff!vars
<1>1. /\ call[t].at \in {"loadPtr", "loadData"}
      /\ call'[t].op = call[t].op /\ call'[t].seen = call[t].seen
      /\ \/ call'[t].at = "loadData"
         \/ call'[t].at = "invoke" /\ call'[t].data = callback_data
      /\ \A u \in Thread : u # t => call'[u] = call[u]
      /\ UNCHANGED <<shared, invoked, told>>
  <2> DEFINE p == [call[t] EXCEPT !.ptr = callback_ptr]
             d == [call[t] EXCEPT !.data = callback_data]
  <2>1. call \in [Thread -> Frame] /\ p \in Frame /\ d \in Frame
    BY DEF SlotInv, TypeOK, Frame
  <2>2. "loadData" \in Label /\ "invoke" \in Label
    BY DEF Label
  <2>3. /\ p.op = call[t].op /\ p.seen = call[t].seen
        /\ d.op = call[t].op /\ d.seen = call[t].seen /\ d.data = callback_data
    BY <2>1 DEF Frame
  <2>4. /\ LoadPtr(t) => call[t].at = "loadPtr" /\ Goto(t, "loadData", p)
        /\ LoadData(t) => call[t].at = "loadData" /\ Goto(t, "invoke", d)
        /\ UNCHANGED <<shared, invoked, told>>
    BY DEF LoadPtr, LoadData, history
  <2> HIDE DEF p, d
  <2>5. CASE LoadPtr(t)
    <3>1. /\ call'[t] = [p EXCEPT !.at = "loadData"]
          /\ \A u \in Thread : u # t => call'[u] = call[u]
      BY <2>1, <2>2, <2>4, <2>5, GotoTyped
    <3>2. call'[t].at = "loadData" /\ call'[t].op = p.op /\ call'[t].seen = p.seen
      BY <2>1, <3>1 DEF Frame
    <3> QED
      BY <2>3, <2>4, <2>5, <3>1, <3>2
  <2>6. CASE LoadData(t)
    <3>1. /\ call'[t] = [d EXCEPT !.at = "invoke"]
          /\ \A u \in Thread : u # t => call'[u] = call[u]
      BY <2>1, <2>2, <2>4, <2>6, GotoTyped
    <3>2. /\ call'[t].at = "invoke" /\ call'[t].op = d.op /\ call'[t].seen = d.seen
          /\ call'[t].data = d.data
      BY <2>1, <3>1 DEF Frame
    <3> QED
      BY <2>3, <2>4, <2>6, <3>1, <3>2
  <2> QED
    BY <2>5, <2>6
<1>2. \A c \in Continuation : Claims(t, c)' <=> Claims(t, c)
  BY <1>1 DEF Claims, shared
<1> QED
  BY <1>1, <1>2, PrivateStutter

(* A continuation is delivered by the thread that claimed it.              *)
LEMMA InvokeHandsOff ==
  ASSUME SlotInv, SlotInv', NEW t \in Thread, Invoke(t)
  PROVE  [Handoff!Next]_(Handoff!vars)
<1>1. Busy(t) /\ call[t].at = "invoke"
  BY DEF Invoke, Busy
<1>2. PICK c \in Continuation : Only(c) /\ call[t].ptr = c /\ call[t].data = c
  BY <1>1 DEF SlotInv, OwnerHoldsPending, LocalsAgree, FrameAgrees, Storing, Only
<1>3. /\ invoked' = [invoked EXCEPT ![c] = @ + 1]
      /\ told' = [told EXCEPT ![c] = SignalOf(call[t].op, call[t].seen)]
      /\ UNCHANGED shared
  BY <1>2, NullAssumption DEF Invoke
<1>4. call'[t].at \in {"idle", "writeData"} /\ \A u \in Thread : u # t => call'[u] = call[u]
  BY DEF Invoke, Goto, Idle, SlotInv, TypeOK, Frame, Label
<1>5. state # "Stored" /\ state' # "Stored" /\ \A u \in Thread : Busy(u) => u = t
  BY <1>1, <1>3 DEF SlotInv, OneUser, shared
<1>6. /\ Claims(t, c) /\ \A u \in Thread, d \in Continuation : Claims(u, d) => d = c
      /\ \A u \in Thread, d \in Continuation : ~Claims(u, d)'
  BY <1>1, <1>2, <1>4, <1>5 DEF Claims, Busy
<1>7. /\ \A d \in Continuation : ~Claimed(d)' /\ ~Parked(d)' /\ ~Parked(d)
      /\ \A d \in Continuation : Claimed(d) <=> d = c
  BY <1>5, <1>6 DEF Claimed, Parked
<1>8. invoked[c] = 0 /\ invoked \in [Continuation -> Nat]
      /\ told \in [Continuation -> Signal \cup {"none"}]
  BY <1>2 DEF Only, Pending, SlotInv, TypeOK
<1>9. \A d \in Continuation :
        /\ invoked'[d] = IF d = c THEN 1 ELSE invoked[d]
        /\ told'[d] = IF d = c THEN SignalOf(call[t].op, call[t].seen) ELSE told[d]
  BY <1>3, <1>8
<1>10. \A d \in Continuation :
         phaseBar'[d] = IF d = c THEN "delivered" ELSE phaseBar[d]
  BY <1>7, <1>9, Bars, BarsNext DEF BarsAgree, BarOf
<1>11. \A d \in Continuation : signalBar'[d] = signalBar[d]
  BY <1>6, <1>7, <1>9, Bars, BarsNext DEF BarsAgree, BarOf
<1>12. phaseBar' = [phaseBar EXCEPT ![c] = "delivered"] /\ signalBar' = signalBar
  BY <1>10, <1>11, BarsAreFunctions, BarsAreFunctionsNext DEF BarFunctions
<1>13. phaseBar[c] = "claimed"
  BY <1>7, <1>8, Bars DEF BarsAgree, BarOf
<1>14. slotBar' = slotBar
  BY <1>3 DEF slotBar, shared
<1> QED
  BY <1>12, <1>13, <1>14 DEF Handoff!Deliver, Handoff!Next

LEMMA HandoffInit == Init => Handoff!Init
<1> SUFFICES ASSUME Init PROVE Handoff!Init
  OBVIOUS
<1>1. SlotInv
  BY SlotInit
<1>2. \A c \in Continuation : ~Claimed(c) /\ ~Parked(c)
  BY DEF Init, Idle, Claimed, Claims, Parked
<1>3. \A c \in Continuation : phaseBar[c] = "fresh" /\ signalBar[c] = "none"
  BY <1>1, <1>2, Bars DEF BarsAgree, BarOf, Init
<1>4. slotBar = "Empty"
  BY DEF Init, slotBar
<1> QED
  BY <1>3, <1>4, BarsAreFunctions DEF BarFunctions, Handoff!Init

LEMMA HandoffStep ==
  ASSUME SlotInv, SlotInv', [Next]_vars
  PROVE  [Handoff!Next]_(Handoff!vars)
<1>1. CASE UNCHANGED vars
  BY <1>1 DEF vars, shared, history, Handoff!vars, slotBar, phaseBar, signalBar, Claims
<1>2. ASSUME NEW t \in Thread,
             (\E c \in Continuation : CallStore(t, c)) \/ CallWake(t) \/ CallCancel(t)
      PROVE  UNCHANGED Handoff!vars
  BY <1>2, EnterStutters
<1>3. ASSUME NEW t \in Thread, Run(t) PROVE [Handoff!Next]_(Handoff!vars)
  BY <1>3, ReadHandsOff, TransitionHandsOff, WriteStutters, LoadStutters, InvokeHandsOff DEF Run
<1> QED
  BY <1>1, <1>2, <1>3 DEF Next

(* For a serial consumer the three atomics are one slot: each operation    *)
(* takes effect in one step, at its compare-exchange, and a continuation   *)
(* that was claimed is delivered at most once, with the signal of the      *)
(* claim.  This is the safety part of ImplementsHandoff.                   *)
HandsOff == Handoff!Init /\ [][Handoff!Next]_(Handoff!vars)

THEOREM ImplementsOneSlot ==
  ASSUME ~MayDisplace
  PROVE  Spec => HandsOff
<1>1. Spec => []SlotInv
  BY SlotInit, SlotStep, PTL DEF Spec
<1>2. SlotInv /\ SlotInv' /\ [Next]_vars => [Handoff!Next]_(Handoff!vars)
  BY HandoffStep
<1> QED
  BY <1>1, <1>2, HandoffInit, PTL DEF Spec, HandsOff
=============================================================================
