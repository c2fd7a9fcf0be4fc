------------------------- MODULE StreamProducerProofs -------------------------
(***************************************************************************)
(* A StreamProducer whose subscribe meets no other call never follows a    *)
(* dangling Weak and never unregisters a live subscription, whatever the   *)
(* number of slots, however many threads push and count at once, and       *)
(* whenever the hosts free: the counterpart of the run in which two        *)
(* threads do as they like.  Used by one thread at a time it is such.      *)
(***************************************************************************)
EXTENDS StreamProducer, TLAPS

(* What the code fixes of the constants, and the serial use.               *)
Table ==
  /\ MAX_SUBSCRIBERS \in Nat \ {0}
  /\ Null \notin Address

Serial == Table /\ ~MayOverlap

Alone(t) == \A u \in Thread \ {t} : call[u].at = "idle"

(* What a walk to the next slot leaves: the thread at the next slot, or    *)
(* past the last one with the locals f.                                    *)
LEMMA Walks ==
  ASSUME MAX_SUBSCRIBERS \in Nat \ {0}, TypeOK,
         NEW t \in Thread, NEW l \in Label, NEW f \in Frame, NextSlot(t, l, f)
  PROVE  /\ call' \in [Thread -> Frame]
         /\ \A u \in Thread \ {t} : call'[u] = call[u]
         /\ call'[t] = f \/ (call'[t].at = l /\ call'[t].new = call[t].new)
         /\ call[t].slot = MAX_SUBSCRIBERS => call'[t] = f
<1> DEFINE g == [call[t] EXCEPT !.at = l, !.slot = call[t].slot + 1, !.ptr = Null]
<1>1. call[t] \in Frame
  BY DEF TypeOK
<1>2. ASSUME call[t].slot < MAX_SUBSCRIBERS
      PROVE  g \in Frame /\ g.at = l /\ g.new = call[t].new
  <2>1. call[t].slot + 1 \in Slots
    BY <1>1, <1>2 DEF Frame, Slots
  <2>2. Null \in Pointer
    BY DEF Pointer
  <2> QED
    BY <1>1, <2>1, <2>2 DEF Frame
<1>3. call' = [call EXCEPT ![t] = IF call[t].slot < MAX_SUBSCRIBERS THEN g ELSE f]
  BY DEF NextSlot
<1> HIDE DEF g
<1>4. call'[t] = (IF call[t].slot < MAX_SUBSCRIBERS THEN g ELSE f)
      /\ \A u \in Thread \ {t} : call'[u] = call[u]
  BY <1>3 DEF TypeOK
<1>5. call' \in [Thread -> Frame]
  BY <1>2, <1>3 DEF TypeOK
<1>6. call[t].slot \in Slots
  BY <1>1 DEF Frame
<1> QED
  BY <1>2, <1>4, <1>5, <1>6 DEF Slots

(* What a step within a slot leaves.                                       *)
LEMMA Stays ==
  ASSUME TypeOK, NEW t \in Thread, NEW l \in Label, Goto(t, l)
  PROVE  /\ call' \in [Thread -> Frame]
         /\ \A u \in Thread \ {t} : call'[u] = call[u]
         /\ call'[t] = [call[t] EXCEPT !.at = l]
  BY DEF TypeOK, Goto, Frame

(* It is enough to look at the thread that moved, with the others idle, or *)
(* when it leaves the slots and the dead as they were.                     *)
LEMMA OneMoves ==
  ASSUME TableInv, NEW t \in Thread,
         \/ Alone(t)
         \/ UNCHANGED weak_ptr /\ \A a \in Address : strong[a] = {} => strong'[a] = {},
         call' \in [Thread -> Frame],
         \A u \in Thread \ {t} : call'[u] = call[u],
         weak_ptr' \in [Slots -> Pointer],
         strong' \in [Address -> SUBSET (Thread \cup {"host"})],
         FrameAgrees(call[t])'
  PROVE  TableInv'
<1>1. TypeOK'
  BY DEF TypeOK
<1>2. ASSUME NEW u \in Thread \ {t} PROVE FrameAgrees(call[u])'
  BY <1>2 DEF TableInv, FrameAgrees, Alone
<1> QED
  BY <1>1, <1>2 DEF TableInv

(* A subscribe has the producer to itself.                                 *)
LEMMA SubscriberIsAlone ==
  ASSUME SubscribesAlone, NEW t \in Thread, Subscribing(t)
  PROVE  Alone(t)
  BY DEF SubscribesAlone, Alone

LEMMA InitTable == Table /\ Init => TableInv
  BY DEF Table, Init, TableInv, TypeOK, FrameAgrees, Slots, Pointer, Label, Frame, Idle

(* The records a call starts with.                                         *)
LEMMA Records ==
  ASSUME Table, TypeOK, NEW t \in Thread
  PROVE  /\ Idle \in Frame /\ Idle.at = "idle"
         /\ Claiming(t) \in Frame
         /\ Claiming(t).at = "claim" /\ Claiming(t).new = call[t].new
         /\ call[t] \in Frame /\ call[t].slot \in Slots
<1>1. call[t] \in Frame /\ call[t].slot \in Slots /\ call[t].new \in Pointer
  BY DEF TypeOK, Frame
<1>2. 1 \in Slots /\ Null \in Pointer /\ "idle" \in Label /\ "claim" \in Label
  BY DEF Table, Slots, Pointer, Label
<1>3. Idle \in Frame /\ Idle.at = "idle"
  BY <1>2 DEF Frame, Idle
<1>4. /\ Claiming(t) \in Frame
      /\ Claiming(t).at = "claim" /\ Claiming(t).new = call[t].new
  BY <1>1, <1>2 DEF Frame, Idle, Claiming
<1> QED
  BY <1>1, <1>3, <1>4

(* subscribe keeps the invariant: what it found dead stays dead, since no  *)
(* other call can upgrade it, and stays in its slot.                       *)
LEMMA StepClear ==
  ASSUME Table, TableInv, SubscribesAlone, NEW t \in Thread,
         ClearLoads(t) \/ ClearCounts(t) \/ ClearSwaps(t) \/ ClearDrops(t)
  PROVE  TableInv'
<1> DEFINE f == call[t]
<1>1. TypeOK /\ FrameAgrees(f) /\ f \in Frame /\ f.slot \in Slots
  BY Records DEF TableInv
<1>2. Alone(t)
  BY SubscriberIsAlone DEF Subscribing, ClearLoads, ClearCounts, ClearSwaps, ClearDrops
<1>3. UNCHANGED strong /\ f.new \in Address
  BY <1>1 DEF ClearLoads, ClearCounts, ClearSwaps, ClearDrops, FrameAgrees
<1>4. weak_ptr' \in [Slots -> Pointer] /\ strong' \in [Address -> SUBSET (Thread \cup {"host"})]
  BY <1>1, <1>3 DEF TypeOK, Pointer, ClearLoads, ClearCounts, ClearSwaps, ClearDrops
<1>5. ASSUME NextSlot(t, "clear", Claiming(t)) PROVE TableInv'
  <2>1. FrameAgrees(call[t])'
    BY <1>1, <1>3, <1>5, Walks, Records DEF FrameAgrees, Table, Label
  <2>2. /\ call' \in [Thread -> Frame]
        /\ \A u \in Thread \ {t} : call'[u] = call[u]
    BY <1>1, <1>5, Walks, Records DEF Table, Label
  <2> QED
    BY <1>2, <1>4, <2>1, <2>2, OneMoves
<1>6. CASE ClearLoads(t) /\ weak_ptr[f.slot] # Null
  <2> DEFINE p == weak_ptr[f.slot]
  <2>1. p \in Address
    BY <1>1, <1>6 DEF TypeOK, Pointer
  <2>2. call' = [call EXCEPT ![t] = [f EXCEPT !.at = "isDead", !.ptr = p]]
    BY <1>1, <1>6 DEF ClearLoads, TypeOK, Frame
  <2>3. [f EXCEPT !.at = "isDead", !.ptr = p] \in Frame
    BY <1>1, <2>1 DEF Frame, Label, Pointer
  <2>4. /\ call' \in [Thread -> Frame]
        /\ \A u \in Thread \ {t} : call'[u] = call[u]
        /\ call'[t] = [f EXCEPT !.at = "isDead", !.ptr = p]
    BY <1>1, <2>2, <2>3 DEF TypeOK
  <2>5. FrameAgrees(call[t])'
    BY <1>1, <1>3, <1>6, <2>1, <2>4 DEF FrameAgrees, ClearLoads, Frame
  <2> QED
    BY <1>2, <1>4, <2>4, <2>5, OneMoves
<1>7. CASE ClearCounts(t) /\ strong[f.ptr] = {}
  <2>1. Goto(t, "cas") /\ f.at = "isDead" /\ UNCHANGED <<weak_ptr, strong>>
    BY <1>7 DEF ClearCounts
  <2>2. /\ call' \in [Thread -> Frame]
        /\ \A u \in Thread \ {t} : call'[u] = call[u]
        /\ call'[t] = [f EXCEPT !.at = "cas"]
    BY <1>1, <2>1, Stays DEF Label
  <2>3. FrameAgrees(call[t])'
    BY <1>1, <1>7, <2>1, <2>2 DEF FrameAgrees, Frame
  <2> QED
    BY <1>2, <1>4, <2>2, <2>3, OneMoves
<1>8. CASE ClearSwaps(t) /\ weak_ptr[f.slot] = f.ptr
  <2>1. Goto(t, "drop") /\ f.at = "cas"
    BY <1>8 DEF ClearSwaps
  <2>2. /\ call' \in [Thread -> Frame]
        /\ \A u \in Thread \ {t} : call'[u] = call[u]
        /\ call'[t] = [f EXCEPT !.at = "drop"]
    BY <1>1, <2>1, Stays DEF Label
  <2>3. FrameAgrees(call[t])'
    BY <1>1, <1>3, <2>1, <2>2 DEF FrameAgrees, Frame
  <2> QED
    BY <1>2, <1>4, <2>2, <2>3, OneMoves
<1> QED
  BY <1>5, <1>6, <1>7, <1>8 DEF ClearLoads, ClearCounts, ClearSwaps, ClearDrops

(* A claim takes a slot that is free, or returns without one.              *)
LEMMA StepClaim ==
  ASSUME Table, TableInv, SubscribesAlone, NEW t \in Thread, TryClaim(t)
  PROVE  TableInv'
<1> DEFINE f == call[t]
<1>1. TypeOK /\ FrameAgrees(f) /\ f \in Frame /\ f.slot \in Slots /\ f.at = "claim"
  BY Records DEF TableInv, TryClaim
<1>2. Alone(t)
  BY <1>1, SubscriberIsAlone DEF Subscribing
<1>3. f.new \in Address
  BY <1>1 DEF FrameAgrees
<1>4. weak_ptr' \in [Slots -> Pointer] /\ strong' \in [Address -> SUBSET (Thread \cup {"host"})]
  BY <1>1, <1>3 DEF TypeOK, Pointer, TryClaim, Returns
<1>5. Idle \in Frame /\ Idle.at = "idle"
  BY <1>1, Records
<1>6. CASE call' = [call EXCEPT ![t] = Idle]
  <2>1. /\ call' \in [Thread -> Frame]
        /\ \A u \in Thread \ {t} : call'[u] = call[u]
        /\ call'[t] = Idle
    BY <1>1, <1>5, <1>6 DEF TypeOK
  <2>2. FrameAgrees(call[t])'
    BY <1>5, <2>1 DEF FrameAgrees
  <2> QED
    BY <1>2, <1>4, <2>1, <2>2, OneMoves
<1>7. CASE NextSlot(t, "claim", Idle)
  <2>1. /\ call' \in [Thread -> Frame]
        /\ \A u \in Thread \ {t} : call'[u] = call[u]
        /\ call'[t] = Idle \/ (call'[t].at = "claim" /\ call'[t].new = f.new)
    BY <1>1, <1>5, <1>7, Walks DEF Table, Label
  <2>2. FrameAgrees(call[t])'
    BY <1>3, <1>5, <2>1 DEF FrameAgrees
  <2> QED
    BY <1>2, <1>4, <2>1, <2>2, OneMoves
<1> QED
  BY <1>6, <1>7 DEF TryClaim

(* push: what it upgrades is what it loaded.                               *)
LEMMA StepPush ==
  ASSUME Table, TableInv, NEW t \in Thread,
         UpgradeLoads(t) \/ Upgrade(t) \/ PushReturns(t)
  PROVE  TableInv'
<1> DEFINE f == call[t]
<1>1. TypeOK /\ FrameAgrees(f) /\ f \in Frame /\ f.slot \in Slots
  BY Records DEF TableInv
<1>2. UNCHANGED weak_ptr /\ \A a \in Address : strong[a] = {} => strong'[a] = {}
  BY <1>1 DEF TypeOK, UpgradeLoads, Upgrade, PushReturns
<1>3. weak_ptr' \in [Slots -> Pointer]
  BY <1>1, <1>2 DEF TypeOK
<1>4. f.at \in {"upgrade", "push"} => f.ptr \in Address
  BY <1>1 DEF FrameAgrees
<1>5. strong' \in [Address -> SUBSET (Thread \cup {"host"})]
  BY <1>1, <1>4 DEF TypeOK, UpgradeLoads, Upgrade, PushReturns
<1>6. ASSUME NextSlot(t, "load", Idle) PROVE TableInv'
  <2>1. /\ call' \in [Thread -> Frame]
        /\ \A u \in Thread \ {t} : call'[u] = call[u]
        /\ call'[t] = Idle \/ call'[t].at = "load"
    BY <1>1, <1>6, Walks, Records DEF Table, Label
  <2>2. FrameAgrees(call[t])'
    BY <1>1, <2>1, Records DEF FrameAgrees
  <2> QED
    BY <1>2, <1>3, <1>5, <2>1, <2>2, OneMoves
<1>7. CASE UpgradeLoads(t) /\ weak_ptr[f.slot] # Null
  <2> DEFINE p == weak_ptr[f.slot]
  <2>1. p \in Address
    BY <1>1, <1>7 DEF TypeOK, Pointer
  <2>2. call' = [call EXCEPT ![t] = [f EXCEPT !.at = "upgrade", !.ptr = p]]
    BY <1>1, <1>7 DEF UpgradeLoads, TypeOK, Frame
  <2>3. [f EXCEPT !.at = "upgrade", !.ptr = p] \in Frame
    BY <1>1, <2>1 DEF Frame, Label, Pointer
  <2>4. /\ call' \in [Thread -> Frame]
        /\ \A u \in Thread \ {t} : call'[u] = call[u]
        /\ call'[t] = [f EXCEPT !.at = "upgrade", !.ptr = p]
    BY <1>1, <2>2, <2>3 DEF TypeOK
  <2>5. FrameAgrees(call[t])'
    BY <1>1, <1>2, <1>7, <2>1, <2>4 DEF FrameAgrees, UpgradeLoads, Frame
  <2> QED
    BY <1>2, <1>3, <1>5, <2>4, <2>5, OneMoves
<1>8. CASE Upgrade(t) /\ strong[f.ptr] # {}
  <2>1. Goto(t, "push") /\ f.at = "upgrade"
    BY <1>8 DEF Upgrade
  <2>2. /\ call' \in [Thread -> Frame]
        /\ \A u \in Thread \ {t} : call'[u] = call[u]
        /\ call'[t] = [f EXCEPT !.at = "push"]
    BY <1>1, <2>1, Stays DEF Label
  <2>3. FrameAgrees(call[t])'
    BY <1>1, <1>4, <2>1, <2>2 DEF FrameAgrees, Frame
  <2> QED
    BY <1>2, <1>3, <1>5, <2>2, <2>3, OneMoves
<1> QED
  BY <1>6, <1>7, <1>8 DEF UpgradeLoads, Upgrade, PushReturns

(* A subscribe begins only when no call is under way, and a push leaves    *)
(* everything as it was; a host's free takes a reference away, so what was *)
(* found dead stays dead.                                                  *)
LEMMA StepEnter ==
  ASSUME Table, TableInv, SubscribesAlone', NEW t \in Thread,
         PushCall(t) \/ \E a \in Address : SubscribeCall(t, a)
  PROVE  TableInv'
<1>1. TypeOK /\ Idle \in Frame
  BY Records DEF TableInv
<1>3. PICK g \in Frame :
        /\ call' = [call EXCEPT ![t] = g]
        /\ g.at = "load" \/ (g.at = "clear" /\ g.new \in Address)
  <2>1. CASE PushCall(t)
    <3>1. [Idle EXCEPT !.at = "load"] \in Frame /\ [Idle EXCEPT !.at = "load"].at = "load"
      BY <1>1 DEF Idle, Frame, Label
    <3> QED
      BY <2>1, <3>1 DEF PushCall
  <2>2. ASSUME NEW a \in Address, SubscribeCall(t, a)
        PROVE  \E g \in Frame : /\ call' = [call EXCEPT ![t] = g]
                               /\ g.at = "clear" /\ g.new \in Address
    <3> DEFINE g == [Idle EXCEPT !.at = "clear", !.new = a]
    <3>1. g \in Frame /\ g.at = "clear" /\ g.new = a
      BY <1>1 DEF Idle, Frame, Label, Pointer
    <3>2. call' = [call EXCEPT ![t] = g]
      BY <2>2 DEF SubscribeCall
    <3> QED
      BY <3>1, <3>2
  <2> QED
    BY <2>1, <2>2
<1>4. weak_ptr' \in [Slots -> Pointer] /\ strong' \in [Address -> SUBSET (Thread \cup {"host"})]
  <2>1. CASE PushCall(t)
    BY <1>1, <2>1 DEF TypeOK, PushCall
  <2>2. ASSUME NEW a \in Address, SubscribeCall(t, a)
        PROVE  UNCHANGED weak_ptr /\ strong' \in [Address -> SUBSET (Thread \cup {"host"})]
    BY <1>1, <2>2 DEF TypeOK, SubscribeCall
  <2> QED
    BY <1>1, <2>1, <2>2 DEF TypeOK
<1>5. /\ call' \in [Thread -> Frame]
      /\ \A u \in Thread \ {t} : call'[u] = call[u]
      /\ call'[t] = g
  BY <1>1, <1>3 DEF TypeOK
<1>6. FrameAgrees(call[t])'
  BY <1>3, <1>5 DEF FrameAgrees
<1>7. CASE PushCall(t)
  <2>1. UNCHANGED <<weak_ptr, strong>>
    BY <1>7 DEF PushCall
  <2> QED
    BY <1>4, <1>5, <1>6, <2>1, OneMoves
<1>8. CASE \E a \in Address : SubscribeCall(t, a)
  <2>1. call'[t].at = "clear"
    BY <1>1, <1>8 DEF SubscribeCall, TypeOK, Idle
  <2>2. Alone(t)
    BY <1>5, <2>1 DEF SubscribesAlone, Subscribing, Alone
  <2> QED
    BY <1>4, <1>5, <1>6, <2>2, OneMoves
<1> QED
  BY <1>7, <1>8

LEMMA StepFree ==
  ASSUME TableInv, NEW a \in Address, HostFrees(a)
  PROVE  TableInv'
<1>1. TypeOK'
  BY DEF TableInv, TypeOK, HostFrees
<1>2. ASSUME NEW b \in Address, strong[b] = {} PROVE strong'[b] = {}
  BY <1>2 DEF TableInv, TypeOK, HostFrees
<1>3. ASSUME NEW u \in Thread PROVE FrameAgrees(call[u])'
  <2>1. FrameAgrees(call[u]) /\ UNCHANGED <<weak_ptr, call>>
    BY DEF TableInv, HostFrees
  <2> QED
    BY <1>2, <2>1 DEF FrameAgrees
<1> QED
  BY <1>1, <1>3 DEF TableInv

LEMMA StepTable ==
  ASSUME Table, TableInv, SubscribesAlone, SubscribesAlone', [Next]_vars
  PROVE  TableInv' /\ [LosesOnlyTheDead]_vars
<1>1. TableInv'
  <2>1. ASSUME NEW t \in Thread, PushCall(t) \/ \E a \in Address : SubscribeCall(t, a)
        PROVE  TableInv'
    BY <2>1, StepEnter
  <2>2. ASSUME NEW t \in Thread, Run(t) PROVE TableInv'
    BY <2>2, StepClear, StepClaim, StepPush DEF Run
  <2>3. ASSUME NEW a \in Address, HostFrees(a) PROVE TableInv'
    BY <2>3, StepFree
  <2>4. CASE UNCHANGED vars
    BY <2>4 DEF vars, TableInv, TypeOK, FrameAgrees
  <2> QED
    BY <2>1, <2>2, <2>3, <2>4 DEF Next
<1>2. ASSUME Next, NEW i \in Slots, weak_ptr'[i] # weak_ptr[i]
      PROVE  weak_ptr[i] = Null \/ strong[weak_ptr[i]] = {}
  <2>1. weak_ptr \in [Slots -> Pointer]
    BY DEF TableInv, TypeOK
  <2>2. PICK t \in Thread : ClearSwaps(t) \/ TryClaim(t)
    BY <1>2, <2>1 DEF Next, Run, HostFrees, PushCall, SubscribeCall, ClearLoads, ClearCounts,
                ClearDrops, UpgradeLoads, Upgrade, PushReturns
  <2>3. FrameAgrees(call[t])
    BY DEF TableInv
  <2>4. CASE ClearSwaps(t)
    BY <1>2, <2>1, <2>3, <2>4 DEF ClearSwaps, FrameAgrees
  <2>5. CASE TryClaim(t)
    BY <1>2, <2>1, <2>5 DEF TryClaim
  <2> QED
    BY <2>2, <2>4, <2>5
<1> QED
  BY <1>1, <1>2 DEF LosesOnlyTheDead

(* What a slot points to is what was loaded from it.                       *)
LEMMA TableIsThere == Table /\ TableInv => NoUseAfterFree
<1> SUFFICES ASSUME Table, TableInv, NEW t \in Thread, call[t].at \in {"isDead", "upgrade"}
             PROVE  Allocated(call[t].ptr)
  BY DEF NoUseAfterFree
<1>1. weak_ptr[call[t].slot] = call[t].ptr /\ call[t].slot \in Slots
  BY Records DEF TableInv, FrameAgrees
<1> QED
  BY <1>1 DEF Allocated

(* Any number of threads may push and count at once: as long as subscribe  *)
(* meets no other call, the Weak that upgrade and clear_if_dead rebuild    *)
(* from a slot is not dangling, since the slot still holds it, and         *)
(* clear_if_dead takes no live subscription's slot, whatever the hosts     *)
(* free meanwhile (subscription.rs, SubscriberSlot).                       *)
THEOREM ReadersMayOverlap ==
  Table => (Spec /\ []SubscribesAlone => []NoUseAfterFree /\ StaysRegistered)
<1> SUFFICES ASSUME Table
             PROVE  Spec /\ []SubscribesAlone => []NoUseAfterFree /\ [][LosesOnlyTheDead]_vars
  BY DEF StaysRegistered
<1>1. Init => TableInv
  BY InitTable
<1>2. TableInv /\ SubscribesAlone /\ SubscribesAlone' /\ [Next]_vars =>
        TableInv' /\ [LosesOnlyTheDead]_vars
  BY StepTable
<1>3. TableInv => NoUseAfterFree
  BY TableIsThere
<1> QED
  BY <1>1, <1>2, <1>3, PTL DEF Spec

-----------------------------------------------------------------------------
(* The serial use: one call at a time.                                     *)
OneCall == \A t, u \in Thread : call[t].at # "idle" /\ call[u].at # "idle" => t = u

LEMMA StepOneCall ==
  ASSUME Serial, TypeOK, OneCall, [Next]_vars
  PROVE  OneCall'
<1>1. ASSUME NEW t \in Thread, \A u \in Thread \ {t} : call'[u] = call[u], Alone(t)
      PROVE  OneCall'
  BY <1>1 DEF OneCall, Alone
<1>2. ASSUME NEW t \in Thread, PushCall(t) \/ \E a \in Address : SubscribeCall(t, a)
      PROVE  OneCall'
  <2>1. Alone(t)
    BY <1>2 DEF Serial, PushCall, SubscribeCall, Enters, Alone
  <2>2. \A u \in Thread \ {t} : call'[u] = call[u]
    BY <1>2 DEF PushCall, SubscribeCall, TypeOK
  <2> QED
    BY <1>1, <2>1, <2>2
<1>3. ASSUME NEW t \in Thread, Run(t) PROVE OneCall'
  <2> USE DEF Run, ClearLoads, ClearCounts, ClearSwaps, ClearDrops, TryClaim, UpgradeLoads, Upgrade,
              PushReturns
  <2>1. Alone(t)
    BY <1>3 DEF OneCall, Alone
  <2>2. \A u \in Thread \ {t} : call'[u] = call[u]
    BY <1>3 DEF NextSlot, Goto, TypeOK
  <2> QED
    BY <1>1, <2>1, <2>2
<1>4. ASSUME NEW a \in Address, HostFrees(a) PROVE OneCall'
  BY <1>4 DEF HostFrees, OneCall
<1>5. CASE UNCHANGED vars
  BY <1>5 DEF vars, OneCall
<1> QED
  BY <1>2, <1>3, <1>4, <1>5 DEF Next

(* A producer that one thread at a time uses has no overlapping subscribe. *)
THEOREM SerialSubscribesAlone == Serial => (Spec => []SubscribesAlone)
<1> SUFFICES ASSUME Serial PROVE Spec => []SubscribesAlone
  OBVIOUS
<1>1. OneCall => SubscribesAlone
  BY DEF OneCall, SubscribesAlone, Subscribing
<1>2. Init => TableInv /\ OneCall
  BY InitTable DEF Serial, Init, OneCall, Idle
<1>3. TableInv /\ OneCall /\ [Next]_vars => TableInv' /\ OneCall'
  <2> SUFFICES ASSUME TableInv, OneCall, [Next]_vars PROVE TableInv' /\ OneCall'
    OBVIOUS
  <2>1. OneCall'
    BY StepOneCall DEF TableInv
  <2>2. SubscribesAlone /\ SubscribesAlone'
    BY <1>1, <2>1, PTL
  <2> QED
    BY <2>1, <2>2, StepTable DEF Serial
<1> QED
  BY <1>1, <1>2, <1>3, PTL DEF Spec

(* One thread at a time: no call follows a dangling Weak.                  *)
THEOREM NoDanglingWeak == Serial => (Spec => []NoUseAfterFree)
<1>1. Serial => Table
  BY DEF Serial
<1> QED
  BY <1>1, ReadersMayOverlap, SerialSubscribesAlone

(* One thread at a time: clear_if_dead never takes the slot of a live      *)
(* subscription, so a subscriber goes on being reached by push.            *)
THEOREM LiveStaysRegistered == Serial => (Spec => StaysRegistered)
<1>1. Serial => Table
  BY DEF Serial
<1> QED
  BY <1>1, ReadersMayOverlap, SerialSubscribesAlone
=============================================================================
