---------------------------- MODULE StreamProducer ----------------------------
(***************************************************************************)
(* The table of subscribers of a StreamProducer                            *)
(* (boltffi_core/src/runtime/subscription.rs): subscribe, push and         *)
(* subscriber_count take &self, walk the slots without a lock, and keep in *)
(* each slot a raw Weak.  What push does with a subscription it upgraded   *)
(* is EventSubscription's; here it is only a reference held for a while.   *)
(*                                                                         *)
(* A subscription is its address.  The memory behind it is there while it  *)
(* has a strong reference, or a Weak, which a slot holds, or the call that *)
(* has just taken it out of one; after that the allocator may give the     *)
(* same address to another subscription.                                   *)
(***************************************************************************)
EXTENDS Naturals

CONSTANTS Thread,
          Address,
          Null,
          MAX_SUBSCRIBERS,
          MayOverlap       \* FALSE: one thread at a time uses the producer

VARIABLES weak_ptr,  \* the slots
          strong,    \* who holds a strong reference
          call       \* what each thread is doing in the producer

vars == <<weak_ptr, strong, call>>

Slots == 1..MAX_SUBSCRIBERS
Pointer == Address \cup {Null}
Label == {"idle", "clear", "isDead", "cas", "drop", "claim", "load", "upgrade", "push"}

Frame == [at : Label, slot : Slots, ptr : Pointer, new : Pointer]
Idle == [at |-> "idle", slot |-> 1, ptr |-> Null, new |-> Null]

TypeOK ==
  /\ weak_ptr \in [Slots -> Pointer]
  /\ strong \in [Address -> SUBSET (Thread \cup {"host"})]
  /\ call \in [Thread -> Frame]

Init ==
  /\ weak_ptr = [i \in Slots |-> Null]
  /\ strong = [a \in Address |-> {}]
  /\ call = [t \in Thread |-> Idle]

Allocated(a) ==
  \/ strong[a] # {}
  \/ \E i \in Slots : weak_ptr[i] = a
  \/ \E t \in Thread : call[t].at = "drop" /\ call[t].ptr = a

Enters == MayOverlap \/ \A t \in Thread : call[t].at = "idle"

Goto(t, l) == call' = [call EXCEPT ![t].at = l]

(* On to the next slot at l, or past the last one to f.                    *)
NextSlot(t, l, f) ==
  LET i == call[t].slot IN
  call' = [call EXCEPT ![t] =
             IF i < MAX_SUBSCRIBERS
               THEN [call[t] EXCEPT !.at = l, !.slot = i + 1, !.ptr = Null]
               ELSE f]

-----------------------------------------------------------------------------
(* subscribe: the dead slots are cleared, then the first free one claimed. *)

SubscribeCall(t, a) ==
  /\ call[t].at = "idle" /\ Enters
  /\ ~Allocated(a)
  /\ strong' = [strong EXCEPT ![a] = {t}]
  /\ call' = [call EXCEPT ![t] = [Idle EXCEPT !.at = "clear", !.new = a]]
  /\ UNCHANGED weak_ptr

Claiming(t) == [Idle EXCEPT !.at = "claim", !.new = call[t].new]

ClearLoads(t) ==
  LET p == weak_ptr[call[t].slot] IN
  /\ call[t].at = "clear"
  /\ IF p = Null THEN NextSlot(t, "clear", Claiming(t))
                 ELSE call' = [call EXCEPT ![t].at = "isDead", ![t].ptr = p]
  /\ UNCHANGED <<weak_ptr, strong>>

ClearCounts(t) ==
  /\ call[t].at = "isDead"
  /\ IF strong[call[t].ptr] = {} THEN Goto(t, "cas")
                                 ELSE NextSlot(t, "clear", Claiming(t))
  /\ UNCHANGED <<weak_ptr, strong>>

ClearSwaps(t) ==
  LET f == call[t] IN
  /\ f.at = "cas"
  /\ IF weak_ptr[f.slot] = f.ptr
       THEN weak_ptr' = [weak_ptr EXCEPT ![f.slot] = Null] /\ Goto(t, "drop")
       ELSE UNCHANGED weak_ptr /\ NextSlot(t, "clear", Claiming(t))
  /\ UNCHANGED strong

ClearDrops(t) ==
  /\ call[t].at = "drop"
  /\ NextSlot(t, "clear", Claiming(t))
  /\ UNCHANGED <<weak_ptr, strong>>

Returns(a, t) == strong' = [strong EXCEPT ![a] = (@ \ {t}) \cup {"host"}]

(* Past the last slot the subscription is returned without one: no event   *)
(* reaches it.                                                             *)
TryClaim(t) ==
  LET f == call[t] IN
  /\ f.at = "claim"
  /\ IF weak_ptr[f.slot] = Null
       THEN /\ weak_ptr' = [weak_ptr EXCEPT ![f.slot] = f.new]
            /\ Returns(f.new, t)
            /\ call' = [call EXCEPT ![t] = Idle]
       ELSE /\ NextSlot(t, "claim", Idle)
            /\ IF f.slot < MAX_SUBSCRIBERS THEN UNCHANGED strong ELSE Returns(f.new, t)
            /\ UNCHANGED weak_ptr

-----------------------------------------------------------------------------
(* push, and subscriber_count, which upgrades in the same way.             *)

PushCall(t) ==
  /\ call[t].at = "idle" /\ Enters
  /\ call' = [call EXCEPT ![t] = [Idle EXCEPT !.at = "load"]]
  /\ UNCHANGED <<weak_ptr, strong>>

UpgradeLoads(t) ==
  LET p == weak_ptr[call[t].slot] IN
  /\ call[t].at = "load"
  /\ IF p = Null THEN NextSlot(t, "load", Idle)
                 ELSE call' = [call EXCEPT ![t].at = "upgrade", ![t].ptr = p]
  /\ UNCHANGED <<weak_ptr, strong>>

Upgrade(t) ==
  LET a == call[t].ptr IN
  /\ call[t].at = "upgrade"
  /\ IF strong[a] = {}
       THEN NextSlot(t, "load", Idle) /\ UNCHANGED strong
       ELSE strong' = [strong EXCEPT ![a] = @ \cup {t}] /\ Goto(t, "push")
  /\ UNCHANGED weak_ptr

PushReturns(t) ==
  /\ call[t].at = "push"
  /\ strong' = [strong EXCEPT ![call[t].ptr] = @ \ {t}]
  /\ NextSlot(t, "load", Idle)
  /\ UNCHANGED weak_ptr

-----------------------------------------------------------------------------
(* The host frees a subscription: at any time, whatever the producer does. *)
HostFrees(a) ==
  /\ "host" \in strong[a]
  /\ strong' = [strong EXCEPT ![a] = @ \ {"host"}]
  /\ UNCHANGED <<weak_ptr, call>>

Run(t) ==
  \/ ClearLoads(t) \/ ClearCounts(t) \/ ClearSwaps(t) \/ ClearDrops(t)
  \/ TryClaim(t)
  \/ UpgradeLoads(t) \/ Upgrade(t) \/ PushReturns(t)

Next ==
  \/ \E t \in Thread : PushCall(t) \/ Run(t) \/ \E a \in Address : SubscribeCall(t, a)
  \/ \E a \in Address : HostFrees(a)

Spec == Init /\ [][Next]_vars

-----------------------------------------------------------------------------
(* A Weak rebuilt from the pointer of a slot is used only while its memory *)
(* is there (upgrade and clear_if_dead, between their load and their use). *)
NoUseAfterFree ==
  \A t \in Thread : call[t].at \in {"isDead", "upgrade"} => Allocated(call[t].ptr)

(* A subscription that is alive and has a slot keeps it: clear_if_dead     *)
(* never takes it for the dead one it has read before.                     *)
LosesOnlyTheDead ==
  \A i \in Slots : weak_ptr'[i] # weak_ptr[i] =>
    weak_ptr[i] = Null \/ strong[weak_ptr[i]] = {}

StaysRegistered == [][LosesOnlyTheDead]_vars

(* Why it is enough that subscribe meets no other call: what a call loaded *)
(* from a slot is still in that slot, and what it found dead stays dead.   *)
Subscribing(t) == call[t].at \in {"clear", "isDead", "cas", "drop", "claim"}

SubscribesAlone == \A t, u \in Thread : Subscribing(t) /\ call[u].at # "idle" => t = u

FrameAgrees(f) ==
  /\ f.at \in {"isDead", "cas", "upgrade"} => f.ptr \in Address /\ weak_ptr[f.slot] = f.ptr
  /\ f.at = "cas" => strong[f.ptr] = {}
  /\ f.at = "push" => f.ptr \in Address
  /\ f.at \in {"clear", "isDead", "cas", "drop", "claim"} => f.new \in Address

TableInv == TypeOK /\ \A t \in Thread : FrameAgrees(call[t])
=============================================================================
