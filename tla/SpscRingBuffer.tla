--------------------------- MODULE SpscRingBuffer ---------------------------
(***************************************************************************)
(* The ring buffer between the Rust code that emits events and the host    *)
(* code that reads them (boltffi_core/src/ringbuffer.rs).  A step is one   *)
(* load or store of an index or one access of a slot, so push and pop      *)
(* overlap as two threads make them.  Each index has one writer and is     *)
(* stored with Release and loaded with Acquire by the other side, so the   *)
(* interleavings of these steps are the executions of the code.            *)
(*                                                                         *)
(* The indices are usize: they count modulo Word and are never reset.      *)
(***************************************************************************)
EXTENDS Integers, Sequences

CONSTANTS Producer,    \* threads that call push
          Event,
          Capacity,    \* the capacity asked for, as next_power_of_two left it
          Word,        \* 2^w
          MaxBatch,    \* longest output buffer of pop_batch_into
          MayOverlap,  \* TRUE: two threads may be inside push together
          Empty        \* a slot without a live event

ASSUME CapacityAssumption ==
  /\ Capacity \in Nat \ {0} /\ Word \in Nat
  /\ Capacity < Word /\ Word % Capacity = 0
ASSUME BatchAssumption == MaxBatch \in Nat \ {0}
ASSUME OverlapAssumption == MayOverlap \in BOOLEAN
ASSUME EmptyAssumption == Empty \notin Event

VARIABLES
  buffer,                          \* the slots
  producer_index, consumer_index,
  push,                            \* what each producer is doing
  take,                            \* what the consumer is doing
  alive                            \* FALSE once the ring is dropped

vars == <<buffer, producer_index, consumer_index, push, take, alive>>

Index == 0..(Word - 1)
Slots == 0..(Capacity - 1)
Plus(i, n) == (i + n) % Word
Distance(i, j) == (i - j) % Word      \* usize subtraction i - j

(* Mutant: the mask is one bit short.                                      *)
slot_index_short(i) == i % (IF Capacity > 1 THEN Capacity \div 2 ELSE 1)
slot_index(i) == i % Capacity

(* A call of push: where it is, its event, and the producer index it       *)
(* loaded; between calls, its last answer.                                 *)
PushCall == [at : {"idle", "loadProducer", "loadConsumer", "write", "store"},
             value : Event \cup {Empty}, p : Index,
             answer : {"none", "accepted", "refused"}]

Returned(answer) == [at |-> "idle", value |-> Empty, p |-> 0, answer |-> answer]

(* A call of pop, pop_batch_into or available_count: the most it may take, *)
(* the index it loaded, how many it takes and those it has; between calls, *)
(* its last count.                                                         *)
TakeCall == [at : {"idle", "loadConsumer", "loadProducer", "read", "store",
                   "countProducer", "countConsumer"},
             limit : 0..MaxBatch, i : Index, size : 0..MaxBatch,
             got : Seq(Event \cup {Empty}), count : Index]

Idle == [at |-> "idle", limit |-> 0, i |-> 0, size |-> 0, got |-> <<>>, count |-> 0]

TypeOK ==
  /\ buffer \in [Slots -> Event \cup {Empty}]
  /\ producer_index \in Index
  /\ consumer_index \in Index
  /\ push \in [Producer -> PushCall]
  /\ take \in TakeCall
  /\ alive \in BOOLEAN

Init ==
  /\ buffer = [s \in Slots |-> Empty]
  /\ producer_index = 0
  /\ consumer_index = 0
  /\ push = [t \in Producer |-> Returned("none")]
  /\ take = Idle
  /\ alive = TRUE

-----------------------------------------------------------------------------
(* push.                                                                   *)

Pushing(t) == push[t].at # "idle"

CallPush(t, v) ==
  /\ alive /\ ~Pushing(t)
  /\ MayOverlap \/ \A u \in Producer : ~Pushing(u)
  /\ push' = [push EXCEPT ![t].at = "loadProducer", ![t].value = v, ![t].answer = "none"]
  /\ UNCHANGED <<buffer, producer_index, consumer_index, take, alive>>

PushLoadsProducer(t) ==
  /\ push[t].at = "loadProducer"
  /\ push' = [push EXCEPT ![t].at = "loadConsumer", ![t].p = producer_index]
  /\ UNCHANGED <<buffer, producer_index, consumer_index, take, alive>>

(* Mutants: a ring is full one event later, or one event earlier.          *)
IsFullLate(p, c) == Distance(p, c) = Capacity + 1
IsFullEarly(p, c) == Distance(p, c) = Capacity - 1
IsFull(p, c) == Distance(p, c) = Capacity

PushLoadsConsumer(t) ==
  /\ push[t].at = "loadConsumer"
  /\ push' = [push EXCEPT ![t] = IF IsFull(@.p, consumer_index)
                                   THEN Returned("refused")
                                   ELSE [@ EXCEPT !.at = "write"]]
  /\ UNCHANGED <<buffer, producer_index, consumer_index, take, alive>>

PushWrites(t) ==
  /\ push[t].at = "write"
  /\ buffer' = [buffer EXCEPT ![slot_index(push[t].p)] = push[t].value]
  /\ push' = [push EXCEPT ![t].at = "store"]
  /\ UNCHANGED <<producer_index, consumer_index, take, alive>>

(* Mutant: the event is published but the index moves by two.              *)
PushStoresTwo(t) ==
  /\ push[t].at = "store"
  /\ producer_index' = Plus(push[t].p, 2)
  /\ push' = [push EXCEPT ![t] = Returned("accepted")]
  /\ UNCHANGED <<buffer, consumer_index, take, alive>>

PushStores(t) ==
  /\ push[t].at = "store"
  /\ producer_index' = Plus(push[t].p, 1)
  /\ push' = [push EXCEPT ![t] = Returned("accepted")]
  /\ UNCHANGED <<buffer, consumer_index, take, alive>>

-----------------------------------------------------------------------------
(* pop is pop_batch_into with room for one.                                *)

CallPop(limit) ==
  /\ alive /\ take.at = "idle"
  /\ take' = [Idle EXCEPT !.at = "loadConsumer", !.limit = limit]
  /\ UNCHANGED <<buffer, producer_index, consumer_index, push, alive>>

PopLoadsConsumer ==
  /\ take.at = "loadConsumer"
  /\ take' = [take EXCEPT !.at = "loadProducer", !.i = consumer_index]
  /\ UNCHANGED <<buffer, producer_index, consumer_index, push, alive>>

BatchSize(available, limit) == IF available < limit THEN available ELSE limit

PopLoadsProducer ==
  LET size == BatchSize(Distance(producer_index, take.i), take.limit) IN
  /\ take.at = "loadProducer"
  /\ take' = IF size = 0 THEN Idle ELSE [take EXCEPT !.at = "read", !.size = size]
  /\ UNCHANGED <<buffer, producer_index, consumer_index, push, alive>>

(* assume_init_read moves the event out of its slot.                       *)
PopReads ==
  LET s == slot_index(Plus(take.i, Len(take.got))) IN
  /\ take.at = "read"
  /\ take' = [take EXCEPT !.got = Append(@, buffer[s]),
                !.at = IF Len(take.got) + 1 = take.size THEN "store" ELSE "read"]
  /\ buffer' = [buffer EXCEPT ![s] = Empty]
  /\ UNCHANGED <<producer_index, consumer_index, push, alive>>

PopStores ==
  /\ take.at = "store"
  /\ consumer_index' = Plus(take.i, take.size)
  /\ take' = Idle
  /\ UNCHANGED <<buffer, producer_index, push, alive>>

(* available_count, called by the consumer.                                *)
CallCount ==
  /\ alive /\ take.at = "idle"
  /\ take' = [Idle EXCEPT !.at = "countProducer"]
  /\ UNCHANGED <<buffer, producer_index, consumer_index, push, alive>>

CountLoadsProducer ==
  /\ take.at = "countProducer"
  /\ take' = [take EXCEPT !.at = "countConsumer", !.i = producer_index]
  /\ UNCHANGED <<buffer, producer_index, consumer_index, push, alive>>

(* Mutant: the indices are subtracted the other way round.                 *)
CountLoadsConsumerSwapped ==
  /\ take.at = "countConsumer"
  /\ take' = [Idle EXCEPT !.count = Distance(consumer_index, take.i)]
  /\ UNCHANGED <<buffer, producer_index, consumer_index, push, alive>>

CountLoadsConsumer ==
  /\ take.at = "countConsumer"
  /\ take' = [Idle EXCEPT !.count = Distance(take.i, consumer_index)]
  /\ UNCHANGED <<buffer, producer_index, consumer_index, push, alive>>

(* Mutant: the newest event is left in its slot.                           *)
DropShort ==
  /\ alive /\ take.at = "idle" /\ \A t \in Producer : ~Pushing(t)
  /\ alive' = FALSE
  /\ buffer' = [s \in Slots |->
                  IF \E i \in consumer_index..(producer_index - 2) : s = slot_index(i)
                    THEN Empty ELSE buffer[s]]
  /\ UNCHANGED <<producer_index, consumer_index, push, take>>

(* Drop runs when nobody is left inside; the range it walks is empty when  *)
(* the producer's index has wrapped and the consumer's has not.            *)
Drop ==
  /\ alive /\ take.at = "idle" /\ \A t \in Producer : ~Pushing(t)
  /\ alive' = FALSE
  /\ buffer' = [s \in Slots |->
                  IF \E i \in consumer_index..(producer_index - 1) : s = slot_index(i)
                    THEN Empty ELSE buffer[s]]
  /\ UNCHANGED <<producer_index, consumer_index, push, take>>

RunPush(t) ==
  PushLoadsProducer(t) \/ PushLoadsConsumer(t) \/ PushWrites(t) \/ PushStores(t)

RunTake ==
  \/ PopLoadsConsumer \/ PopLoadsProducer \/ PopReads \/ PopStores
  \/ CountLoadsProducer \/ CountLoadsConsumer

Next ==
  \/ \E t \in Producer : RunPush(t) \/ \E v \in Event : CallPush(t, v)
  \/ \E n \in 0..MaxBatch : CallPop(n)
  \/ CallCount
  \/ RunTake
  \/ Drop

(* A call that was entered returns: nothing in the ring waits.             *)
Spec ==
  /\ Init /\ [][Next]_vars
  /\ \A t \in Producer : WF_vars(RunPush(t))
  /\ WF_vars(RunTake)

-----------------------------------------------------------------------------
(* An event is written only into a slot that holds none, and read only     *)
(* from a slot that holds one: the unsafe blocks of push, pop and          *)
(* pop_batch_into neither leak an event nor read one twice.                *)
SlotsOwned ==
  /\ \A t \in Producer : push[t].at = "write" => buffer[slot_index(push[t].p)] = Empty
  /\ take.at = "read" => buffer[slot_index(Plus(take.i, Len(take.got)))] # Empty

(* Why, as an inductive invariant.                                         *)
(* The slots that hold an event are those from the consumer's index, past  *)
(* the ones being read, to the producer's, and the one being published.    *)
ReadSoFar == IF take.at \in {"read", "store"} THEN Len(take.got) ELSE 0
Written == IF \E t \in Producer : push[t].at = "store" THEN 1 ELSE 0
Held == Distance(producer_index, consumer_index)

LiveSlots ==
  alive => \A k \in Slots :
    (buffer[slot_index(consumer_index + k)] # Empty) <=> (ReadSoFar <= k /\ k < Held + Written)

(* Each side's own index is the one it loaded, and the room or the events  *)
(* it found when it loaded the other's are still there.                    *)
PushAgrees(f) ==
  /\ f.at \in {"loadConsumer", "write", "store"} => f.p = producer_index
  /\ f.at \in {"write", "store"} => Held < Capacity
  /\ f.at # "idle" => f.value \in Event

TakeAgrees ==
  /\ take.at \in {"loadProducer", "read", "store"} => take.i = consumer_index
  /\ take.at \in {"loadConsumer", "loadProducer"} => take.got = <<>>
  /\ take.at \in {"read", "store"} =>
       /\ take.size \in 1..Held
       /\ \A i \in 1..Len(take.got) : take.got[i] # Empty
  /\ take.at = "read" => Len(take.got) < take.size
  /\ take.at = "store" => Len(take.got) = take.size
  /\ take.at = "countConsumer" => Distance(take.i, consumer_index) <= Held

DroppedIdle == ~alive => take.at = "idle" /\ \A t \in Producer : ~Pushing(t)

OneProducer == \A t, u \in Producer : Pushing(t) /\ Pushing(u) => t = u

RingInv ==
  /\ TypeOK
  /\ OneProducer
  /\ DroppedIdle
  /\ Held <= Capacity
  /\ \A t \in Producer : PushAgrees(push[t])
  /\ TakeAgrees
  /\ LiveSlots

(* available_count as the consumer calls it is never more than it can then *)
(* take: poll and wait_for_events report events on the strength of it.     *)
CountIsHonest ==
  [][CountLoadsConsumer => take'.count <= Held /\ Held <= Capacity]_vars

(* Drop leaves no event behind, unless the indices have wrapped.           *)
NothingLeaked ==
  (~alive /\ consumer_index <= producer_index) => \A s \in Slots : buffer[s] = Empty

-----------------------------------------------------------------------------
(* The queue the ring implements.                                          *)

Taking == IF take.at \in {"read", "store"} THEN take.size ELSE 0

Place(k) == buffer[slot_index(Plus(consumer_index, k))]

queueBar ==
  IF alive THEN [k \in 1..(Held - Taking) |-> Place(Taking + k - 1)] ELSE <<>>

heldBar ==
  [k \in 1..Taking |-> IF k <= Len(take.got) THEN take.got[k] ELSE Place(k - 1)]

offerBar ==
  [t \in Producer |-> IF Pushing(t) THEN push[t].value ELSE push[t].answer]

Fifo == INSTANCE BoundedFifo
          WITH queue <- queueBar, held <- heldBar, offer <- offerBar,
               Limit <- 0..MaxBatch

(* The two indices and the slots are a bounded queue: events come out once *)
(* each, in order, a push is refused only when there is no room, a batch   *)
(* is all there was.                                                       *)
ImplementsFifo == Fifo!Spec
KeepsFifoOrder == Fifo!Init /\ [][Fifo!Next]_(Fifo!vars)
=============================================================================
