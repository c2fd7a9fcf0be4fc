------------------------ MODULE SpscRingBufferProofs ------------------------
(***************************************************************************)
(* Theorems about the ring buffer, for every capacity, word size and batch *)
(* length, and for any number of threads that call push one at a time.     *)
(* They rest on the arithmetic of indices modulo Word and of slots modulo  *)
(* Capacity, and on the inductive invariant RingInv.                       *)
(***************************************************************************)
EXTENDS SpscRingBuffer, SequenceTheorems, TLAPS

(* Arithmetic.                                                             *)

LEMMA DivMod ==
  ASSUME NEW m \in Nat \ {0}, NEW a \in Nat
  PROVE  a % m \in 0..(m - 1) /\ a \div m \in Nat /\ a = m * (a \div m) + (a % m)
  BY SMT

LEMMA Sizes == Capacity \in Nat \ {0} /\ Word \in Nat \ {0} /\ 1 < Word
  BY CapacityAssumption

LEMMA ModUnique ==
  ASSUME NEW m \in Nat \ {0}, NEW q \in Int, NEW r \in 0..(m - 1)
  PROVE  (m * q + r) % m = r
  BY SMT

LEMMA ModOfMod ==
  ASSUME NEW m \in Nat \ {0}, NEW n \in Nat \ {0}, n % m = 0, NEW a \in Nat
  PROVE  (a % n) % m = a % m
<1> DEFINE k == n \div m
           q == a \div n
           r == a % n
           s == r \div m
           t == r % m
<1>1. n = m * k /\ k \in Nat
  BY DivMod
<1>2. a = n * q + r /\ r \in 0..(n - 1) /\ q \in Nat
  BY DivMod
<1>3. r = m * s + t /\ t \in 0..(m - 1) /\ s \in Nat
  <2>1. r \in Nat
    BY <1>2
  <2> HIDE DEF r
  <2> QED
    BY <2>1, DivMod
<1> HIDE DEF k, q, r, s, t
<1>4. a = m * (k * q + s) + t /\ k * q + s \in Int
  BY <1>1, <1>2, <1>3, SMT
<1>5. a % m = t
  BY <1>3, <1>4, ModUnique
<1> QED
  BY <1>5 DEF t, r

LEMMA SlotTyped ==
  ASSUME NEW a \in Nat
  PROVE  slot_index(a) \in Slots
  BY CapacityAssumption, DivMod DEF slot_index, Slots

LEMMA SlotsDistinct ==
  ASSUME NEW a \in Nat, NEW b \in Nat, a < b, b - a < Capacity
  PROVE  slot_index(a) # slot_index(b)
<1> DEFINE x == a \div Capacity
           y == b \div Capacity
<1>1. /\ a = Capacity * x + (a % Capacity) /\ x \in Nat /\ a % Capacity \in Nat
      /\ b = Capacity * y + (b % Capacity) /\ y \in Nat
  BY CapacityAssumption, DivMod
<1> SUFFICES ASSUME a % Capacity = b % Capacity PROVE FALSE
  BY DEF slot_index
<1> HIDE DEF x, y
<1>2. b - a = Capacity * (y - x) /\ y - x \in Int
  BY <1>1, CapacityAssumption
<1>3. y - x >= 1
  BY <1>2, CapacityAssumption
<1>4. Capacity * (y - x) >= Capacity
  BY <1>2, <1>3, CapacityAssumption
<1> QED
  BY <1>2, <1>4, CapacityAssumption

LEMMA SlotPeriod ==
  ASSUME NEW a \in Nat
  PROVE  slot_index(a + Capacity) = slot_index(a)
<1> DEFINE q == a \div Capacity
           r == a % Capacity
<1>1. a = Capacity * q + r /\ q \in Nat /\ r \in 0..(Capacity - 1)
  BY CapacityAssumption, DivMod
<1> HIDE DEF q, r
<1>2. a + Capacity = Capacity * (q + 1) + r /\ q + 1 \in Int
  BY <1>1, CapacityAssumption
<1>3. (a + Capacity) % Capacity = r
  BY <1>1, <1>2, CapacityAssumption, ModUnique
<1> QED
  BY <1>3 DEF r, slot_index

LEMMA PlusTyped ==
  ASSUME NEW i \in Index, NEW n \in Nat
  PROVE  Plus(i, n) \in Index
<1>1. i + n \in Nat
  BY DEF Index
<1> QED
  BY <1>1, Sizes, DivMod DEF Plus, Index

LEMMA PlusSlot ==
  ASSUME NEW i \in Index, NEW n \in Nat
  PROVE  slot_index(Plus(i, n)) = slot_index(i + n)
<1>1. i + n \in Nat
  BY DEF Index
<1> QED
  BY <1>1, CapacityAssumption, Sizes, ModOfMod DEF Plus, slot_index

LEMMA PlusSlotOn ==
  ASSUME NEW i \in Index, NEW n \in Nat, NEW k \in Nat
  PROVE  slot_index(Plus(i, n) + k) = slot_index(i + n + k)
<1> DEFINE q == (i + n) \div Word
           r == (i + n) % Word
           d == Word \div Capacity
<1>1. i + n = Word * q + r /\ q \in Nat /\ r \in 0..(Word - 1)
  <2>1. i + n \in Nat
    BY DEF Index
  <2> QED
    BY <2>1, Sizes, DivMod
<1>2. Word = Capacity * d /\ d \in Nat
  BY CapacityAssumption, Sizes, DivMod
<1> DEFINE s == (r + k) \div Capacity
           u == (r + k) % Capacity
<1>3. r + k = Capacity * s + u /\ s \in Nat /\ u \in 0..(Capacity - 1)
  <2>1. r + k \in Nat
    BY <1>1
  <2> HIDE DEF r
  <2> QED
    BY <2>1, CapacityAssumption, DivMod
<1> HIDE DEF q, r, d, s, u
<1>4. i + n + k = Capacity * (d * q + s) + u /\ d * q + s \in Int
  BY <1>1, <1>2, <1>3, CapacityAssumption, SMT DEF Index
<1>5. (i + n + k) % Capacity = u
  BY <1>3, <1>4, CapacityAssumption, ModUnique
<1> QED
  BY <1>5 DEF u, r, slot_index, Plus

LEMMA DistanceTyped ==
  ASSUME NEW i \in Index, NEW j \in Index
  PROVE  /\ Distance(i, j) \in Index
         /\ Distance(i, j) = IF i >= j THEN i - j ELSE i - j + Word
<1>1. CASE i >= j
  <2>1. i - j \in 0..(Word - 1) /\ i - j = Word * 0 + (i - j)
    BY <1>1, Sizes DEF Index
  <2>2. (Word * 0 + (i - j)) % Word = i - j
    BY <2>1, Sizes, ModUnique
  <2> QED
    BY <1>1, <2>1, <2>2 DEF Distance, Index
<1>2. CASE ~(i >= j)
  <2>1. i - j + Word \in 0..(Word - 1) /\ i - j = Word * (-1) + (i - j + Word)
    BY <1>2, Sizes DEF Index
  <2>2. (Word * (-1) + (i - j + Word)) % Word = i - j + Word
    BY <2>1, Sizes, ModUnique
  <2> QED
    BY <1>2, <2>1, <2>2 DEF Distance, Index
<1> QED
  BY <1>1, <1>2

LEMMA PlusIs ==
  ASSUME NEW i \in Index, NEW n \in Index
  PROVE  Plus(i, n) = IF i + n < Word THEN i + n ELSE i + n - Word
<1>1. CASE i + n < Word
  <2>1. i + n \in 0..(Word - 1) /\ i + n = Word * 0 + (i + n)
    BY <1>1, Sizes DEF Index
  <2>2. (Word * 0 + (i + n)) % Word = i + n
    BY <2>1, Sizes, ModUnique
  <2> QED
    BY <1>1, <2>1, <2>2 DEF Plus
<1>2. CASE ~(i + n < Word)
  <2>1. i + n - Word \in 0..(Word - 1) /\ i + n = Word * 1 + (i + n - Word)
    BY <1>2, Sizes DEF Index
  <2>2. (Word * 1 + (i + n - Word)) % Word = i + n - Word
    BY <2>1, Sizes, ModUnique
  <2> QED
    BY <1>2, <2>1, <2>2 DEF Plus
<1> QED
  BY <1>1, <1>2

LEMMA DistanceGrows ==
  ASSUME NEW i \in Index, NEW j \in Index, Distance(i, j) < Capacity
  PROVE  Distance(Plus(i, 1), j) = Distance(i, j) + 1
<1> DEFINE h == Plus(i, 1)
<1>1. h = IF i + 1 < Word THEN i + 1 ELSE i + 1 - Word
  <2>1. 1 \in Index
    BY Sizes DEF Index
  <2> QED
    BY <2>1, PlusIs
<1>2. h \in Index
  BY PlusTyped
<1>3. Distance(i, j) = IF i >= j THEN i - j ELSE i - j + Word
  BY DistanceTyped
<1> HIDE DEF h
<1>4. Distance(h, j) = IF h >= j THEN h - j ELSE h - j + Word
  BY <1>2, DistanceTyped
<1>5. Distance(h, j) = Distance(i, j) + 1
  BY <1>1, <1>3, <1>4, CapacityAssumption DEF Index
<1> QED
  BY <1>5 DEF h

LEMMA DistanceShrinks ==
  ASSUME NEW i \in Index, NEW j \in Index, NEW n \in 0..Distance(i, j)
  PROVE  Distance(i, Plus(j, n)) = Distance(i, j) - n
<1> DEFINE h == Plus(j, n)
<1>1. /\ Distance(i, j) \in Index
      /\ Distance(i, j) = IF i >= j THEN i - j ELSE i - j + Word
  BY DistanceTyped
<1>2. n \in Index
  <2>1. n \in Nat /\ n <= Distance(i, j)
    BY <1>1 DEF Index
  <2> QED
    BY <1>1, <2>1, Sizes DEF Index
<1>3. h = IF j + n < Word THEN j + n ELSE j + n - Word
  BY <1>2, PlusIs
<1>4. h \in Index
  BY <1>2, <1>3, Sizes DEF Index
<1> HIDE DEF h
<1>5. Distance(i, h) = IF i >= h THEN i - h ELSE i - h + Word
  BY <1>4, DistanceTyped
<1>6. Distance(i, h) = Distance(i, j) - n
  BY <1>1, <1>2, <1>3, <1>5, Sizes DEF Index
<1> QED
  BY <1>6 DEF h

(* The producer's index is just after the events held.                     *)
LEMMA PlusDistance ==
  ASSUME NEW i \in Index, NEW j \in Index
  PROVE  Plus(j, Distance(i, j)) = i
<1> DEFINE d == Distance(i, j)
<1>1. d \in Index /\ d = IF i >= j THEN i - j ELSE i - j + Word
  BY DistanceTyped
<1> HIDE DEF d
<1>2. Plus(j, d) = IF j + d < Word THEN j + d ELSE j + d - Word
  BY <1>1, PlusIs
<1>3. Plus(j, d) = i
  BY <1>1, <1>2, Sizes DEF Index
<1> QED
  BY <1>3 DEF d

-----------------------------------------------------------------------------
(* Moves of a producer.                                                    *)

LEMMA PushTyped ==
  ASSUME TypeOK, NEW t \in Producer, NEW g \in PushCall, push' = [push EXCEPT ![t] = g]
  PROVE  /\ push' \in [Producer -> PushCall]
         /\ push'[t] = g
         /\ \A u \in Producer : u # t => push'[u] = push[u]
  BY DEF TypeOK

(* What each step of push leaves in its frame.                             *)
LEMMA CallPushMoves ==
  ASSUME TypeOK, NEW t \in Producer, NEW v \in Event, CallPush(t, v)
  PROVE  \E g \in PushCall :
           /\ push' = [push EXCEPT ![t] = g]
           /\ g.at = "loadProducer" /\ g.value = v
<1> DEFINE g == [push[t] EXCEPT !.at = "loadProducer", !.value = v, !.answer = "none"]
<1>1. push[t] \in PushCall
  BY DEF TypeOK
<1>2. g \in PushCall /\ g.at = "loadProducer" /\ g.value = v
  BY <1>1 DEF PushCall
<1>3. push' = [push EXCEPT ![t] = g]
  BY DEF CallPush, TypeOK
<1> QED
  BY <1>2, <1>3

LEMMA PushLoadsProducerMoves ==
  ASSUME TypeOK, NEW t \in Producer, PushLoadsProducer(t)
  PROVE  \E g \in PushCall :
           /\ push' = [push EXCEPT ![t] = g]
           /\ g.at = "loadConsumer" /\ g.value = push[t].value /\ g.p = producer_index
<1> DEFINE g == [push[t] EXCEPT !.at = "loadConsumer", !.p = producer_index]
<1>1. push[t] \in PushCall /\ producer_index \in Index
  BY DEF TypeOK
<1>2. /\ g \in PushCall /\ g.at = "loadConsumer"
      /\ g.value = push[t].value /\ g.p = producer_index
  BY <1>1 DEF PushCall
<1>3. push' = [push EXCEPT ![t] = g]
  BY DEF PushLoadsProducer, TypeOK
<1> QED
  BY <1>2, <1>3

LEMMA ReturnedTyped ==
  ASSUME NEW a \in {"none", "accepted", "refused"}
  PROVE  Returned(a) \in PushCall /\ Returned(a).at = "idle"
  BY Sizes DEF Returned, PushCall, Index

LEMMA PushLoadsConsumerMoves ==
  ASSUME TypeOK, NEW t \in Producer, PushLoadsConsumer(t)
  PROVE  \E g \in PushCall :
           /\ push' = [push EXCEPT ![t] = g]
           /\ \/ g.at = "idle"
              \/ /\ g.at = "write" /\ g.value = push[t].value /\ g.p = push[t].p
                 /\ Distance(push[t].p, consumer_index) # Capacity
<1> DEFINE g == IF IsFull(push[t].p, consumer_index) THEN Returned("refused")
                ELSE [push[t] EXCEPT !.at = "write"]
<1>1. push[t] \in PushCall
  BY DEF TypeOK
<1>2. push' = [push EXCEPT ![t] = g]
  BY DEF PushLoadsConsumer
<1>3. CASE IsFull(push[t].p, consumer_index)
  BY <1>2, <1>3, ReturnedTyped
<1>4. CASE ~IsFull(push[t].p, consumer_index)
  <2>1. g = [push[t] EXCEPT !.at = "write"]
    BY <1>4
  <2>2. /\ g \in PushCall /\ g.at = "write"
        /\ g.value = push[t].value /\ g.p = push[t].p
    BY <1>1, <2>1 DEF PushCall
  <2> QED
    BY <1>2, <1>4, <2>2 DEF IsFull
<1> QED
  BY <1>3, <1>4

LEMMA PushWritesMoves ==
  ASSUME TypeOK, NEW t \in Producer, PushWrites(t)
  PROVE  \E g \in PushCall :
           /\ push' = [push EXCEPT ![t] = g]
           /\ g.at = "store" /\ g.value = push[t].value /\ g.p = push[t].p
<1> DEFINE g == [push[t] EXCEPT !.at = "store"]
<1>1. push[t] \in PushCall
  BY DEF TypeOK
<1>2. g \in PushCall /\ g.at = "store" /\ g.value = push[t].value /\ g.p = push[t].p
  BY <1>1 DEF PushCall
<1>3. push' = [push EXCEPT ![t] = g]
  BY DEF PushWrites, TypeOK
<1> QED
  BY <1>2, <1>3

(* With one producer at a time, its frame says how much is being written.  *)
LEMMA WrittenBy ==
  ASSUME NEW t \in Producer, \A u \in Producer : u # t => ~Pushing(u)
  PROVE  Written = IF push[t].at = "store" THEN 1 ELSE 0
  BY DEF Written, Pushing

LEMMA Alone ==
  ASSUME RingInv, NEW t \in Producer, Pushing(t)
  PROVE  alive /\ \A u \in Producer : u # t => ~Pushing(u)
  BY DEF RingInv, OneProducer, DroppedIdle

(* A producer's step that touches no slot and no index.                    *)
LEMMA QuietPush ==
  ASSUME RingInv, alive, NEW t \in Producer, NEW g \in PushCall,
         push' = [push EXCEPT ![t] = g],
         \A u \in Producer : u # t => ~Pushing(u),
         push[t].at # "store", g.at # "store", PushAgrees(g),
         UNCHANGED <<buffer, producer_index, consumer_index, take, alive>>
  PROVE  RingInv'
<1>1. /\ push' \in [Producer -> PushCall] /\ push'[t] = g
      /\ \A u \in Producer : u # t => push'[u] = push[u]
  BY PushTyped DEF RingInv
<1>2. TypeOK'
  BY <1>1 DEF RingInv, TypeOK
<1>3. (\A u \in Producer : u # t => ~Pushing(u))'
  BY <1>1 DEF Pushing
<1>4. OneProducer'
  BY <1>3 DEF OneProducer
<1>5. Written = 0
  BY WrittenBy
<1>6. Written' = 0
  BY <1>1, <1>3 DEF Written, Pushing
<1>7. Held' = Held /\ ReadSoFar' = ReadSoFar
  BY DEF Held, ReadSoFar
<1>8. LiveSlots'
  BY <1>5, <1>6, <1>7 DEF RingInv, LiveSlots
<1>9. \A u \in Producer : PushAgrees(push[u])'
  <2>1. PushAgrees(push[t])'
    BY <1>1, <1>7 DEF PushAgrees
  <2>2. ASSUME NEW u \in Producer, u # t PROVE PushAgrees(push[u])'
    BY <1>3, <2>2 DEF PushAgrees, Pushing
  <2> QED
    BY <2>1, <2>2
<1>10. TakeAgrees'
  BY <1>7 DEF RingInv, TakeAgrees
<1> QED
  BY <1>2, <1>4, <1>7, <1>8, <1>9, <1>10 DEF RingInv, DroppedIdle

LEMMA CallPushStep ==
  ASSUME RingInv, ~MayOverlap, NEW t \in Producer, NEW v \in Event, CallPush(t, v)
  PROVE  RingInv'
<1>1. PICK g \in PushCall : /\ push' = [push EXCEPT ![t] = g]
                            /\ g.at = "loadProducer" /\ g.value = v
  BY CallPushMoves DEF RingInv
<1>2. /\ alive /\ push[t].at = "idle" /\ \A u \in Producer : ~Pushing(u)
      /\ UNCHANGED <<buffer, producer_index, consumer_index, take, alive>>
  BY DEF CallPush, Pushing
<1>3. PushAgrees(g)
  BY <1>1 DEF PushAgrees
<1> QED
  BY <1>1, <1>2, <1>3, QuietPush

LEMMA PushLoadsProducerStep ==
  ASSUME RingInv, NEW t \in Producer, PushLoadsProducer(t)
  PROVE  RingInv'
<1>1. PICK g \in PushCall :
         /\ push' = [push EXCEPT ![t] = g]
         /\ g.at = "loadConsumer" /\ g.value = push[t].value /\ g.p = producer_index
  BY PushLoadsProducerMoves DEF RingInv
<1>2. /\ push[t].at = "loadProducer"
      /\ UNCHANGED <<buffer, producer_index, consumer_index, take, alive>>
  BY DEF PushLoadsProducer
<1>3. Pushing(t)
  BY <1>2 DEF Pushing
<1>4. PushAgrees(g)
  BY <1>1, <1>2 DEF PushAgrees, RingInv
<1>5. alive /\ \A u \in Producer : u # t => ~Pushing(u)
  BY <1>3, Alone
<1> QED
  BY <1>1, <1>2, <1>4, <1>5, QuietPush

LEMMA PushLoadsConsumerStep ==
  ASSUME RingInv, NEW t \in Producer, PushLoadsConsumer(t)
  PROVE  RingInv'
<1>1. PICK g \in PushCall :
         /\ push' = [push EXCEPT ![t] = g]
         /\ \/ g.at = "idle"
            \/ /\ g.at = "write" /\ g.value = push[t].value /\ g.p = push[t].p
               /\ Distance(push[t].p, consumer_index) # Capacity
  BY PushLoadsConsumerMoves DEF RingInv
<1>2. /\ push[t].at = "loadConsumer"
      /\ UNCHANGED <<buffer, producer_index, consumer_index, take, alive>>
  BY DEF PushLoadsConsumer
<1>3. Pushing(t)
  BY <1>2 DEF Pushing
<1>4. push[t].p = producer_index /\ push[t].value \in Event
  BY <1>2 DEF RingInv, PushAgrees
<1>5. g.at # "idle" => Held < Capacity
  <2>1. Held \in Nat /\ Held <= Capacity
    BY DistanceTyped DEF RingInv, TypeOK, Held, Index
  <2> QED
    BY <1>1, <1>4, <2>1, CapacityAssumption DEF Held
<1>6. PushAgrees(g)
  BY <1>1, <1>4, <1>5 DEF PushAgrees
<1>7. alive /\ \A u \in Producer : u # t => ~Pushing(u)
  BY <1>3, Alone
<1>8. g.at # "store"
  BY <1>1
<1> QED
  BY <1>1, <1>2, <1>6, <1>7, <1>8, QuietPush

-----------------------------------------------------------------------------
(* Where the events are.                                                   *)

LEMMA HeldTyped ==
  ASSUME RingInv
  PROVE  /\ Held \in Nat /\ Held <= Capacity
         /\ consumer_index \in Nat
         /\ slot_index(producer_index) = slot_index(consumer_index + Held)
<1>1. producer_index \in Index /\ consumer_index \in Index /\ Held <= Capacity
  BY DEF RingInv, TypeOK
<1>2. Held \in Nat
  BY <1>1, DistanceTyped DEF Held, Index
<1>3. producer_index = Plus(consumer_index, Held)
  BY <1>1, PlusDistance DEF Held
<1> QED
  BY <1>1, <1>2, <1>3, PlusSlot DEF Index

(* Writing the slot k places after the consumer changes that place only.   *)
LEMMA WriteAt ==
  ASSUME TypeOK, NEW j \in Slots, NEW v \in Event \cup {Empty}, NEW s \in Slots,
         s = slot_index(consumer_index + j), buffer' = [buffer EXCEPT ![s] = v]
  PROVE  /\ buffer' \in [Slots -> Event \cup {Empty}]
         /\ \A k \in Slots :
              buffer'[slot_index(consumer_index + k)] =
                IF k = j THEN v ELSE buffer[slot_index(consumer_index + k)]
<1>1. consumer_index \in Nat
  BY DEF TypeOK, Index
<1>2. ASSUME NEW k \in Slots
      PROVE  buffer'[slot_index(consumer_index + k)] =
               IF k = j THEN v ELSE buffer[slot_index(consumer_index + k)]
  <2>1. /\ consumer_index + k \in Nat /\ consumer_index + j \in Nat
        /\ k \in Nat /\ j \in Nat /\ k < Capacity /\ j < Capacity
    BY <1>1, Sizes DEF Slots
  <2>2. slot_index(consumer_index + k) \in Slots
    BY <2>1, SlotTyped
  <2>3. CASE k < j
    <3>1. slot_index(consumer_index + k) # s
      BY <1>1, <2>1, <2>3, SlotsDistinct, Sizes
    <3> QED
      BY <2>1, <2>2, <2>3, <3>1 DEF TypeOK
  <2>4. CASE j < k
    <3>1. slot_index(consumer_index + k) # s
      BY <1>1, <2>1, <2>4, SlotsDistinct, Sizes
    <3> QED
      BY <2>1, <2>2, <2>4, <3>1 DEF TypeOK
  <2>5. CASE k = j
    BY <2>2, <2>5 DEF TypeOK
  <2> QED
    BY <2>1, <2>3, <2>4, <2>5
<1> QED
  BY <1>2 DEF TypeOK

LEMMA PushWritesStep ==
  ASSUME RingInv, NEW t \in Producer, PushWrites(t)
  PROVE  RingInv' /\ buffer[slot_index(producer_index)] = Empty
<1>1. PICK g \in PushCall :
         /\ push' = [push EXCEPT ![t] = g]
         /\ g.at = "store" /\ g.value = push[t].value /\ g.p = push[t].p
  BY PushWritesMoves DEF RingInv
<1>2. /\ push[t].at = "write"
      /\ buffer' = [buffer EXCEPT ![slot_index(push[t].p)] = push[t].value]
      /\ UNCHANGED <<producer_index, consumer_index, take, alive>>
  BY DEF PushWrites
<1>3. alive /\ \A u \in Producer : u # t => ~Pushing(u)
  <2>1. Pushing(t)
    BY <1>2 DEF Pushing
  <2> QED
    BY <2>1, Alone
<1>4. push[t].p = producer_index /\ push[t].value \in Event /\ Held < Capacity
  BY <1>2 DEF RingInv, PushAgrees
<1>5. /\ push' \in [Producer -> PushCall] /\ push'[t] = g
      /\ \A u \in Producer : u # t => push'[u] = push[u]
  BY <1>1, PushTyped DEF RingInv
<1>6. (\A u \in Producer : u # t => ~Pushing(u))'
  BY <1>3, <1>5 DEF Pushing
<1>7. Written = 0 /\ Written' = 1
  <2>1. Written = 0
    BY <1>2, <1>3, WrittenBy
  <2>2. Written' = 1
    BY <1>1, <1>5 DEF Written
  <2> QED
    BY <2>1, <2>2
<1>8. Held' = Held /\ ReadSoFar' = ReadSoFar
  BY <1>2 DEF Held, ReadSoFar
<1>9. /\ Held \in Slots /\ slot_index(producer_index) \in Slots
      /\ slot_index(producer_index) = slot_index(consumer_index + Held)
  <2>1. producer_index \in Nat
    BY DEF RingInv, TypeOK, Index
  <2> QED
    BY <1>4, <2>1, HeldTyped, SlotTyped, Sizes DEF Slots
<1>10. /\ buffer' \in [Slots -> Event \cup {Empty}]
       /\ \A k \in Slots :
            buffer'[slot_index(consumer_index + k)] =
              IF k = Held THEN push[t].value ELSE buffer[slot_index(consumer_index + k)]
  BY <1>2, <1>4, <1>9, WriteAt DEF RingInv
<1>11. ReadSoFar \in Nat /\ ReadSoFar <= Held
  BY HeldTyped DEF RingInv, TypeOK, TakeCall, TakeAgrees, ReadSoFar
<1>12. LiveSlots'
  <2>1. ASSUME NEW k \in Slots
        PROVE  (buffer'[slot_index(consumer_index' + k)] # Empty)
                 <=> (ReadSoFar' <= k /\ k < Held' + Written')
    <3>1. (buffer[slot_index(consumer_index + k)] # Empty) <=> (ReadSoFar <= k /\ k < Held + Written)
      BY <1>3 DEF RingInv, LiveSlots
    <3>2. push[t].value # Empty
      BY <1>4, EmptyAssumption
    <3>3. CASE k = Held
      BY <1>2, <1>7, <1>8, <1>9, <1>10, <1>11, <3>2, <3>3, HeldTyped
    <3>4. CASE k # Held
      BY <1>2, <1>7, <1>8, <1>10, <1>11, <3>1, <3>4, HeldTyped, Sizes DEF Slots
    <3> QED
      BY <3>3, <3>4
  <2> QED
    BY <2>1 DEF LiveSlots
<1>13. buffer[slot_index(producer_index)] = Empty
  BY <1>3, <1>7, <1>9, HeldTyped DEF RingInv, LiveSlots
<1>14. \A u \in Producer : PushAgrees(push[u])'
  BY <1>1, <1>2, <1>4, <1>5, <1>6, <1>8 DEF PushAgrees, Pushing
<1>15. TypeOK'
  BY <1>2, <1>5, <1>10 DEF RingInv, TypeOK
<1>16. OneProducer' /\ DroppedIdle'
  BY <1>2, <1>3, <1>6 DEF OneProducer, DroppedIdle
<1>17. TakeAgrees'
  BY <1>2, <1>8 DEF RingInv, TakeAgrees
<1> QED
  BY <1>8, <1>12, <1>13, <1>14, <1>15, <1>16, <1>17 DEF RingInv

LEMMA PushStoresStep ==
  ASSUME RingInv, NEW t \in Producer, PushStores(t)
  PROVE  RingInv'
<1>1. /\ push[t].at = "store"
      /\ producer_index' = Plus(push[t].p, 1)
      /\ push' = [push EXCEPT ![t] = Returned("accepted")]
      /\ UNCHANGED <<buffer, consumer_index, take, alive>>
  BY DEF PushStores
<1>2. Returned("accepted") \in PushCall /\ Returned("accepted").at = "idle"
  BY ReturnedTyped
<1>3. alive /\ \A u \in Producer : u # t => ~Pushing(u)
  <2>1. Pushing(t)
    BY <1>1 DEF Pushing
  <2> QED
    BY <2>1, Alone
<1>4. push[t].p = producer_index /\ Held < Capacity
  BY <1>1 DEF RingInv, PushAgrees
<1>5. /\ push' \in [Producer -> PushCall]
      /\ \A u \in Producer : ~Pushing(u)'
  <2>1. /\ push' \in [Producer -> PushCall] /\ push'[t] = Returned("accepted")
        /\ \A u \in Producer : u # t => push'[u] = push[u]
    BY <1>1, <1>2, PushTyped DEF RingInv
  <2> QED
    BY <1>2, <1>3, <2>1 DEF Pushing
<1>6. Written = 1 /\ Written' = 0
  BY <1>1, <1>3, <1>5, WrittenBy DEF Written, Pushing
<1>7. producer_index \in Index /\ consumer_index \in Index
  BY DEF RingInv, TypeOK
<1>8. producer_index' \in Index /\ Held' = Held + 1
  BY <1>1, <1>4, <1>7, PlusTyped, DistanceGrows DEF Held
<1>9. Held \in Nat /\ ReadSoFar' = ReadSoFar
  BY <1>1, HeldTyped DEF ReadSoFar
<1>10. LiveSlots'
  BY <1>1, <1>3, <1>6, <1>8, <1>9 DEF RingInv, LiveSlots
<1>11. \A u \in Producer : PushAgrees(push[u])'
  BY <1>5 DEF PushAgrees, Pushing
<1>12. TakeAgrees'
  <2>1. take.size \in 1..Held => take.size \in 1..Held'
    BY <1>8, <1>9
  <2>2. ASSUME take.at = "countConsumer" PROVE Distance(take.i, consumer_index) <= Held'
    <3>1. Distance(take.i, consumer_index) \in Nat
      BY <1>7, DistanceTyped DEF RingInv, TypeOK, TakeCall, Index
    <3>2. Distance(take.i, consumer_index) <= Held
      BY <2>2 DEF RingInv, TakeAgrees
    <3> QED
      BY <1>8, <1>9, <3>1, <3>2
  <2> QED
    BY <1>1, <2>1, <2>2 DEF RingInv, TakeAgrees
<1>13. TypeOK'
  BY <1>1, <1>5, <1>8 DEF RingInv, TypeOK
<1>14. OneProducer' /\ DroppedIdle'
  BY <1>1, <1>3, <1>5 DEF OneProducer, DroppedIdle
<1>15. Held' <= Capacity
  BY <1>4, <1>8, <1>9, CapacityAssumption
<1> QED
  BY <1>10, <1>11, <1>12, <1>13, <1>14, <1>15 DEF RingInv

-----------------------------------------------------------------------------
(* Moves of the consumer.                                                  *)

LEMMA IdleTyped == Idle \in TakeCall /\ Idle.at = "idle"
<1>1. 0 \in Index /\ 0 \in 0..MaxBatch
  BY Sizes, BatchAssumption DEF Index
<1>2. <<>> \in Seq(Event \cup {Empty})
  OBVIOUS
<1> QED
  BY <1>1, <1>2 DEF Idle, TakeCall

(* A consumer's step that touches no slot and no index.                    *)
LEMMA QuietTake ==
  ASSUME RingInv, alive, take' \in TakeCall,
         ReadSoFar' = ReadSoFar, TakeAgrees',
         UNCHANGED <<buffer, producer_index, consumer_index, push, alive>>
  PROVE  RingInv'
<1>1. Held' = Held /\ Written' = Written
  BY DEF Held, Written
<1>2. LiveSlots'
  BY <1>1 DEF RingInv, LiveSlots
<1>3. \A t \in Producer : PushAgrees(push[t])'
  BY <1>1 DEF RingInv, PushAgrees
<1>4. OneProducer' /\ DroppedIdle'
  BY DEF RingInv, OneProducer, DroppedIdle, Pushing
<1> QED
  BY <1>1, <1>2, <1>3, <1>4 DEF RingInv, TypeOK

LEMMA CallPopStep ==
  ASSUME RingInv, NEW n \in 0..MaxBatch, CallPop(n)
  PROVE  RingInv'
<1>1. /\ alive /\ take.at = "idle"
      /\ take' = [Idle EXCEPT !.at = "loadConsumer", !.limit = n]
      /\ UNCHANGED <<buffer, producer_index, consumer_index, push, alive>>
  BY DEF CallPop
<1>2. take' \in TakeCall /\ take'.at = "loadConsumer" /\ take'.got = <<>>
  BY <1>1, IdleTyped DEF TakeCall, Idle
<1>3. ReadSoFar' = ReadSoFar /\ TakeAgrees'
  BY <1>1, <1>2 DEF ReadSoFar, TakeAgrees
<1> QED
  BY <1>1, <1>2, <1>3, QuietTake

LEMMA CallCountStep ==
  ASSUME RingInv, CallCount
  PROVE  RingInv'
<1>1. /\ alive /\ take.at = "idle"
      /\ take' = [Idle EXCEPT !.at = "countProducer"]
      /\ UNCHANGED <<buffer, producer_index, consumer_index, push, alive>>
  BY DEF CallCount
<1>2. take' \in TakeCall /\ take'.at = "countProducer"
  BY <1>1, IdleTyped DEF TakeCall
<1>3. ReadSoFar' = ReadSoFar /\ TakeAgrees'
  BY <1>1, <1>2 DEF ReadSoFar, TakeAgrees
<1> QED
  BY <1>1, <1>2, <1>3, QuietTake

LEMMA CountStep ==
  ASSUME RingInv, CountLoadsProducer \/ CountLoadsConsumer
  PROVE  RingInv'
<1>1. /\ take.at \in {"countProducer", "countConsumer"} /\ take \in TakeCall
      /\ producer_index \in Index /\ consumer_index \in Index
      /\ UNCHANGED <<buffer, producer_index, consumer_index, push, alive>>
  BY DEF CountLoadsProducer, CountLoadsConsumer, RingInv, TypeOK
<1>2. take' \in TakeCall /\ take'.at \in {"countConsumer", "idle"}
  <2>1. CASE CountLoadsProducer
    <3>1. take' = [take EXCEPT !.at = "countConsumer", !.i = producer_index]
      BY <2>1 DEF CountLoadsProducer
    <3> QED
      BY <1>1, <3>1 DEF TakeCall
  <2>2. CASE CountLoadsConsumer
    <3>1. take' = [Idle EXCEPT !.count = Distance(take.i, consumer_index)]
      BY <2>2 DEF CountLoadsConsumer
    <3>2. Distance(take.i, consumer_index) \in Index
      BY <1>1, DistanceTyped DEF TakeCall
    <3> QED
      BY <3>1, <3>2, IdleTyped DEF TakeCall
  <2> QED
    BY <2>1, <2>2
<1>3. take'.at = "countConsumer" => take'.i = producer_index
  BY <1>1, <1>2, IdleTyped DEF CountLoadsProducer, CountLoadsConsumer, TakeCall, Idle
<1>4. ReadSoFar' = ReadSoFar /\ TakeAgrees'
  <2>1. Held \in Nat /\ Held' = Held
    BY <1>1, HeldTyped DEF Held
  <2> QED
    BY <1>1, <1>2, <1>3, <2>1 DEF ReadSoFar, TakeAgrees, Held
<1>5. alive
  BY <1>1 DEF RingInv, DroppedIdle
<1> QED
  BY <1>1, <1>2, <1>4, <1>5, QuietTake

LEMMA PopLoadsConsumerStep ==
  ASSUME RingInv, PopLoadsConsumer
  PROVE  RingInv'
<1>1. /\ take.at = "loadConsumer" /\ take \in TakeCall /\ consumer_index \in Index
      /\ take' = [take EXCEPT !.at = "loadProducer", !.i = consumer_index]
      /\ UNCHANGED <<buffer, producer_index, consumer_index, push, alive>>
  BY DEF PopLoadsConsumer, RingInv, TypeOK
<1>2. /\ take' \in TakeCall /\ take'.at = "loadProducer"
      /\ take'.i = consumer_index /\ take'.got = take.got
  BY <1>1 DEF TakeCall
<1>3. ReadSoFar' = ReadSoFar /\ TakeAgrees'
  BY <1>1, <1>2 DEF ReadSoFar, TakeAgrees, RingInv
<1>4. alive
  BY <1>1 DEF RingInv, DroppedIdle
<1> QED
  BY <1>1, <1>2, <1>3, <1>4, QuietTake

LEMMA PopLoadsProducerStep ==
  ASSUME RingInv, PopLoadsProducer
  PROVE  RingInv'
<1> DEFINE size == BatchSize(Distance(producer_index, take.i), take.limit)
<1>1. /\ take.at = "loadProducer" /\ take \in TakeCall
      /\ take.i = consumer_index /\ take.got = <<>>
      /\ UNCHANGED <<buffer, producer_index, consumer_index, push, alive>>
  BY DEF PopLoadsProducer, RingInv, TypeOK, TakeAgrees
<1>2. take' = IF size = 0 THEN Idle ELSE [take EXCEPT !.at = "read", !.size = size]
  BY DEF PopLoadsProducer
<1>3. size \in 0..MaxBatch /\ size <= Held
  BY <1>1, HeldTyped, BatchAssumption DEF Held, BatchSize, TakeCall
<1>4. alive
  BY <1>1 DEF RingInv, DroppedIdle
<1> HIDE DEF size
<1>5. CASE size = 0
  <2>1. take' \in TakeCall /\ take'.at = "idle"
    BY <1>2, <1>5, IdleTyped
  <2>2. ReadSoFar' = ReadSoFar /\ TakeAgrees'
    BY <1>1, <2>1 DEF ReadSoFar, TakeAgrees
  <2> QED
    BY <1>1, <1>4, <2>1, <2>2, QuietTake
<1>6. CASE size # 0
  <2>1. /\ take' \in TakeCall /\ take'.at = "read" /\ take'.size = size
        /\ take'.i = take.i /\ take'.got = <<>>
    BY <1>1, <1>2, <1>3, <1>6 DEF TakeCall
  <2>2. ReadSoFar' = 0 /\ ReadSoFar = 0
    BY <1>1, <2>1 DEF ReadSoFar
  <2>3. Held' = Held /\ size \in 1..Held
    BY <1>1, <1>3, <1>6, HeldTyped, BatchAssumption DEF Held
  <2>4. TakeAgrees'
    BY <1>1, <2>1, <2>3 DEF TakeAgrees
  <2> QED
    BY <1>1, <1>4, <2>1, <2>2, <2>4, QuietTake
<1> QED
  BY <1>5, <1>6

LEMMA PopReadsStep ==
  ASSUME RingInv, PopReads
  PROVE  RingInv' /\ buffer[slot_index(Plus(take.i, Len(take.got)))] # Empty
<1> DEFINE R == Len(take.got)
           s == slot_index(Plus(take.i, R))
<1>1. /\ take.at = "read" /\ take \in TakeCall
      /\ take.i = consumer_index /\ take.size \in 1..Held /\ R < take.size
      /\ \A j \in 1..R : take.got[j] # Empty
      /\ UNCHANGED <<producer_index, consumer_index, push, alive>>
  BY DEF PopReads, RingInv, TypeOK, TakeAgrees
<1>2. /\ take' = [take EXCEPT !.got = Append(@, buffer[s]),
                     !.at = IF R + 1 = take.size THEN "store" ELSE "read"]
      /\ buffer' = [buffer EXCEPT ![s] = Empty]
  BY DEF PopReads
<1>3. R \in Nat /\ R < Held /\ R \in Slots /\ R = ReadSoFar
  <2>1. R \in Nat
    BY <1>1 DEF TakeCall
  <2> HIDE DEF R
  <2>2. R < Held /\ R \in Slots
    BY <1>1, <2>1, HeldTyped, Sizes DEF Slots
  <2> QED
    BY <1>1, <2>1, <2>2 DEF R, ReadSoFar
<1>4. s = slot_index(consumer_index + R) /\ s \in Slots
  <2>1. consumer_index \in Index
    BY DEF RingInv, TypeOK
  <2>2. s = slot_index(consumer_index + R)
    BY <1>1, <1>3, <2>1, PlusSlot
  <2>3. consumer_index + R \in Nat
    BY <1>3, <2>1 DEF Index
  <2> QED
    BY <2>2, <2>3, SlotTyped
<1>5. alive
  BY <1>1 DEF RingInv, DroppedIdle
<1>6. buffer[s] # Empty /\ buffer[s] \in Event \cup {Empty}
  <2>1. Written \in Nat
    BY DEF Written
  <2>2. R < Held + Written
    BY <1>3, <2>1, HeldTyped
  <2> QED
    BY <1>3, <1>4, <1>5, <2>2 DEF RingInv, LiveSlots, TypeOK
<1>7. /\ buffer' \in [Slots -> Event \cup {Empty}]
      /\ \A k \in Slots :
           buffer'[slot_index(consumer_index + k)] =
             IF k = R THEN Empty ELSE buffer[slot_index(consumer_index + k)]
  <2> HIDE DEF R, s
  <2> QED
    BY <1>2, <1>3, <1>4, WriteAt DEF RingInv
<1>8. /\ take'.at \in {"read", "store"} /\ take'.i = take.i /\ take'.size = take.size
      /\ take'.at = (IF R + 1 = take.size THEN "store" ELSE "read")
      /\ take'.got = Append(take.got, buffer[s])
      /\ take' \in TakeCall
  <2>1. Append(take.got, buffer[s]) \in Seq(Event \cup {Empty})
    BY <1>1, <1>6 DEF TakeCall
  <2> HIDE DEF R, s
  <2> QED
    BY <1>1, <1>2, <2>1 DEF TakeCall
<1>9. /\ Len(take'.got) = R + 1
      /\ \A j \in 1..(R + 1) : take'.got[j] # Empty
  <2>1. take.got \in Seq(Event \cup {Empty})
    BY <1>1 DEF TakeCall
  <2> HIDE DEF s
  <2> QED
    BY <1>1, <1>3, <1>6, <1>8, <2>1
<1> HIDE DEF R, s
<1>10. ReadSoFar' = R + 1 /\ Held' = Held /\ Written' = Written
  BY <1>1, <1>8, <1>9 DEF ReadSoFar, Held, Written
<1>11. LiveSlots'
  <2>1. ASSUME NEW k \in Slots
        PROVE  (buffer'[slot_index(consumer_index' + k)] # Empty)
                 <=> (ReadSoFar' <= k /\ k < Held' + Written')
    <3>1. (buffer[slot_index(consumer_index + k)] # Empty) <=> (R <= k /\ k < Held + Written)
      BY <1>3, <1>5 DEF RingInv, LiveSlots
    <3>2. k \in Nat
      BY Sizes DEF Slots
    <3> QED
      BY <1>1, <1>3, <1>7, <1>10, <3>1, <3>2
  <2> QED
    BY <2>1 DEF LiveSlots
<1>12. TakeAgrees'
  BY <1>1, <1>3, <1>8, <1>9, <1>10, HeldTyped DEF TakeAgrees
<1>13. \A t \in Producer : PushAgrees(push[t])'
  BY <1>1, <1>10 DEF RingInv, PushAgrees
<1>14. OneProducer' /\ DroppedIdle' /\ TypeOK'
  BY <1>1, <1>5, <1>7, <1>8 DEF RingInv, OneProducer, DroppedIdle, Pushing, TypeOK
<1>15. RingInv'
  BY <1>10, <1>11, <1>12, <1>13, <1>14 DEF RingInv
<1> QED
  BY <1>6, <1>15 DEF R, s

(* The places count from the consumer's index, so they all shift.          *)
LEMMA PopStoresStep ==
  ASSUME RingInv, PopStores
  PROVE  RingInv'
<1> DEFINE n == take.size
           c == consumer_index
           h == Held
<1>1. /\ take.at = "store" /\ take.i = c /\ n \in 1..h /\ Len(take.got) = n
      /\ consumer_index' = Plus(c, n) /\ take' = Idle
      /\ UNCHANGED <<buffer, producer_index, push, alive>>
  BY DEF PopStores, RingInv, TakeAgrees
<1>2. c \in Index /\ producer_index \in Index /\ h \in Nat /\ h <= Capacity
  BY HeldTyped DEF RingInv, TypeOK
<1>3. alive /\ ReadSoFar = n /\ ReadSoFar' = 0 /\ Written' = Written
  BY <1>1, IdleTyped DEF RingInv, DroppedIdle, ReadSoFar, Written
<1>4. Written \in Nat /\ h + Written <= Capacity
  <2>1. CASE \E t \in Producer : push[t].at = "store"
    <3>1. h < Capacity /\ Written = 1
      BY <2>1 DEF RingInv, PushAgrees, Written
    <3> QED
      BY <1>2, <3>1, Sizes
  <2>2. CASE ~(\E t \in Producer : push[t].at = "store")
    BY <1>2, <2>2, Sizes DEF Written
  <2> QED
    BY <2>1, <2>2
<1>5. Held' = h - n
  BY <1>1, <1>2, DistanceShrinks DEF Held
<1> HIDE DEF n, h, c
<1>6. c \in Nat /\ n \in Nat /\ n <= h /\ consumer_index = c
  BY <1>1, <1>2 DEF Index, c
<1>7. ASSUME NEW j \in Slots
      PROVE  (buffer[slot_index(c + j)] # Empty) <=> (n <= j /\ j < h + Written)
  BY <1>3, <1>6, <1>7 DEF RingInv, LiveSlots, h
<1>8. consumer_index' \in Index
  BY <1>1, <1>2, <1>6, PlusTyped
<1>9. LiveSlots'
  <2>1. ASSUME NEW k \in Slots
        PROVE  (buffer[slot_index(consumer_index' + k)] # Empty) <=> k < h - n + Written
    <3>1. k \in Nat /\ k < Capacity
      BY Sizes DEF Slots
    <3>2. slot_index(consumer_index' + k) = slot_index(c + n + k)
      BY <1>1, <1>2, <1>6, <3>1, PlusSlotOn
    <3>3. CASE n + k < Capacity
      <4>1. n + k \in Slots /\ c + (n + k) = c + n + k
        BY <1>6, <3>1, <3>3, Sizes DEF Slots
      <4>2. (buffer[slot_index(c + n + k)] # Empty) <=> (n <= n + k /\ n + k < h + Written)
        BY <1>7, <4>1
      <4> QED
        BY <1>2, <1>4, <1>6, <3>1, <3>2, <4>2
    <3>4. CASE ~(n + k < Capacity)
      <4> DEFINE j == n + k - Capacity
      <4>1. j \in Slots /\ j < n /\ c + n + k = (c + j) + Capacity /\ c + j \in Nat
        BY <1>2, <1>6, <3>1, <3>4, Sizes DEF Slots
      <4> HIDE DEF j
      <4>2. slot_index(c + n + k) = slot_index(c + j)
        BY <4>1, SlotPeriod
      <4>3. buffer[slot_index(c + j)] = Empty
        BY <1>6, <1>7, <4>1, Sizes DEF Slots
      <4>4. ~(k < h - n + Written)
        BY <1>2, <1>4, <1>6, <3>1, <3>4, Sizes
      <4> QED
        BY <3>2, <4>2, <4>3, <4>4
    <3> QED
      BY <3>3, <3>4
  <2>2. \A k \in Slots : 0 <= k
    BY Sizes DEF Slots
  <2> QED
    BY <1>1, <1>3, <1>5, <2>1, <2>2 DEF LiveSlots
<1>10. \A t \in Producer : PushAgrees(push[t])'
  <2>1. h < Capacity => Held' < Capacity
    BY <1>2, <1>5, <1>6, Sizes
  <2> QED
    BY <1>1, <2>1 DEF RingInv, PushAgrees, h
<1>11. TakeAgrees'
  BY <1>1, IdleTyped DEF TakeAgrees
<1>12. TypeOK'
  BY <1>1, <1>8, IdleTyped DEF RingInv, TypeOK
<1>13. OneProducer' /\ DroppedIdle'
  BY <1>1, <1>3 DEF RingInv, OneProducer, DroppedIdle, Pushing
<1>14. Held' <= Capacity
  BY <1>2, <1>5, <1>6, Sizes
<1> QED
  BY <1>9, <1>10, <1>11, <1>12, <1>13, <1>14 DEF RingInv

LEMMA DropStep ==
  ASSUME RingInv, Drop
  PROVE  RingInv'
<1>1. /\ ~alive' /\ take.at = "idle" /\ \A t \in Producer : ~Pushing(t)
      /\ UNCHANGED <<producer_index, consumer_index, push, take>>
      /\ buffer' \in [Slots -> Event \cup {Empty}]
  BY DEF Drop, RingInv, TypeOK
<1>2. Held' = Held
  BY <1>1 DEF Held
<1>3. TakeAgrees' /\ LiveSlots'
  BY <1>1 DEF TakeAgrees, LiveSlots
<1>4. alive' \in BOOLEAN
  BY DEF Drop
<1>5. TypeOK' /\ OneProducer' /\ DroppedIdle'
  BY <1>1, <1>4 DEF RingInv, TypeOK, OneProducer, DroppedIdle, Pushing
<1>6. \A t \in Producer : PushAgrees(push[t])'
  BY <1>1 DEF PushAgrees, Pushing
<1> QED
  BY <1>2, <1>3, <1>5, <1>6 DEF RingInv

-----------------------------------------------------------------------------
LEMMA RingInit == Init => RingInv
<1> SUFFICES ASSUME Init PROVE RingInv
  OBVIOUS
<1>1. /\ \A t \in Producer : push[t] = Returned("none")
      /\ Returned("none") \in PushCall /\ Returned("none").at = "idle"
      /\ take = Idle /\ alive /\ producer_index = 0 /\ consumer_index = 0
      /\ buffer = [s \in Slots |-> Empty]
  BY ReturnedTyped DEF Init
<1>2. TypeOK
  BY <1>1, IdleTyped, Sizes DEF Init, TypeOK, Index
<1>3. Held = 0
  BY <1>2, <1>1, DistanceTyped DEF TypeOK, Held
<1>4. Written = 0 /\ ReadSoFar = 0
  BY <1>1, IdleTyped DEF Written, ReadSoFar
<1>5. LiveSlots
  <2>1. \A k \in Slots : k \in Nat /\ slot_index(0 + k) \in Slots
    BY SlotTyped, Sizes DEF Slots
  <2> QED
    BY <1>1, <1>3, <1>4, <2>1 DEF LiveSlots
<1>6. OneProducer /\ DroppedIdle /\ TakeAgrees /\ \A t \in Producer : PushAgrees(push[t])
  BY <1>1, IdleTyped DEF OneProducer, DroppedIdle, TakeAgrees, PushAgrees, Pushing
<1> QED
  BY <1>2, <1>3, <1>5, <1>6, Sizes DEF RingInv

LEMMA RingStep ==
  ASSUME RingInv, ~MayOverlap, [Next]_vars
  PROVE  RingInv'
<1>1. ASSUME NEW t \in Producer, RunPush(t) PROVE RingInv'
  BY <1>1, PushLoadsProducerStep, PushLoadsConsumerStep, PushWritesStep, PushStoresStep
     DEF RunPush
<1>2. ASSUME RunTake PROVE RingInv'
  BY <1>2, PopLoadsConsumerStep, PopLoadsProducerStep, PopReadsStep, PopStoresStep, CountStep
     DEF RunTake
<1>3. CASE UNCHANGED vars
  BY <1>3 DEF vars, RingInv, TypeOK, OneProducer, DroppedIdle, Pushing, Held, PushAgrees,
              TakeAgrees, LiveSlots, ReadSoFar, Written
<1> QED
  BY <1>1, <1>2, <1>3, CallPushStep, CallPopStep, CallCountStep, DropStep DEF Next

(* The events are in the slots between the two indices, whatever the       *)
(* interleaving of one producer's and one consumer's steps, and the two    *)
(* indices never get further apart than the capacity.                      *)
THEOREM RingInvariant == ~MayOverlap => (Spec => []RingInv)
<1> SUFFICES ASSUME ~MayOverlap PROVE Spec => []RingInv
  OBVIOUS
<1>1. RingInv /\ [Next]_vars => RingInv'
  BY RingStep
<1> QED
  BY RingInit, <1>1, PTL DEF Spec

(* push never overwrites an event, and pop never reads a slot without one. *)
THEOREM SlotsAreOwned == ~MayOverlap => (Spec => []SlotsOwned)
<1> SUFFICES ASSUME ~MayOverlap PROVE Spec => []SlotsOwned
  OBVIOUS
<1>1. RingInv => SlotsOwned
  <2> SUFFICES ASSUME RingInv PROVE SlotsOwned
    OBVIOUS
  <2>1. ASSUME NEW t \in Producer, push[t].at = "write"
        PROVE  buffer[slot_index(push[t].p)] = Empty
    <3>1. push[t].p = producer_index /\ Held < Capacity /\ alive
          /\ \A u \in Producer : u # t => ~Pushing(u)
      BY <2>1, Alone DEF RingInv, PushAgrees, Pushing
    <3>2. Written = 0
      BY <2>1, <3>1, WrittenBy
    <3>3. Held \in Slots
      BY <3>1, HeldTyped, Sizes DEF Slots
    <3> QED
      BY <3>1, <3>2, <3>3, HeldTyped DEF RingInv, LiveSlots
  <2>2. ASSUME take.at = "read"
        PROVE  buffer[slot_index(Plus(take.i, Len(take.got)))] # Empty
    <3> DEFINE R == Len(take.got)
    <3>1. /\ take.i = consumer_index /\ take.size \in 1..Held /\ R < take.size
          /\ consumer_index \in Index /\ R \in Nat /\ ReadSoFar = R /\ alive
      BY <2>2 DEF RingInv, TakeAgrees, TypeOK, TakeCall, ReadSoFar, DroppedIdle
    <3> HIDE DEF R
    <3>2. slot_index(Plus(take.i, R)) = slot_index(consumer_index + R)
      BY <3>1, PlusSlot
    <3>3. R \in Slots /\ R < Held + Written
      BY <3>1, HeldTyped, Sizes DEF Slots, Written
    <3>4. buffer[slot_index(consumer_index + R)] # Empty
      BY <3>1, <3>3 DEF RingInv, LiveSlots
    <3> QED
      BY <3>2, <3>4 DEF R
  <2> QED
    BY <2>1, <2>2 DEF SlotsOwned
<1>2. Spec => []RingInv
  BY RingInvariant
<1> QED
  BY <1>1, <1>2, PTL

(* poll and wait_for_events report events only when the consumer can take  *)
(* that many.                                                              *)
THEOREM CountsAreHonest == ~MayOverlap => (Spec => CountIsHonest)
<1> SUFFICES ASSUME ~MayOverlap PROVE Spec => CountIsHonest
  OBVIOUS
<1>1. RingInv /\ [Next]_vars =>
        [CountLoadsConsumer => take'.count <= Held /\ Held <= Capacity]_vars
  <2> SUFFICES ASSUME RingInv, CountLoadsConsumer
               PROVE  take'.count <= Held /\ Held <= Capacity
    OBVIOUS
  <2>1. take'.count = Distance(take.i, consumer_index)
    BY DEF CountLoadsConsumer, Idle
  <2>2. Distance(take.i, consumer_index) <= Held
    BY DEF CountLoadsConsumer, RingInv, TakeAgrees
  <2> QED
    BY <2>1, <2>2 DEF RingInv
<1>2. Spec => []RingInv
  BY RingInvariant
<1> QED
  BY <1>1, <1>2, PTL DEF Spec, CountIsHonest

(* Every slot is some place counted from the consumer's index.             *)
LEMMA SlotsReached ==
  ASSUME NEW c \in Nat, NEW s \in Slots
  PROVE  \E k \in Slots : slot_index(c + k) = s
<1> DEFINE q == c \div Capacity
           r == c % Capacity
<1>1. c = Capacity * q + r /\ q \in Nat /\ r \in 0..(Capacity - 1)
  BY Sizes, DivMod
<1> HIDE DEF q, r
<1>2. CASE r <= s
  <2>1. s - r \in Slots /\ c + (s - r) = Capacity * q + s
    BY <1>1, <1>2, Sizes DEF Slots
  <2>2. (Capacity * q + s) % Capacity = s
    BY <1>1, Sizes, ModUnique DEF Slots
  <2> QED
    BY <2>1, <2>2 DEF slot_index
<1>3. CASE s < r
  <2>1. s - r + Capacity \in Slots /\ c + (s - r + Capacity) = Capacity * (q + 1) + s
    BY <1>1, <1>3, Sizes DEF Slots
  <2>2. (Capacity * (q + 1) + s) % Capacity = s
    BY <1>1, Sizes, ModUnique DEF Slots
  <2> QED
    BY <2>1, <2>2 DEF slot_index
<1> QED
  BY <1>1, <1>2, <1>3, Sizes DEF Slots

(* Drop releases every event the ring still holds, unless the producer's   *)
(* index has wrapped past the consumer's.                                  *)
THEOREM NothingIsLeaked == ~MayOverlap => (Spec => []NothingLeaked)
<1> SUFFICES ASSUME ~MayOverlap PROVE Spec => []NothingLeaked
  OBVIOUS
<1>1. Init => NothingLeaked
  BY DEF Init, NothingLeaked
<1>2. ASSUME RingInv, NothingLeaked, [Next]_vars PROVE NothingLeaked'
  <2>1. CASE Drop
    <3> SUFFICES ASSUME consumer_index <= producer_index, NEW s \in Slots
                 PROVE  buffer'[s] = Empty
      BY <2>1 DEF Drop, NothingLeaked
    <3>1. /\ alive /\ take.at = "idle" /\ \A t \in Producer : ~Pushing(t)
          /\ buffer'[s] = IF \E i \in consumer_index..(producer_index - 1) : s = slot_index(i)
                            THEN Empty ELSE buffer[s]
      BY <2>1 DEF Drop
    <3>2. /\ producer_index \in Index /\ consumer_index \in Index
          /\ Held = producer_index - consumer_index
      BY <1>2, DistanceTyped DEF RingInv, TypeOK, Held
    <3>3. PICK k \in Slots : slot_index(consumer_index + k) = s
      BY <3>2, SlotsReached DEF Index
    <3>4. Written = 0 /\ ReadSoFar = 0
      BY <3>1 DEF Written, ReadSoFar, Pushing
    <3>5. (buffer[s] # Empty) <=> (0 <= k /\ k < Held + 0)
      BY <1>2, <3>1, <3>3, <3>4 DEF RingInv, LiveSlots
    <3>6. k < Held => consumer_index + k \in consumer_index..(producer_index - 1)
      BY <3>2, Sizes DEF Index, Slots
    <3>7. 0 <= k /\ Held + 0 = Held
      BY <3>2, Sizes DEF Slots, Index
    <3> QED
      BY <3>1, <3>3, <3>5, <3>6, <3>7
  <2>2. CASE UNCHANGED vars
    BY <1>2, <2>2 DEF vars, NothingLeaked
  <2>3. CASE Next /\ ~Drop
    <3>1. ASSUME NEW t \in Producer, RunPush(t) PROVE alive'
      <4>1. Pushing(t)
        BY <3>1 DEF RunPush, PushLoadsProducer, PushLoadsConsumer, PushWrites, PushStores, Pushing
      <4>2. alive' = alive
        BY <3>1 DEF RunPush, PushLoadsProducer, PushLoadsConsumer, PushWrites, PushStores
      <4> QED
        BY <1>2, <4>1, <4>2, Alone
    <3>2. ASSUME RunTake PROVE alive'
      <4>1. take.at # "idle"
        BY <3>2 DEF RunTake, PopLoadsConsumer, PopLoadsProducer, PopReads, PopStores,
                    CountLoadsProducer, CountLoadsConsumer
      <4>2. alive' = alive
        BY <3>2 DEF RunTake, PopLoadsConsumer, PopLoadsProducer, PopReads, PopStores,
                    CountLoadsProducer, CountLoadsConsumer
      <4> QED
        BY <1>2, <4>1, <4>2 DEF RingInv, DroppedIdle
    <3>3. ASSUME NEW t \in Producer, NEW v \in Event, CallPush(t, v) PROVE alive'
      BY <3>3, Zenon DEF CallPush
    <3>4. ASSUME NEW n \in 0..MaxBatch, CallPop(n) PROVE alive'
      BY <3>4, Zenon DEF CallPop
    <3>5. ASSUME CallCount PROVE alive'
      BY <3>5, Zenon DEF CallCount
    <3>6. alive'
      BY <2>3, <3>1, <3>2, <3>3, <3>4, <3>5, Zenon DEF Next
    <3> QED
      BY <3>6 DEF NothingLeaked
  <2> QED
    BY <1>2, <2>1, <2>2, <2>3
<1>3. Spec => []RingInv
  BY RingInvariant
<1>4. RingInv /\ NothingLeaked /\ [Next]_vars => NothingLeaked'
  BY <1>2
<1> QED
  BY <1>1, <1>3, <1>4, PTL DEF Spec

-----------------------------------------------------------------------------
(* The ring implements the bounded queue: each step of push and pop is one *)
(* step of the queue or none.  The steps that count are the load by which  *)
(* push finds the ring full, the store that publishes an event, the load   *)
(* by which pop sees what it will take, and the store that gives the room  *)
(* back.                                                                   *)

V == Event \cup {Empty}

(* The two sequences, place by place.                                      *)
Shape ==
  /\ Held \in Nat /\ Held <= Capacity /\ Taking \in 0..Held
  /\ consumer_index \in Index
  /\ queueBar \in Seq(V)
  /\ heldBar \in Seq(V)
  /\ Len(heldBar) = Taking
  /\ \A k \in 1..Taking :
       heldBar[k] = IF k <= Len(take.got) THEN take.got[k]
                    ELSE buffer[slot_index(consumer_index + (k - 1))]
  /\ Len(queueBar) = IF alive THEN Held - Taking ELSE 0
  /\ alive => \A k \in 1..(Held - Taking) :
       queueBar[k] = buffer[slot_index(consumer_index + (Taking + k - 1))]

LEMMA PlaceIs ==
  ASSUME TypeOK, NEW k \in Nat
  PROVE  Place(k) = buffer[slot_index(consumer_index + k)] /\ Place(k) \in V
<1>1. consumer_index \in Index
  BY DEF TypeOK
<1>2. Plus(consumer_index, k) \in Index
  BY <1>1, PlusTyped
<1>3. slot_index(Plus(consumer_index, k)) \in Slots
  BY <1>2, SlotTyped DEF Index
<1> QED
  BY <1>1, <1>3, PlusSlot DEF Place, TypeOK, V

LEMMA FunIsSeq ==
  ASSUME NEW n \in Nat, NEW f \in [1..n -> V]
  PROVE  f \in Seq(V) /\ Len(f) = n
  OBVIOUS

LEMMA TailShape ==
  ASSUME NEW s \in Seq(V), NEW n \in 0..Len(s)
  PROVE  /\ SubSeq(s, n + 1, Len(s)) \in Seq(V)
         /\ Len(SubSeq(s, n + 1, Len(s))) = Len(s) - n
         /\ \A k \in 1..(Len(s) - n) : SubSeq(s, n + 1, Len(s))[k] = s[n + k]
<1> DEFINE L == Len(s)
           w == SubSeq(s, n + 1, L)
<1>1. L \in Nat /\ n \in Nat /\ n <= L
  OBVIOUS
<1>2. \A k \in (n + 1)..L : s[k] \in V
  BY <1>1, ElementOfSeq
<1>3. /\ w \in Seq(V)
      /\ Len(w) = IF n + 1 <= L THEN L - (n + 1) + 1 ELSE 0
      /\ \A k \in 1..(L - (n + 1) + 1) : w[k] = s[(n + 1) + k - 1]
  BY <1>1, <1>2, SubSeqProperties
<1>4. L - (n + 1) + 1 = L - n
  BY <1>1
<1>5. \A k \in 1..(L - n) : w[k] = s[n + k]
  <2>1. ASSUME NEW k \in 1..(L - n) PROVE (n + 1) + k - 1 = n + k
    BY <1>1
  <2> HIDE DEF L, w
  <2> QED
    BY <1>3, <1>4, <2>1
<1>6. Len(w) = L - n
  <2> HIDE DEF L, w
  <2> QED
    BY <1>1, <1>3, <1>4
<1> QED
  BY <1>3, <1>5, <1>6

LEMMA Shapes == RingInv => Shape
<1> SUFFICES ASSUME RingInv PROVE Shape
  OBVIOUS
<1>1. Held \in Nat /\ Held <= Capacity /\ consumer_index \in Index /\ TypeOK
  BY HeldTyped DEF RingInv, TypeOK
<1>2. Taking \in 0..Held /\ take.got \in Seq(V)
  BY <1>1 DEF RingInv, TakeAgrees, TypeOK, TakeCall, Taking, V
<1>3. /\ heldBar \in Seq(V) /\ Len(heldBar) = Taking
      /\ \A k \in 1..Taking :
           heldBar[k] = IF k <= Len(take.got) THEN take.got[k]
                        ELSE buffer[slot_index(consumer_index + (k - 1))]
  <2>1. ASSUME NEW k \in 1..Taking
        PROVE  /\ k - 1 \in Nat
               /\ Place(k - 1) = buffer[slot_index(consumer_index + (k - 1))]
               /\ (IF k <= Len(take.got) THEN take.got[k] ELSE Place(k - 1)) \in V
    <3>1. k - 1 \in Nat /\ k \in Nat /\ k >= 1
      BY <1>2
    <3>2. k <= Len(take.got) => take.got[k] \in V
      BY <1>2, <3>1, ElementOfSeq
    <3> QED
      BY <1>1, <3>1, <3>2, PlaceIs
  <2>2. heldBar \in [1..Taking -> V]
    BY <2>1 DEF heldBar
  <2>3. heldBar \in Seq(V) /\ Len(heldBar) = Taking
    BY <1>2, <2>2, FunIsSeq
  <2> QED
    BY <2>1, <2>3 DEF heldBar
<1>4. /\ queueBar \in Seq(V)
      /\ Len(queueBar) = IF alive THEN Held - Taking ELSE 0
      /\ alive => \A k \in 1..(Held - Taking) :
           queueBar[k] = buffer[slot_index(consumer_index + (Taking + k - 1))]
  <2>1. CASE alive
    <3>1. ASSUME NEW k \in 1..(Held - Taking)
          PROVE  /\ Place(Taking + k - 1) = buffer[slot_index(consumer_index + (Taking + k - 1))]
                 /\ Place(Taking + k - 1) \in V
      <4>1. Taking + k - 1 \in Nat
        BY <1>1, <1>2
      <4> QED
        BY <1>1, <4>1, PlaceIs
    <3>2. queueBar = [k \in 1..(Held - Taking) |-> Place(Taking + k - 1)]
      BY <2>1 DEF queueBar
    <3>3. queueBar \in [1..(Held - Taking) -> V]
      BY <3>1, <3>2
    <3>4. Held - Taking \in Nat
      BY <1>1, <1>2
    <3>5. queueBar \in Seq(V) /\ Len(queueBar) = Held - Taking
      BY <3>3, <3>4, FunIsSeq
    <3> QED
      BY <2>1, <3>1, <3>2, <3>5
  <2>2. CASE ~alive
    BY <2>2 DEF queueBar
  <2> QED
    BY <2>1, <2>2
<1> QED
  BY <1>1, <1>2, <1>3, <1>4 DEF Shape

(* What is being published is what was offered.                            *)
Stored ==
  \A t \in Producer : push[t].at = "store" => buffer[slot_index(push[t].p)] = push[t].value

LEMMA StoredStep ==
  ASSUME RingInv, Stored, ~MayOverlap, [Next]_vars
  PROVE  Stored'
<1>1. ASSUME NEW t \in Producer, PushWrites(t) PROVE Stored'
  <2>1. PICK g \in PushCall :
          /\ push' = [push EXCEPT ![t] = g]
          /\ g.at = "store" /\ g.value = push[t].value /\ g.p = push[t].p
    BY <1>1, PushWritesMoves DEF RingInv
  <2>2. /\ push' \in [Producer -> PushCall] /\ push'[t] = g
        /\ \A u \in Producer : u # t => push'[u] = push[u]
    BY <2>1, PushTyped DEF RingInv
  <2>3. \A u \in Producer : u # t => push[u].at # "store"
    BY <1>1, Alone DEF PushWrites, Pushing
  <2>4. push[t].p \in Nat
    BY DEF RingInv, TypeOK, PushCall, Index
  <2>5. buffer'[slot_index(push[t].p)] = push[t].value
    BY <1>1, <2>4, SlotTyped DEF PushWrites, RingInv, TypeOK
  <2> QED
    BY <2>1, <2>2, <2>3, <2>5 DEF Stored
<1>2. ASSUME NEW t \in Producer, NEW g \in PushCall,
             push' = [push EXCEPT ![t] = g], g.at # "store", buffer' = buffer
      PROVE  Stored'
  <2>1. /\ push'[t] = g
        /\ \A u \in Producer : u # t => push'[u] = push[u]
    BY <1>2, PushTyped DEF RingInv
  <2> QED
    BY <1>2, <2>1 DEF Stored
<1>3. ASSUME NEW t \in Producer, RunPush(t) PROVE Stored'
  <2>1. CASE PushLoadsProducer(t)
    BY <1>2, <2>1, PushLoadsProducerMoves DEF PushLoadsProducer, RingInv
  <2>2. CASE PushLoadsConsumer(t)
    BY <1>2, <2>2, PushLoadsConsumerMoves DEF PushLoadsConsumer, RingInv
  <2>3. CASE PushStores(t)
    BY <1>2, <2>3, ReturnedTyped DEF PushStores
  <2> QED
    BY <1>1, <1>3, <2>1, <2>2, <2>3 DEF RunPush
<1>4. ASSUME NEW t \in Producer, NEW v \in Event, CallPush(t, v) PROVE Stored'
  BY <1>2, <1>4, CallPushMoves DEF CallPush, RingInv
<1>5. ASSUME PopReads PROVE Stored'
  <2> DEFINE R == Len(take.got)
             s == slot_index(Plus(take.i, R))
  <2>1. /\ take.at = "read" /\ take.i = consumer_index /\ consumer_index \in Index
        /\ take.size \in 1..Held /\ R < take.size /\ R \in Nat /\ push' = push
        /\ buffer' = [buffer EXCEPT ![s] = Empty]
    BY <1>5 DEF PopReads, RingInv, TypeOK, TakeAgrees, TakeCall
  <2>2. s = slot_index(consumer_index + R)
    BY <2>1, PlusSlot
  <2> HIDE DEF R, s
  <2>3. ASSUME NEW t \in Producer, push[t].at = "store"
        PROVE  buffer'[slot_index(push[t].p)] = push[t].value
    <3>1. push[t].p = producer_index /\ Held < Capacity
      BY <2>3 DEF RingInv, PushAgrees
    <3>2. slot_index(push[t].p) = slot_index(consumer_index + Held) /\ Held \in Nat
      BY <3>1, HeldTyped
    <3>3. slot_index(consumer_index + R) # slot_index(consumer_index + Held)
      BY <2>1, <3>1, <3>2, SlotsDistinct, Sizes DEF Index
    <3>4. slot_index(push[t].p) \in Slots
      BY <2>1, <3>2, SlotTyped DEF Index
    <3> QED
      BY <2>1, <2>2, <2>3, <3>2, <3>3, <3>4 DEF Stored, RingInv, TypeOK
  <2> QED
    BY <2>1, <2>3 DEF Stored
<1>6. ASSUME UNCHANGED <<buffer, push>> PROVE Stored'
  BY <1>6 DEF Stored
<1>7. ASSUME RunTake PROVE Stored'
  BY <1>5, <1>6, <1>7 DEF RunTake, PopLoadsConsumer, PopLoadsProducer, PopStores,
                          CountLoadsProducer, CountLoadsConsumer
<1>8. ASSUME Drop PROVE Stored'
  BY <1>8 DEF Drop, Stored, Pushing
<1> QED
  BY <1>3, <1>4, <1>6, <1>7, <1>8 DEF Next, CallPop, CallCount, vars

-----------------------------------------------------------------------------
(* The simulation.                                                         *)

LEMMA OfferMoves ==
  ASSUME TypeOK, NEW t \in Producer, NEW g \in PushCall, push' = [push EXCEPT ![t] = g]
  PROVE  offerBar' = [offerBar EXCEPT ![t] = IF g.at # "idle" THEN g.value ELSE g.answer]
<1>1. /\ push' \in [Producer -> PushCall] /\ push'[t] = g
      /\ \A u \in Producer : u # t => push'[u] = push[u]
  BY PushTyped
<1> QED
  BY <1>1 DEF offerBar, Pushing

LEMMA OfferStays ==
  ASSUME TypeOK, NEW t \in Producer, NEW g \in PushCall, push' = [push EXCEPT ![t] = g],
         Pushing(t), g.at # "idle", g.value = push[t].value
  PROVE  offerBar' = offerBar
<1>1. offerBar' = [offerBar EXCEPT ![t] = g.value]
  BY OfferMoves
<1>2. offerBar[t] = g.value
  BY DEF offerBar
<1> QED
  BY <1>1, <1>2 DEF offerBar

LEMMA RingUntouched ==
  ASSUME UNCHANGED <<buffer, producer_index, consumer_index, take, alive>>
  PROVE  queueBar' = queueBar /\ heldBar' = heldBar
  BY DEF queueBar, heldBar, Place, Held, Taking

LEMMA SimCallPush ==
  ASSUME RingInv, NEW t \in Producer, NEW v \in Event, CallPush(t, v)
  PROVE  Fifo!Next
<1>1. PICK g \in PushCall : /\ push' = [push EXCEPT ![t] = g]
                            /\ g.at = "loadProducer" /\ g.value = v
  BY CallPushMoves DEF RingInv
<1>2. offerBar' = [offerBar EXCEPT ![t] = v]
  BY <1>1, OfferMoves DEF RingInv
<1>3. offerBar[t] \in Fifo!Answer
  BY DEF CallPush, RingInv, TypeOK, PushCall, offerBar, Fifo!Answer
<1>4. queueBar' = queueBar /\ heldBar' = heldBar
  BY RingUntouched DEF CallPush
<1>5. Fifo!Offer(t, v)
  BY <1>2, <1>3, <1>4 DEF Fifo!Offer
<1> QED
  BY <1>5 DEF Fifo!Next

LEMMA SimPushLoads ==
  ASSUME RingInv, NEW t \in Producer, PushLoadsProducer(t)
  PROVE  UNCHANGED Fifo!vars
<1>1. PICK g \in PushCall :
         /\ push' = [push EXCEPT ![t] = g]
         /\ g.at = "loadConsumer" /\ g.value = push[t].value /\ g.p = producer_index
  BY PushLoadsProducerMoves DEF RingInv
<1>2. offerBar' = offerBar
  BY <1>1, OfferStays DEF RingInv, PushLoadsProducer, Pushing
<1>3. queueBar' = queueBar /\ heldBar' = heldBar
  BY RingUntouched DEF PushLoadsProducer
<1> QED
  BY <1>2, <1>3 DEF Fifo!vars

LEMMA SimPushDecides ==
  ASSUME RingInv, NEW t \in Producer, PushLoadsConsumer(t)
  PROVE  Fifo!Next \/ UNCHANGED Fifo!vars
<1>1. /\ push[t].at = "loadConsumer" /\ push[t].p = producer_index
      /\ push[t].value \in Event /\ alive /\ Pushing(t)
  BY Alone DEF PushLoadsConsumer, RingInv, PushAgrees, Pushing
<1>2. queueBar' = queueBar /\ heldBar' = heldBar
  BY RingUntouched DEF PushLoadsConsumer
<1>3. CASE IsFull(push[t].p, consumer_index)
  <2>1. push' = [push EXCEPT ![t] = Returned("refused")]
    BY <1>3 DEF PushLoadsConsumer
  <2>2. offerBar' = [offerBar EXCEPT ![t] = "refused"]
    BY <2>1, ReturnedTyped, OfferMoves DEF RingInv, Returned
  <2>3. Fifo!Full
    <3>1. Held = Capacity
      BY <1>1, <1>3 DEF IsFull, Held
    <3>2. Shape
      BY Shapes
    <3>3. Len(queueBar) + Len(heldBar) = Held
      BY <1>1, <3>2 DEF Shape
    <3> QED
      BY <3>1, <3>3 DEF Fifo!Full
  <2>4. offerBar[t] \in Event
    BY <1>1 DEF offerBar
  <2>5. Fifo!Refuse(t)
    BY <1>2, <2>2, <2>3, <2>4 DEF Fifo!Refuse
  <2> QED
    BY <2>5 DEF Fifo!Next
<1>4. CASE ~IsFull(push[t].p, consumer_index)
  <2> DEFINE g == [push[t] EXCEPT !.at = "write"]
  <2>1. push' = [push EXCEPT ![t] = g]
    BY <1>4 DEF PushLoadsConsumer
  <2>2. g \in PushCall /\ g.at = "write" /\ g.value = push[t].value
    BY DEF RingInv, TypeOK, PushCall
  <2> HIDE DEF g
  <2>3. offerBar' = offerBar
    BY <1>1, <2>1, <2>2, OfferStays DEF RingInv
  <2> QED
    BY <1>2, <2>3 DEF Fifo!vars
<1> QED
  BY <1>3, <1>4

(* The slot written is none of those the two sequences read.               *)
LEMMA SimPushWrites ==
  ASSUME RingInv, RingInv', NEW t \in Producer, PushWrites(t)
  PROVE  UNCHANGED Fifo!vars
<1>1. PICK g \in PushCall :
         /\ push' = [push EXCEPT ![t] = g]
         /\ g.at = "store" /\ g.value = push[t].value /\ g.p = push[t].p
  BY PushWritesMoves DEF RingInv
<1>2. /\ push[t].at = "write" /\ push[t].p = producer_index /\ Held < Capacity
      /\ push[t].value \in Event /\ Pushing(t)
      /\ buffer' = [buffer EXCEPT ![slot_index(push[t].p)] = push[t].value]
      /\ UNCHANGED <<producer_index, consumer_index, take, alive>>
  BY DEF PushWrites, RingInv, PushAgrees, Pushing
<1>3. offerBar' = offerBar
  BY <1>1, <1>2, OfferStays DEF RingInv
<1>4. Shape /\ Shape'
  <2>1. Shape
    BY Shapes
  <2>2. Shape'
    BY Shapes, PTL
  <2> QED
    BY <2>1, <2>2
<1>5. Held' = Held /\ Taking' = Taking
  BY <1>2 DEF Held, Taking
<1>6. /\ Held \in Slots /\ slot_index(producer_index) \in Slots
      /\ slot_index(producer_index) = slot_index(consumer_index + Held)
  <2>1. producer_index \in Nat
    BY DEF RingInv, TypeOK, Index
  <2> QED
    BY <1>2, <2>1, HeldTyped, SlotTyped, Sizes DEF Slots
<1>7. \A k \in Slots : k # Held =>
        buffer'[slot_index(consumer_index + k)] = buffer[slot_index(consumer_index + k)]
  BY <1>2, <1>6, WriteAt DEF RingInv
<1>8. queueBar' = queueBar
  <2>1. ASSUME alive, NEW k \in 1..(Held - Taking) PROVE queueBar'[k] = queueBar[k]
    <3> DEFINE j == Taking + k - 1
    <3>1. j \in Slots /\ j # Held
      BY <1>2, <1>4, Sizes DEF Shape, Slots
    <3> HIDE DEF j
    <3>2. buffer'[slot_index(consumer_index + j)] = buffer[slot_index(consumer_index + j)]
      BY <1>7, <3>1
    <3> QED
      BY <1>2, <1>4, <1>5, <2>1, <3>2 DEF Shape, j
  <2> QED
    BY <1>2, <1>4, <1>5, <2>1, SeqEqual DEF Shape
<1>9. heldBar' = heldBar
  <2>1. ASSUME NEW k \in 1..Taking PROVE heldBar'[k] = heldBar[k]
    <3> DEFINE j == k - 1
    <3>1. j \in Slots /\ j # Held
      BY <1>2, <1>4, Sizes DEF Shape, Slots
    <3> HIDE DEF j
    <3>2. buffer'[slot_index(consumer_index + j)] = buffer[slot_index(consumer_index + j)]
      BY <1>7, <3>1
    <3> QED
      BY <1>2, <1>4, <1>5, <3>2 DEF Shape, j
  <2> QED
    BY <1>4, <1>5, <2>1, SeqEqual DEF Shape
<1> QED
  BY <1>3, <1>8, <1>9 DEF Fifo!vars

LEMMA SimPushStores ==
  ASSUME RingInv, RingInv', Stored, NEW t \in Producer, PushStores(t)
  PROVE  Fifo!Next
<1>1. /\ push[t].at = "store" /\ push[t].p = producer_index /\ Held < Capacity
      /\ push[t].value \in Event /\ alive /\ Pushing(t)
      /\ producer_index' = Plus(push[t].p, 1)
      /\ push' = [push EXCEPT ![t] = Returned("accepted")]
      /\ UNCHANGED <<buffer, consumer_index, take, alive>>
  BY Alone DEF PushStores, RingInv, PushAgrees, Pushing
<1>2. offerBar' = [offerBar EXCEPT ![t] = "accepted"]
  BY <1>1, ReturnedTyped, OfferMoves DEF RingInv, Returned
<1>3. Shape /\ Shape'
  <2>1. Shape
    BY Shapes
  <2>2. Shape'
    BY Shapes, PTL
  <2> QED
    BY <2>1, <2>2
<1>4. Held' = Held + 1 /\ Taking' = Taking
  BY <1>1, DistanceGrows DEF Held, Taking, RingInv, TypeOK
<1>5. buffer[slot_index(consumer_index + Held)] = push[t].value
  BY <1>1, HeldTyped DEF Stored
<1>6. heldBar' = heldBar
  BY <1>1 DEF heldBar, Taking, Place
<1>7. offerBar[t] = push[t].value
  BY <1>1 DEF offerBar
<1>8. queueBar' = Append(queueBar, offerBar[t])
  <2> DEFINE a == Append(queueBar, offerBar[t])
             n == Held - Taking
  <2>1. n \in Nat /\ Len(queueBar) = n /\ Len(queueBar') = n + 1
    BY <1>1, <1>3, <1>4 DEF Shape
  <2>2. /\ a \in Seq(V) /\ Len(a) = n + 1
        /\ \A k \in 1..n : a[k] = queueBar[k]
        /\ a[n + 1] = push[t].value
    <3>1. push[t].value \in V
      BY <1>1 DEF V
    <3>2. queueBar \in Seq(V)
      BY <1>3 DEF Shape
    <3> HIDE DEF n
    <3> QED
      BY <1>7, <2>1, <3>1, <3>2
  <2>3. ASSUME NEW k \in 1..(n + 1) PROVE queueBar'[k] = a[k]
    <3>0. queueBar'[k] = buffer[slot_index(consumer_index + (Taking + k - 1))]
      <4>1. k \in 1..(Held' - Taking')
        BY <1>3, <1>4, <2>3 DEF Shape
      <4> QED
        BY <1>1, <1>3, <1>4, <4>1 DEF Shape
    <3>1. CASE k \in 1..n
      BY <1>1, <1>3, <2>2, <3>0, <3>1 DEF Shape
    <3>2. CASE k = n + 1
      <4>1. Taking + k - 1 = Held
        BY <1>3, <3>2 DEF Shape
      <4> QED
        BY <1>5, <2>2, <3>0, <3>2, <4>1
    <3> QED
      BY <2>1, <3>1, <3>2
  <2> HIDE DEF a, n
  <2>4. queueBar' \in Seq(V)
    BY <1>3 DEF Shape
  <2>5. queueBar' = a
    BY <2>1, <2>2, <2>3, <2>4, SeqEqual
  <2> QED
    BY <2>5 DEF a
<1>9. ~Fifo!Full
  BY <1>1, <1>3 DEF Shape, Fifo!Full
<1>10. Fifo!Accept(t)
  BY <1>1, <1>2, <1>6, <1>7, <1>8, <1>9 DEF Fifo!Accept
<1> QED
  BY <1>10 DEF Fifo!Next

LEMMA SimPopLoads ==
  ASSUME RingInv, PopLoadsProducer
  PROVE  Fifo!Next
<1> DEFINE n == BatchSize(Held, take.limit)
           q == queueBar
<1>1. /\ take.at = "loadProducer" /\ take.i = consumer_index /\ take.got = <<>>
      /\ take \in TakeCall /\ alive
      /\ UNCHANGED <<buffer, producer_index, consumer_index, push, alive>>
      /\ take' = IF n = 0 THEN Idle ELSE [take EXCEPT !.at = "read", !.size = n]
  BY DEF PopLoadsProducer, RingInv, TypeOK, TakeAgrees, DroppedIdle, Held
<1>2. Shape /\ Taking = 0
  BY <1>1, Shapes DEF Taking
<1>3. RingInv'
  BY PopLoadsProducerStep
<1>4. Shape'
  BY <1>3, Shapes, PTL
<1>5. /\ n \in 0..Held /\ take.limit \in 0..MaxBatch /\ Len(q) = Held /\ q \in Seq(V)
      /\ n = IF Len(q) < take.limit THEN Len(q) ELSE take.limit
      /\ \A k \in 1..Held : q[k] = buffer[slot_index(consumer_index + (k - 1))]
  <2>1. take.limit \in 0..MaxBatch
    BY <1>1 DEF TakeCall
  <2>2. Len(q) = Held /\ q \in Seq(V) /\ Held \in Nat
    BY <1>1, <1>2 DEF Shape
  <2>3. \A k \in 1..Held : q[k] = buffer[slot_index(consumer_index + (k - 1))]
    <3>1. \A k \in 1..Held : k \in 1..(Held - 0) /\ 0 + k - 1 = k - 1
      BY <2>2
    <3> QED
      BY <1>1, <1>2, <3>1 DEF Shape
  <2> QED
    BY <2>1, <2>2, <2>3, BatchAssumption DEF BatchSize
<1>6. Held' = Held /\ Taking' = n /\ take'.got = <<>>
  <2>1. Held' = Held
    BY <1>1 DEF Held
  <2> HIDE DEF n
  <2>2. CASE n = 0
    BY <1>1, <2>1, <2>2, IdleTyped DEF Taking, Idle
  <2>3. CASE n # 0
    <3>1. take'.at = "read" /\ take'.size = n /\ take'.got = take.got
      BY <1>1, <2>3 DEF TakeCall
    <3> QED
      BY <1>1, <2>1, <3>1 DEF Taking
  <2> QED
    BY <2>2, <2>3
<1> HIDE DEF n, q
<1>7. heldBar' = SubSeq(q, 1, n)
  <2>1. /\ SubSeq(q, 1, n) \in Seq(V) /\ Len(SubSeq(q, 1, n)) = n
        /\ \A k \in 1..n : SubSeq(q, 1, n)[k] = q[k]
    <3>1. n \in Int /\ \A k \in 1..n : q[k] \in V
      BY <1>5, ElementOfSeq
    <3> QED
      BY <1>5, <3>1, SubSeqProperties
  <2>2. heldBar' \in Seq(V) /\ Len(heldBar') = n
    BY <1>4, <1>6 DEF Shape
  <2>3. ASSUME NEW k \in 1..n PROVE heldBar'[k] = q[k]
    <3>1. k \in 1..Taking' /\ ~(k <= Len(take'.got)) /\ k \in 1..Held
      BY <1>5, <1>6
    <3>2. heldBar'[k] = buffer[slot_index(consumer_index + (k - 1))]
      BY <1>1, <1>4, <3>1 DEF Shape
    <3> QED
      BY <1>5, <3>1, <3>2
  <2> QED
    BY <2>1, <2>2, <2>3, SeqEqual
<1>8. queueBar' = SubSeq(q, n + 1, Len(q))
  <2>1. /\ SubSeq(q, n + 1, Len(q)) \in Seq(V)
        /\ Len(SubSeq(q, n + 1, Len(q))) = Held - n
        /\ \A k \in 1..(Held - n) : SubSeq(q, n + 1, Len(q))[k] = q[n + k]
    <3>1. n \in 0..Len(q)
      BY <1>5
    <3>2. /\ SubSeq(q, n + 1, Len(q)) \in Seq(V)
          /\ Len(SubSeq(q, n + 1, Len(q))) = Len(q) - n
          /\ \A k \in 1..(Len(q) - n) : SubSeq(q, n + 1, Len(q))[k] = q[n + k]
      BY <1>5, <3>1, TailShape
    <3> QED
      BY <1>5, <3>2
  <2>2. queueBar' \in Seq(V) /\ Len(queueBar') = Held - n
    BY <1>1, <1>4, <1>6 DEF Shape
  <2>3. ASSUME NEW k \in 1..(Held - n) PROVE queueBar'[k] = q[n + k]
    <3>1. n + k \in 1..Held /\ (n + k) - 1 = n + k - 1
      BY <1>5
    <3>2. queueBar'[k] = buffer[slot_index(consumer_index + (n + k - 1))]
      BY <1>1, <1>4, <1>6 DEF Shape
    <3> QED
      BY <1>5, <3>1, <3>2
  <2> DEFINE w == SubSeq(q, n + 1, Len(q))
  <2>4. w \in Seq(V) /\ Len(w) = Held - n /\ \A k \in 1..(Held - n) : w[k] = q[n + k]
    BY <2>1
  <2> HIDE DEF w
  <2>5. queueBar' = w
    BY <2>2, <2>3, <2>4, SeqEqual
  <2> QED
    BY <2>5 DEF w
<1>9. heldBar = <<>>
  BY <1>2 DEF heldBar
<1>10. offerBar' = offerBar
  BY <1>1 DEF offerBar, Pushing
<1>11. Fifo!Take(take.limit)
  BY <1>5, <1>7, <1>8, <1>9, <1>10 DEF Fifo!Take, q
<1> QED
  BY <1>5, <1>11 DEF Fifo!Next

(* What was read stays in hand, what was not stays where it is.            *)
LEMMA SimPopReads ==
  ASSUME RingInv, PopReads
  PROVE  UNCHANGED Fifo!vars
<1> DEFINE R == Len(take.got)
           s == slot_index(Plus(take.i, R))
<1>1. /\ take.at = "read" /\ take \in TakeCall /\ take.i = consumer_index
      /\ take.size \in 1..Held /\ R < take.size /\ R \in Nat /\ alive
      /\ consumer_index \in Index
      /\ UNCHANGED <<producer_index, consumer_index, push, alive>>
      /\ take' = [take EXCEPT !.got = Append(@, buffer[s]),
                     !.at = IF R + 1 = take.size THEN "store" ELSE "read"]
      /\ buffer' = [buffer EXCEPT ![s] = Empty]
  BY DEF PopReads, RingInv, TypeOK, TakeAgrees, TakeCall, DroppedIdle
<1>2. s = slot_index(consumer_index + R) /\ s \in Slots /\ R \in Slots
  <2>1. consumer_index + R \in Nat /\ Held \in Nat /\ Held <= Capacity
    BY <1>1, HeldTyped DEF Index
  <2>2. s = slot_index(consumer_index + R)
    BY <1>1, PlusSlot
  <2> HIDE DEF R
  <2>3. R \in Slots
    BY <1>1, <2>1, Sizes DEF Slots
  <2> QED
    BY <2>1, <2>2, <2>3, SlotTyped DEF R
<1>3. Shape
  BY Shapes
<1>4. RingInv'
  BY PopReadsStep
<1>5. Shape'
  BY <1>4, Shapes, PTL
<1>6. /\ take'.size = take.size /\ take'.at \in {"read", "store"}
      /\ take'.got = Append(take.got, buffer[s]) /\ take.got \in Seq(V) /\ buffer[s] \in V
  <2>1. take.got \in Seq(V) /\ buffer[s] \in V
    BY <1>1, <1>2 DEF TakeCall, RingInv, TypeOK, V
  <2> HIDE DEF R, s
  <2> QED
    BY <1>1, <2>1 DEF TakeCall
<1>7. /\ Len(take'.got) = R + 1 /\ take'.got[R + 1] = buffer[s]
      /\ \A k \in 1..R : take'.got[k] = take.got[k]
  <2> HIDE DEF s
  <2> QED
    BY <1>1, <1>6
<1>8. Held' = Held /\ Taking' = take.size /\ Taking = take.size
  BY <1>1, <1>6 DEF Held, Taking
<1> HIDE DEF R, s
<1>9. \A k \in Slots : k # R =>
        buffer'[slot_index(consumer_index + k)] = buffer[slot_index(consumer_index + k)]
  BY <1>1, <1>2, WriteAt DEF RingInv
<1>10. queueBar' = queueBar
  <2>1. ASSUME NEW k \in 1..(Held - Taking) PROVE queueBar'[k] = queueBar[k]
    <3> DEFINE j == Taking + k - 1
    <3>1. j \in Slots /\ j # R
      BY <1>1, <1>3, <1>8, Sizes DEF Shape, Slots
    <3> HIDE DEF j
    <3>2. buffer'[slot_index(consumer_index + j)] = buffer[slot_index(consumer_index + j)]
      BY <1>9, <3>1
    <3> QED
      BY <1>1, <1>3, <1>5, <1>8, <3>2 DEF Shape, j
  <2> QED
    BY <1>1, <1>3, <1>5, <1>8, <2>1, SeqEqual DEF Shape
<1>11. heldBar' = heldBar
  <2>1. ASSUME NEW k \in 1..Taking PROVE heldBar'[k] = heldBar[k]
    <3>1. /\ heldBar[k] = IF k <= R THEN take.got[k]
                          ELSE buffer[slot_index(consumer_index + (k - 1))]
          /\ heldBar'[k] = IF k <= R + 1 THEN take'.got[k]
                           ELSE buffer'[slot_index(consumer_index + (k - 1))]
      BY <1>1, <1>3, <1>5, <1>7, <1>8 DEF Shape, R
    <3>2. CASE k <= R
      BY <1>1, <1>7, <3>1, <3>2
    <3>3. CASE k = R + 1
      <4>1. k - 1 = R
        BY <1>1, <3>3
      <4> QED
        BY <1>1, <1>2, <1>7, <3>1, <3>3, <4>1
    <3>4. CASE k > R + 1
      <4>1. k - 1 \in Slots /\ k - 1 # R
        BY <1>1, <1>3, <1>8, <3>4, Sizes DEF Shape, Slots
      <4> QED
        BY <1>1, <1>9, <3>1, <3>4, <4>1
    <3> QED
      BY <1>1, <3>2, <3>3, <3>4
  <2> QED
    BY <1>3, <1>5, <1>8, <2>1, SeqEqual DEF Shape
<1>12. offerBar' = offerBar
  BY <1>1 DEF offerBar, Pushing
<1> QED
  BY <1>10, <1>11, <1>12 DEF Fifo!vars

LEMMA SimPopStores ==
  ASSUME RingInv, PopStores
  PROVE  Fifo!Next
<1> DEFINE n == take.size
<1>1. /\ take.at = "store" /\ take.i = consumer_index /\ n \in 1..Held /\ alive
      /\ consumer_index \in Index /\ producer_index \in Index
      /\ consumer_index' = Plus(consumer_index, n) /\ take' = Idle
      /\ UNCHANGED <<buffer, producer_index, push, alive>>
  BY DEF PopStores, RingInv, TypeOK, TakeAgrees, DroppedIdle
<1>2. Shape
  BY Shapes
<1>3. RingInv'
  BY PopStoresStep
<1>4. Shape'
  BY <1>3, Shapes, PTL
<1>5. Taking = n /\ Taking' = 0 /\ Held \in Nat
  BY <1>1, <1>2, IdleTyped DEF Taking, Shape
<1>6. Held' = Held - n
  <2>1. n \in 0..Held
    BY <1>1, <1>5
  <2> QED
    BY <1>1, <2>1, DistanceShrinks DEF Held
<1> HIDE DEF n
<1>7. heldBar # <<>>
  <2>1. Len(heldBar) = n /\ n >= 1
    BY <1>1, <1>2, <1>5 DEF Shape
  <2> QED
    BY <2>1, EmptySeq
<1>8. heldBar' = <<>>
  BY <1>5 DEF heldBar
<1>9. queueBar' = queueBar
  <2>1. /\ Len(queueBar) = Held - n /\ Len(queueBar') = Held - n
        /\ queueBar \in Seq(V) /\ queueBar' \in Seq(V)
    BY <1>1, <1>2, <1>4, <1>5, <1>6 DEF Shape
  <2>2. ASSUME NEW k \in 1..(Held - n) PROVE queueBar'[k] = queueBar[k]
    <3>1. queueBar[k] = buffer[slot_index(consumer_index + (n + k - 1))]
      BY <1>1, <1>2, <1>5 DEF Shape
    <3>2. queueBar'[k] = buffer[slot_index(Plus(consumer_index, n) + (k - 1))]
      <4>1. k \in 1..(Held' - Taking') /\ Taking' + k - 1 = k - 1
        BY <1>1, <1>5, <1>6
      <4> QED
        BY <1>1, <1>4, <1>5, <4>1 DEF Shape
    <3>3. slot_index(Plus(consumer_index, n) + (k - 1)) = slot_index(consumer_index + n + (k - 1))
      <4>1. n \in Nat /\ k - 1 \in Nat
        BY <1>1, <1>5
      <4> QED
        BY <1>1, <4>1, PlusSlotOn
    <3>4. consumer_index + n + (k - 1) = consumer_index + (n + k - 1)
      BY <1>1, <1>5 DEF Index
    <3> QED
      BY <3>1, <3>2, <3>3, <3>4
  <2> QED
    BY <2>1, <2>2, SeqEqual
<1>10. offerBar' = offerBar
  BY <1>1 DEF offerBar, Pushing
<1>11. Fifo!Taken
  BY <1>7, <1>8, <1>9, <1>10 DEF Fifo!Taken
<1> QED
  BY <1>11 DEF Fifo!Next

(* The steps of the consumer that only move it along.                      *)
LEMMA SimQuietTake ==
  ASSUME ~(take.at \in {"read", "store"}), ~(take'.at \in {"read", "store"}),
         UNCHANGED <<buffer, producer_index, consumer_index, push, alive>>
  PROVE  UNCHANGED Fifo!vars
<1>1. Taking = 0 /\ Taking' = 0 /\ Held' = Held
  BY DEF Taking, Held
<1>2. heldBar = <<>> /\ heldBar' = <<>>
  BY <1>1 DEF heldBar
<1>3. \A k : Place(k)' = Place(k)
  BY DEF Place
<1>4. queueBar' = queueBar
  BY <1>1, <1>3 DEF queueBar, Place
<1>5. offerBar' = offerBar
  BY DEF offerBar, Pushing
<1> QED
  BY <1>2, <1>4, <1>5 DEF Fifo!vars

LEMMA SimDrop ==
  ASSUME RingInv, Drop
  PROVE  Fifo!Next
<1>1. heldBar = <<>> /\ heldBar' = <<>>
  BY DEF Drop, heldBar, Taking
<1>2. queueBar' = <<>>
  BY DEF Drop, queueBar
<1>3. offerBar' = offerBar
  BY DEF Drop, offerBar, Pushing
<1>4. Fifo!Discard
  BY <1>1, <1>2, <1>3 DEF Fifo!Discard
<1> QED
  BY <1>4 DEF Fifo!Next

LEMMA SimInit == Init => Fifo!Init
<1> SUFFICES ASSUME Init PROVE Fifo!Init
  OBVIOUS
<1>1. RingInv /\ Shape
  BY RingInit, Shapes
<1>2. Held = 0
  BY Sizes DEF Init, Held, Distance
<1>3. Taking = 0
  BY DEF Init, Taking, Idle
<1>4. heldBar = <<>>
  BY <1>3 DEF heldBar
<1>5. queueBar = <<>>
  <2>1. Len(queueBar) = 0 /\ queueBar \in Seq(V)
    BY <1>1, <1>2, <1>3 DEF Shape
  <2> QED
    BY <2>1, EmptySeq
<1>6. offerBar = [t \in Producer |-> "none"]
  BY DEF Init, offerBar, Pushing, Returned
<1> QED
  BY <1>4, <1>5, <1>6 DEF Fifo!Init

LEMMA SimStep ==
  ASSUME RingInv, RingInv', Stored, [Next]_vars
  PROVE  [Fifo!Next]_(Fifo!vars)
<1>1. ASSUME NEW t \in Producer, RunPush(t) PROVE [Fifo!Next]_(Fifo!vars)
  BY <1>1, SimPushLoads, SimPushDecides, SimPushWrites, SimPushStores DEF RunPush
<1>2. ASSUME NEW t \in Producer, NEW v \in Event, CallPush(t, v)
      PROVE  [Fifo!Next]_(Fifo!vars)
  BY <1>2, SimCallPush
<1>3. take \in TakeCall
  BY DEF RingInv, TypeOK
<1>4. ASSUME NEW n \in 0..MaxBatch, CallPop(n) PROVE [Fifo!Next]_(Fifo!vars)
  <2>1. ~(take.at \in {"read", "store"}) /\ ~(take'.at \in {"read", "store"})
    BY <1>4 DEF CallPop, Idle
  <2> QED
    BY <1>4, <2>1, SimQuietTake DEF CallPop
<1>5. ASSUME CallCount PROVE [Fifo!Next]_(Fifo!vars)
  <2>1. ~(take.at \in {"read", "store"}) /\ ~(take'.at \in {"read", "store"})
    BY <1>5 DEF CallCount, Idle
  <2> QED
    BY <1>5, <2>1, SimQuietTake DEF CallCount
<1>6. ASSUME PopLoadsConsumer PROVE [Fifo!Next]_(Fifo!vars)
  <2>1. ~(take.at \in {"read", "store"}) /\ ~(take'.at \in {"read", "store"})
    BY <1>3, <1>6 DEF PopLoadsConsumer, TakeCall
  <2> QED
    BY <1>6, <2>1, SimQuietTake DEF PopLoadsConsumer
<1>7. ASSUME CountLoadsProducer PROVE [Fifo!Next]_(Fifo!vars)
  <2>1. ~(take.at \in {"read", "store"}) /\ ~(take'.at \in {"read", "store"})
    BY <1>3, <1>7 DEF CountLoadsProducer, TakeCall
  <2> QED
    BY <1>7, <2>1, SimQuietTake DEF CountLoadsProducer
<1>8. ASSUME CountLoadsConsumer PROVE [Fifo!Next]_(Fifo!vars)
  <2>1. ~(take.at \in {"read", "store"}) /\ ~(take'.at \in {"read", "store"})
    BY <1>8 DEF CountLoadsConsumer, Idle
  <2> QED
    BY <1>8, <2>1, SimQuietTake DEF CountLoadsConsumer
<1>9. ASSUME RunTake PROVE [Fifo!Next]_(Fifo!vars)
  BY <1>6, <1>7, <1>8, <1>9, SimPopLoads, SimPopReads, SimPopStores DEF RunTake
<1>10. ASSUME UNCHANGED vars PROVE [Fifo!Next]_(Fifo!vars)
  <2>1. queueBar' = queueBar /\ heldBar' = heldBar /\ offerBar' = offerBar
    BY <1>10, RingUntouched DEF vars, offerBar, Pushing
  <2> QED
    BY <2>1 DEF Fifo!vars
<1> QED
  BY <1>1, <1>2, <1>4, <1>5, <1>9, <1>10, SimDrop DEF Next

(* With one producer at a time the ring buffer is a bounded queue: events  *)
(* are taken in the order their pushes were accepted, each once, and a     *)
(* push is refused only when the ring is full.                             *)
THEOREM ImplementsBoundedFifo == ~MayOverlap => (Spec => KeepsFifoOrder)
<1> SUFFICES ASSUME ~MayOverlap PROVE Spec => KeepsFifoOrder
  OBVIOUS
<1>1. Init => RingInv /\ Stored
  BY RingInit DEF Init, Stored, Returned
<1>2. RingInv /\ Stored /\ [Next]_vars => RingInv' /\ Stored'
  BY RingStep, StoredStep
<1>3. Init => Fifo!Init
  BY SimInit
<1>4. RingInv /\ RingInv' /\ Stored /\ [Next]_vars => [Fifo!Next]_(Fifo!vars)
  BY SimStep
<1> QED
  BY <1>1, <1>2, <1>3, <1>4, PTL DEF Spec, KeepsFifoOrder
=============================================================================
