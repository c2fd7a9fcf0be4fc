----------------------------- MODULE BoundedFifo -----------------------------
(***************************************************************************)
(* What an SpscRingBuffer promises (boltffi_core/src/ringbuffer.rs): a     *)
(* queue of at most Capacity events, in the order they were accepted.  A   *)
(* producer is told at once whether its event was accepted.  The consumer  *)
(* takes all there is, up to the limit it asks for; what it is taking      *)
(* occupies room until it has it.                                          *)
(***************************************************************************)
EXTENDS Naturals, Sequences

CONSTANTS Producer, Event, Capacity, Limit

VARIABLES queue,   \* accepted and not yet taken
          held,    \* being taken, and returned by Taken
          offer    \* per producer: the event on offer, or its last answer

vars == <<queue, held, offer>>

Answer == {"none", "accepted", "refused"}

Init ==
  /\ queue = <<>>
  /\ held = <<>>
  /\ offer = [t \in Producer |-> "none"]

Offer(t, v) ==
  /\ offer[t] \in Answer
  /\ offer' = [offer EXCEPT ![t] = v]
  /\ UNCHANGED <<queue, held>>

Full == Len(queue) + Len(held) = Capacity

Accept(t) ==
  /\ offer[t] \in Event
  /\ ~Full
  /\ queue' = Append(queue, offer[t])
  /\ offer' = [offer EXCEPT ![t] = "accepted"]
  /\ UNCHANGED held

Refuse(t) ==
  /\ offer[t] \in Event
  /\ Full
  /\ offer' = [offer EXCEPT ![t] = "refused"]
  /\ UNCHANGED <<queue, held>>

Take(limit) ==
  LET n == IF Len(queue) < limit THEN Len(queue) ELSE limit IN
  /\ held = <<>>
  /\ held' = SubSeq(queue, 1, n)
  /\ queue' = SubSeq(queue, n + 1, Len(queue))
  /\ UNCHANGED offer

Taken ==
  /\ held # <<>>
  /\ held' = <<>>
  /\ UNCHANGED <<queue, offer>>

(* The end of the queue.                                                   *)
Discard ==
  /\ held = <<>>
  /\ queue' = <<>>
  /\ UNCHANGED <<held, offer>>

Next ==
  \/ \E t \in Producer : Accept(t) \/ Refuse(t) \/ \E v \in Event : Offer(t, v)
  \/ \E n \in Limit : Take(n)
  \/ Taken
  \/ Discard

Spec ==
  /\ Init /\ [][Next]_vars
  /\ \A t \in Producer : WF_vars(Accept(t) \/ Refuse(t))
  /\ WF_vars(Taken)
=============================================================================
