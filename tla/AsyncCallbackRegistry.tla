------------------------ MODULE AsyncCallbackRegistry ------------------------
(***************************************************************************)
(* The thread-local registry of the requests that the Rust futures of a    *)
(* wasm module have made to asynchronous host callbacks                    *)
(* (boltffi_core/src/runtime/async_callback.rs).  A request is named by a  *)
(* 32-bit number, which the host's answer quotes; the numbers are handed   *)
(* out in a circle, here of MaxId.  An answer is named by the request it   *)
(* was made for, counted from the first, so that an answer that reaches    *)
(* another request can be seen.                                            *)
(*                                                                         *)
(* Each operator is the whole of a method, a change of the registry made   *)
(* in one borrow of its RefCell on the only thread.                        *)
(***************************************************************************)
EXTENDS Naturals

CONSTANTS Waiter,      \* what a waker wakes
          NoWaiter,
          MaxId,       \* 2^32 - 1 in the code
          MaxRequests  \* bound: requests made in a behaviour

ASSUME RegistryAssumption ==
  /\ MaxId \in Nat \ {0}
  /\ MaxRequests \in Nat
  /\ NoWaiter \notin Waiter

VARIABLES
  next_request_id,
  pending_requests,  \* by number, NoRequest where there is none
  made,              \* how many requests were made
  idOf               \* the number of each

registryVars == <<next_request_id, pending_requests, made, idOf>>

Id == 1..MaxId
Request == 1..MaxRequests
NoRequest == [of |-> 0, waker |-> NoWaiter, completion |-> 0]

RTypeOK ==
  /\ next_request_id \in Id
  /\ pending_requests \in [Id -> [of : 0..MaxRequests, waker : Waiter \cup {NoWaiter},
                                  completion : 0..MaxRequests]]
  /\ made \in 0..MaxRequests
  /\ idOf \in [Request -> Id]

RInit ==
  /\ next_request_id = 1
  /\ pending_requests = [i \in Id |-> NoRequest]
  /\ made = 0
  /\ idOf = [n \in Request |-> 1]

Has(i) == pending_requests[i] # NoRequest
Put(i, r) == pending_requests' = [pending_requests EXCEPT ![i] = r]

(* Mutant: takes the lowest number that is free.                           *)
AllocateLowest(answered) ==
  LET i == IF \A j \in Id : Has(j) THEN 1 ELSE CHOOSE j \in Id : ~Has(j) /\ \A k \in 1..(j-1) : Has(k)
  IN  /\ made < MaxRequests
      /\ made' = made + 1
      /\ Put(i, [of |-> made', waker |-> NoWaiter, completion |-> IF answered THEN made' ELSE 0])
      /\ idOf' = [idOf EXCEPT ![made'] = i]
      /\ UNCHANGED next_request_id

(* Takes the place of a request that still has the number.  The import     *)
(* that is called with the new number may answer before it returns.        *)
Allocate(answered) ==
  /\ made < MaxRequests
  /\ made' = made + 1
  /\ Put(next_request_id, [of |-> made', waker |-> NoWaiter,
                           completion |-> IF answered THEN made' ELSE 0])
  /\ idOf' = [idOf EXCEPT ![made'] = next_request_id]
  /\ next_request_id' = (next_request_id % MaxId) + 1

(* AsyncCallbackWait::poll is SetWaker, and then a take: the completion is *)
(* returned and the guard removes the request, or there is none yet.       *)
SetWaker(i, w) ==
  /\ IF Has(i) THEN Put(i, [pending_requests[i] EXCEPT !.waker = w])
               ELSE UNCHANGED pending_requests
  /\ UNCHANGED <<next_request_id, made, idOf>>

Remove(i) ==
  /\ Put(i, NoRequest)
  /\ UNCHANGED <<next_request_id, made, idOf>>

Completion(i) == pending_requests[i].completion

(* complete, with the answer a; the waker is taken and woken.  A number    *)
(* that has no request, or has its answer, is refused.                     *)
Accepts(i) == Has(i) /\ Completion(i) = 0
WakerOf(i) == IF Accepts(i) THEN pending_requests[i].waker ELSE NoWaiter

Complete(i, a) ==
  /\ IF Accepts(i) THEN Put(i, [pending_requests[i] EXCEPT !.completion = a, !.waker = NoWaiter])
                   ELSE UNCHANGED pending_requests
  /\ UNCHANGED <<next_request_id, made, idOf>>
=============================================================================
