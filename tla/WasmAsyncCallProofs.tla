------------------------- MODULE WasmAsyncCallProofs -------------------------
(***************************************************************************)
(* Proofs about the asynchronous calls of wasm, for any number of calls,   *)
(* addresses and requests, and any circle of request numbers: handles that *)
(* are used again, wakes and cancels that come late, and answers to        *)
(* requests that are gone.                                                 *)
(***************************************************************************)
EXTENDS WasmAsyncCall, SequenceTheorems, TLAPS

(* The registry.                                                           *)
RegistryTyped ==
  /\ RTypeOK
  /\ request \in [Call -> 0..MaxRequests]
  /\ host \subseteq Request

(* The last MaxId numbers that were handed out, counted back from the next *)
(* one, are all different.                                                 *)
Before(i, d) == IF i > d THEN i - d ELSE (i - d) + MaxId

Circle ==
  /\ \A m \in 1..made : made + 1 - m <= MaxId => idOf[m] = Before(next_request_id, made + 1 - m)
  /\ \A m, n \in 1..made : m < n /\ idOf[m] = idOf[n] => n - m >= MaxId

(* An entry is under the number of its request, whose future is there, and *)
(* so is the answer in it.                                                 *)
EntriesAgree ==
  \A i \in Id :
    /\ Has(i) => /\ pending_requests[i].of \in 1..made
                 /\ idOf[pending_requests[i].of] = i
                 /\ \E c \in Call : request[c] = pending_requests[i].of
    /\ Completion(i) # 0 => Completion(i) \in 1..made /\ idOf[Completion(i)] = i

RequestsMade ==
  /\ \A c \in Call : request[c] <= made
  /\ \A n \in host : n <= made

(* The calls: what is registered, queued for its caller, or being polled.  *)
Job == {"drain"} \X {NoHandle} \cup {"repoll"} \X Handle \cup {"complete"} \X Call

CallsTyped ==
  /\ future \in [Call -> {"none", "live", "freed"}]
  /\ handle \in [Call -> Handle \cup {NoHandle}]
  /\ cancelled \in [Call -> BOOLEAN]
  /\ outcome \in [Call -> {"none", "value", "cancelled", "failed"}]
  /\ asked \in [Call -> {"no", "signal", "id"}]
  /\ pendingFutures \in [Handle -> Call \cup {NoCall}]
  /\ listening \subseteq Call
  /\ wokenHandles \subseteq Handle /\ batch \subseteq Handle
  /\ drainScheduled \in BOOLEAN /\ failure \in BOOLEAN
  /\ jobs \in Seq(Job)
  /\ stack \in Seq(Frame)
  /\ spurious \in 0..MaxSpurious

Registered(c) == \E h \in Handle : pendingFutures[h] = c
Queued(c) == \E i \in 1..Len(jobs) : jobs[i] = <<"complete", c>>
Polled(c, from) == \E i \in 1..Len(stack) : stack[i].call = c /\ stack[i].from = from
Refused(c) == \E i \in 1..Len(stack) : stack[i].call = c /\ stack[i].at = "Cancelled"

StackUnique == \A i, j \in 1..Len(stack) : stack[i].call = stack[j].call => i = j
JobsUnique == \A i, j \in 1..Len(jobs) : jobs[i] = jobs[j] /\ jobs[i][1] = "complete" => i = j

HandlesAgree ==
  /\ \A c \in Call : future[c] # "none" => handle[c] \in Handle
  /\ \A c, d \in Call :
       future[c] = "live" /\ future[d] = "live" /\ handle[c] = handle[d] => c = d
  /\ RegisteredIsLive
  /\ \A c \in listening : handle[c] \in Handle /\ pendingFutures[handle[c]] = c
  /\ failure => \A h \in Handle : pendingFutures[h] = NoCall

(* A call is in one place: a first poll, the table, with a later poll or   *)
(* without, or a caller that has yet to take the result.                   *)
PlacesAgree ==
  /\ StackUnique /\ JobsUnique
  /\ \A c \in Call :
       /\ Polled(c, "start") => future[c] = "live" /\ ~Registered(c) /\ ~Queued(c)
       /\ Polled(c, "repoll") => /\ future[c] = "live" /\ ~Queued(c)
                                 /\ failure \/ pendingFutures[handle[c]] = c
       /\ Queued(c) => future[c] = "live" /\ ~Registered(c)

NothingLost ==
  \A c \in Call : future[c] = "live" =>
    failure \/ Polled(c, "start") \/ Polled(c, "repoll") \/ Registered(c) \/ Queued(c)

CancelsAgree ==
  \A c \in Call :
    /\ cancelled[c] => asked[c] # "no"
    /\ Refused(c) => cancelled[c]
    /\ outcome[c] = "cancelled" => asked[c] # "no"

CallsInv ==
  CallsTyped /\ HandlesAgree /\ PlacesAgree /\ NothingLost /\ CancelsAgree

RegistryInv == RegistryTyped /\ Circle /\ EntriesAgree /\ RequestsMade

(* The wakers that requests keep are of calls that have begun.             *)
WakersBegan == \A i \in Id : pending_requests[i].waker # NoWaiter =>
                 future[pending_requests[i].waker] # "none"

WasmInv == RegistryInv /\ CallsInv /\ WakersBegan

-----------------------------------------------------------------------------
(* The steps of the registry.                                              *)

LEMMA Modulus ==
  ASSUME NEW i \in 1..MaxId
  PROVE  (i % MaxId) + 1 = IF i = MaxId THEN 1 ELSE i + 1
<1> USE RegistryAssumption
<1>1. CASE i = MaxId
  <2>1. i % i = 0
    BY SMT
  <2>2. QED
    BY <1>1, <2>1
<1>2. CASE i # MaxId
  <2>1. i \in Nat /\ MaxId \in Nat /\ i < MaxId
    BY <1>2
  <2>2. i % MaxId = i
    BY <2>1, SMT
  <2>3. QED
    BY <1>2, <2>2
<1>3. QED
  BY <1>1, <1>2

Entry == [of : 0..MaxRequests, waker : Waiter \cup {NoWaiter}, completion : 0..MaxRequests]

(* An entry that keeps its request, and its answer unless it gets one.     *)
LEMMA EntriesStand ==
  ASSUME EntriesAgree, UNCHANGED <<made, idOf, request>>, NEW n, n \in 1..made,
         \A j \in Id : /\ Has(j)' => Has(j)
                       /\ pending_requests'[j].of = pending_requests[j].of
                       /\ \/ pending_requests'[j].completion = pending_requests[j].completion
                          \/ pending_requests'[j].completion = n /\ j = idOf[n]
  PROVE  EntriesAgree'
<1> SUFFICES ASSUME NEW j \in Id
             PROVE  /\ Has(j)' => /\ pending_requests'[j].of \in 1..made
                                  /\ idOf[pending_requests'[j].of] = j
                                  /\ \E c \in Call : request[c] = pending_requests'[j].of
                    /\ pending_requests'[j].completion # 0 =>
                         /\ pending_requests'[j].completion \in 1..made
                         /\ idOf[pending_requests'[j].completion] = j
  BY DEF EntriesAgree, Completion, Id
<1>1. /\ Has(j) => /\ pending_requests[j].of \in 1..made
                   /\ idOf[pending_requests[j].of] = j
                   /\ \E c \in Call : request[c] = pending_requests[j].of
      /\ pending_requests[j].completion # 0 =>
           /\ pending_requests[j].completion \in 1..made
           /\ idOf[pending_requests[j].completion] = j
  BY DEF EntriesAgree, Completion
<1>2. QED
  BY <1>1

(* What does not depend on the entries.                                    *)
LEMMA CircleStands ==
  ASSUME UNCHANGED <<next_request_id, made, idOf, request>>, host' \subseteq host
  PROVE  (Circle => Circle') /\ (RequestsMade => RequestsMade')
  BY DEF Circle, Before, RequestsMade

LEMMA RegistryStutters ==
  ASSUME RegistryInv, UNCHANGED <<registryVars, request>>, host' \subseteq host
  PROVE  RegistryInv'
  BY DEF RegistryInv, RegistryTyped, RTypeOK, Circle, Before, EntriesAgree, RequestsMade, registryVars, Has,
         Completion

LEMMA RegistryAllocates ==
  ASSUME RegistryInv, NEW c \in Call, request[c] = 0, NEW b \in BOOLEAN, Allocate(b),
         request' = [request EXCEPT ![c] = made'], host' \subseteq host \cup {made'}
  PROVE  RegistryInv'
<1> USE RegistryAssumption DEF RegistryInv, RegistryTyped, RTypeOK, Id, Request
<1>1. /\ made \in Nat /\ made' = made + 1 /\ made' \in 1..MaxRequests
      /\ next_request_id \in 1..MaxId /\ MaxId \in Nat \ {0}
      /\ next_request_id' = IF next_request_id = MaxId THEN 1 ELSE next_request_id + 1
      /\ idOf' = [idOf EXCEPT ![made'] = next_request_id]
  BY Modulus DEF Allocate
<1>2. \E e \in [of : {made'}, waker : {NoWaiter}, completion : {0, made'}] :
        pending_requests' = [pending_requests EXCEPT ![next_request_id] = e]
  BY DEF Allocate, Put
<1>3. RegistryTyped'
  <2>1. pending_requests' \in [Id -> Entry]
    <3>1. PICK e \in [of : {made'}, waker : {NoWaiter}, completion : {0, made'}] :
                 pending_requests' = [pending_requests EXCEPT ![next_request_id] = e]
      BY <1>2
    <3>2. e \in Entry
      BY <1>1 DEF Entry
    <3>3. QED
      BY <3>1, <3>2 DEF Entry
  <2>2. made' \in 0..MaxRequests /\ idOf' \in [Request -> Id] /\ next_request_id' \in Id
    BY <1>1
  <2>3. request' \in [Call -> 0..MaxRequests] /\ host' \subseteq Request
    BY <1>1
  <2>4. QED
    BY <2>1, <2>2, <2>3 DEF Entry
<1>4. Circle'
  <2>1. \A m \in 1..made : idOf'[m] = idOf[m]
    BY <1>1
  <2>2. idOf'[made'] = next_request_id
    BY <1>1
  <2>3. ASSUME NEW m \in 1..made', made' + 1 - m <= MaxId
        PROVE  idOf'[m] = Before(next_request_id', made' + 1 - m)
    <3>1. CASE m = made'
      BY <1>1, <2>2, <3>1 DEF Before
    <3>2. CASE m # made'
      <4>1. m \in 1..made /\ made + 1 - m <= MaxId /\ made' + 1 - m = (made + 1 - m) + 1
        BY <1>1, <2>3, <3>2
      <4>2. idOf[m] = Before(next_request_id, made + 1 - m)
        BY <4>1 DEF Circle
      <4>3. idOf'[m] = Before(next_request_id, made + 1 - m)
        BY <2>1, <4>1, <4>2
      <4>4. made + 1 - m \in 1..MaxId /\ m \in Nat /\ made + 1 - m < MaxId
        BY <1>1, <2>3, <4>1
      <4>5. Before(next_request_id', (made + 1 - m) + 1) = Before(next_request_id, made + 1 - m)
        BY <1>1, <4>4 DEF Before
      <4>6. QED
        BY <4>1, <4>3, <4>5
    <3>3. QED
      BY <3>1, <3>2
  <2>4. ASSUME NEW m \in 1..made', NEW n \in 1..made', m < n, idOf'[m] = idOf'[n]
        PROVE  n - m >= MaxId
    <3>1. CASE n = made'
      <4>1. m \in 1..made /\ idOf[m] = next_request_id
        BY <1>1, <2>1, <2>2, <2>4, <3>1
      <4>2. made + 1 - m <= MaxId => idOf[m] = Before(next_request_id, made + 1 - m)
        BY <4>1 DEF Circle
      <4>3. QED
        BY <1>1, <3>1, <4>1, <4>2 DEF Before
    <3>2. CASE n # made'
      BY <1>1, <2>1, <2>4, <3>2 DEF Circle
    <3>3. QED
      BY <3>1, <3>2
  <2>5. QED
    BY <2>3, <2>4 DEF Circle
<1>5. EntriesAgree'
  <2>1. \A m \in 1..made : idOf'[m] = idOf[m]
    BY <1>1
  <2>2. idOf'[made'] = next_request_id /\ 1..made \subseteq 1..made' /\ made' \in 1..made'
    BY <1>1
  <2>3. \A d \in Call : request[d] # 0 => request'[d] = request[d]
    OBVIOUS
  <2>4. request'[c] = made'
    OBVIOUS
  <2>5. ASSUME NEW i \in Id, i # next_request_id
        PROVE  /\ Has(i)' => /\ pending_requests'[i].of \in 1..made'
                             /\ idOf'[pending_requests'[i].of] = i
                             /\ \E d \in Call : request'[d] = pending_requests'[i].of
               /\ Completion(i)' # 0 => Completion(i)' \in 1..made' /\ idOf'[Completion(i)'] = i
    <3>1. pending_requests'[i] = pending_requests[i]
      BY <1>2, <2>5
    <3>2. Has(i) => /\ pending_requests[i].of \in 1..made
                    /\ idOf[pending_requests[i].of] = i
                    /\ \E d \in Call : request[d] = pending_requests[i].of
      BY DEF EntriesAgree
    <3>3. pending_requests[i].completion # 0 =>
            pending_requests[i].completion \in 1..made /\ idOf[pending_requests[i].completion] = i
      BY DEF EntriesAgree, Completion
    <3>4. QED
      BY <2>1, <2>2, <2>3, <3>1, <3>2, <3>3 DEF Has, Completion
  <2>6. /\ pending_requests'[next_request_id].of = made'
        /\ pending_requests'[next_request_id].completion \in {0, made'}
    BY <1>1, <1>2
  <2>7. QED
    BY <2>2, <2>4, <2>5, <2>6 DEF EntriesAgree, Completion
<1>6. RequestsMade'
  <2>1. \A d \in Call : request'[d] = IF d = c THEN made' ELSE request[d]
    OBVIOUS
  <2>2. \A d \in Call : request[d] <= made /\ request[d] \in Nat
    BY DEF RequestsMade
  <2>3. \A n \in host : n <= made /\ n \in Nat
    BY DEF RequestsMade
  <2>4. \A d \in Call : request'[d] <= made'
    BY <1>1, <2>1, <2>2
  <2>5. \A n \in host' : n <= made'
    BY <1>1, <2>3
  <2>6. QED
    BY <2>4, <2>5 DEF RequestsMade
<1>7. QED
  BY <1>3, <1>4, <1>5, <1>6

(* The future of c gives its request up, by taking the answer or by being  *)
(* dropped.                                                                *)
LEMMA RegistryRemoves ==
  ASSUME RegistryInv, NEW c \in Call, request' = [request EXCEPT ![c] = 0], host' = host,
         IF request[c] # 0 THEN Remove(idOf[request[c]]) ELSE UNCHANGED registryVars
  PROVE  RegistryInv'
<1> USE RegistryAssumption DEF RegistryInv, RegistryTyped, RTypeOK, Id, Request
<1>1. CASE request[c] = 0
  BY <1>1, RegistryStutters
<1>2. CASE request[c] # 0
  <2>1. /\ UNCHANGED <<next_request_id, made, idOf>>
        /\ pending_requests' = [pending_requests EXCEPT ![idOf[request[c]]] = NoRequest]
        /\ idOf[request[c]] \in Id
    BY <1>2 DEF Remove, Put
  <2>2. RegistryTyped' /\ Circle' /\ RequestsMade'
    <3>1. NoRequest \in Entry
      BY DEF NoRequest, Entry
    <3>2. pending_requests' \in [Id -> Entry]
      BY <2>1, <3>1 DEF Entry
    <3>5. RegistryTyped'
      <4>1. request' \in [Call -> 0..MaxRequests]
        OBVIOUS
      <4>2. RTypeOK'
        BY <2>1, <3>2 DEF Entry
      <4>3. QED
        BY <4>1, <4>2
    <3>3. RequestsMade'
      BY <2>1 DEF RequestsMade
    <3>4. QED
      BY <2>1, <3>5, <3>3 DEF Circle, Before
  <2>3. ASSUME NEW i \in Id, i # idOf[request[c]], Has(i)
        PROVE  \E d \in Call : request'[d] = pending_requests[i].of
    BY <2>3 DEF EntriesAgree
  <2>4. ASSUME NEW i \in Id
        PROVE  /\ Has(i)' => /\ pending_requests'[i].of \in 1..made'
                             /\ idOf'[pending_requests'[i].of] = i
                             /\ \E d \in Call : request'[d] = pending_requests'[i].of
               /\ Completion(i)' # 0 => Completion(i)' \in 1..made' /\ idOf'[Completion(i)'] = i
    <3>1. CASE i = idOf[request[c]]
      <4>1. pending_requests'[i] = NoRequest
        BY <2>1, <3>1
      <4>2. QED
        BY <4>1 DEF Has, Completion, NoRequest
    <3>2. CASE i # idOf[request[c]]
      <4>1. pending_requests'[i] = pending_requests[i]
        BY <2>1, <3>2
      <4>2. Has(i)' <=> Has(i)
        BY <4>1 DEF Has, NoRequest
      <4>3. /\ Has(i) => pending_requests[i].of \in 1..made /\ idOf[pending_requests[i].of] = i
            /\ Completion(i) # 0 => Completion(i) \in 1..made /\ idOf[Completion(i)] = i
        BY DEF EntriesAgree
      <4>4. QED
        BY <2>1, <2>3, <3>2, <4>1, <4>2, <4>3 DEF Completion
    <3>3. QED
      BY <3>1, <3>2
  <2>6. EntriesAgree'
    BY <2>4 DEF EntriesAgree, Id
  <2>5. QED
    BY <2>2, <2>6
<1>3. QED
  BY <1>1, <1>2

LEMMA RegistrySetsWaker ==
  ASSUME RegistryInv, NEW i \in Id, NEW c \in Call, SetWaker(i, c), UNCHANGED <<request, host>>
  PROVE  RegistryInv'
<1> USE RegistryAssumption DEF RegistryInv, RegistryTyped, RTypeOK, Id, Request, Call
<1> DEFINE e == [pending_requests[i] EXCEPT !.waker = c]
<1>0. /\ e \in Entry /\ pending_requests[i] \in Entry
      /\ e.of = pending_requests[i].of /\ e.completion = pending_requests[i].completion
      /\ UNCHANGED <<next_request_id, made, idOf>>
      /\ \/ Has(i) /\ pending_requests' = [pending_requests EXCEPT ![i] = e]
         \/ pending_requests' = pending_requests
  BY DEF SetWaker, Put, Entry
<1> HIDE DEF e
<1>1. RegistryTyped' /\ Circle' /\ RequestsMade'
  <2>1. pending_requests' \in [Id -> Entry]
    BY <1>0 DEF Entry
  <2>2. QED
    BY <1>0, <2>1, CircleStands DEF Entry
<1>2. \A j \in Id : /\ Has(j)' => Has(j)
                    /\ pending_requests'[j].of = pending_requests[j].of
                    /\ pending_requests'[j].completion = pending_requests[j].completion
  BY <1>0 DEF Has
<1>3. EntriesAgree'
  <2>1. CASE made = 0
    BY <1>0, <1>2, <2>1 DEF EntriesAgree, Completion
  <2>2. CASE made # 0
    <3>1. made \in 1..made
      BY <2>2
    <3>2. \A j \in Id : \/ pending_requests'[j].completion = pending_requests[j].completion
                        \/ pending_requests'[j].completion = made /\ j = idOf[made]
      BY <1>2
    <3>3. QED
      BY <1>0, <1>2, <3>1, <3>2, EntriesStand
  <2>3. QED
    BY <2>1, <2>2
<1>4. QED
  BY <1>1, <1>3

LEMMA RegistryCompletes ==
  ASSUME RegistryInv, NEW n \in host, Complete(idOf[n], n), host' \subseteq host, request' = request
  PROVE  RegistryInv'
<1> USE RegistryAssumption DEF RegistryInv, RegistryTyped, RTypeOK, Id, Request
<1>1. n \in 1..made /\ idOf[n] \in Id
  BY DEF RequestsMade
<1> DEFINE e == [pending_requests[idOf[n]] EXCEPT !.completion = n, !.waker = NoWaiter]
<1>3. /\ e \in Entry
      /\ e.of = pending_requests[idOf[n]].of /\ e.completion = n
  <2>1. pending_requests[idOf[n]] \in Entry /\ n \in 0..MaxRequests
    BY <1>1 DEF Entry
  <2>2. QED
    BY <2>1 DEF Entry
<1>0. /\ UNCHANGED <<next_request_id, made, idOf>>
      /\ \/ Has(idOf[n]) /\ pending_requests' = [pending_requests EXCEPT ![idOf[n]] = e]
         \/ pending_requests' = pending_requests
  BY DEF Complete, Put, Accepts
<1> HIDE DEF e
<1>2. RegistryTyped' /\ Circle' /\ RequestsMade'
  <2>1. pending_requests' \in [Id -> Entry]
    BY <1>0, <1>1, <1>3 DEF Entry
  <2>2. QED
    BY <1>0, <2>1, CircleStands DEF Entry
<1>5. \A j \in Id : /\ Has(j)' => Has(j)
                    /\ pending_requests'[j].of = pending_requests[j].of
                    /\ \/ pending_requests'[j].completion = pending_requests[j].completion
                       \/ pending_requests'[j].completion = n /\ j = idOf[n]
  BY <1>0, <1>1, <1>3 DEF Has
<1>4. EntriesAgree'
  BY <1>0, <1>1, <1>5, EntriesStand
<1>6. QED
  BY <1>2, <1>4

-----------------------------------------------------------------------------
(* The stack and the queue of jobs, as the calls see them.                 *)

LEMMA Pushed ==
  ASSUME stack \in Seq(Frame), StackUnique, NEW c \in Call, NEW from \in {"start", "repoll"},
         cancelled[c] \in BOOLEAN, ~Polled(c, "start"), ~Polled(c, "repoll"), Poll(c, from)
  PROVE  /\ stack' \in Seq(Frame) /\ StackUnique'
         /\ \A d \in Call, f \in {"start", "repoll"} :
              Polled(d, f)' <=> Polled(d, f) \/ (d = c /\ f = from)
         /\ \A d \in Call : Refused(d)' => Refused(d) \/ (d = c /\ cancelled[c])
<1> DEFINE n == Len(stack)
<1>1. PICK new \in Frame : /\ stack' = Append(stack, new)
                           /\ new.call = c /\ new.from = from
                           /\ new.at = "Cancelled" => cancelled[c]
  <2> DEFINE new == [call |-> c, from |-> from, called |-> FALSE,
                     at |-> IF cancelled[c] THEN "Cancelled" ELSE "rust"]
  <2>1. new \in Frame /\ new.call = c /\ new.from = from /\ (new.at = "Cancelled" => cancelled[c])
    BY DEF Frame
  <2>2. stack' = Append(stack, new)
    BY DEF Poll
  <2> HIDE DEF new
  <2>3. QED
    BY <2>1, <2>2
<1>2. /\ stack' \in Seq(Frame) /\ n \in Nat /\ Len(stack') = n + 1
      /\ \A i \in 1..n : stack'[i] = stack[i] /\ stack[i] \in Frame
      /\ stack'[n + 1] = new
  BY <1>1
<1>3. \A i \in 1..n : stack[i].call # c
  BY <1>2 DEF Polled, Frame
<1> HIDE DEF n
<1>4. StackUnique'
  BY <1>1, <1>2, <1>3 DEF StackUnique, n
<1>5. \A d \in Call, f \in {"start", "repoll"} :
        Polled(d, f)' <=> Polled(d, f) \/ (d = c /\ f = from)
  BY <1>1, <1>2 DEF Polled, n
<1>6. \A d \in Call : Refused(d)' => Refused(d) \/ (d = c /\ cancelled[c])
  BY <1>1, <1>2 DEF Refused, n
<1>7. QED
  BY <1>2, <1>4, <1>5, <1>6

LEMMA Popped ==
  ASSUME stack \in Seq(Frame), StackUnique, stack # <<>>, Pop
  PROVE  /\ stack' \in Seq(Frame) /\ StackUnique'
         /\ Top.call \in Call /\ Polled(Top.call, Top.from)
         /\ Top.at = "Cancelled" => Refused(Top.call)
         /\ \A d \in Call, f \in {"start", "repoll"} :
              Polled(d, f)' <=> Polled(d, f) /\ d # Top.call
         /\ \A d \in Call : Refused(d)' => Refused(d)
<1> DEFINE n == Len(stack)
<1>1. /\ n \in Nat /\ n # 0 /\ Len(stack') = n - 1 /\ stack' \in Seq(Frame)
      /\ \A i \in 1..(n - 1) : stack'[i] = stack[i]
      /\ Top = stack[n] /\ Top \in Frame
  <2>1. n \in Nat /\ n # 0 /\ \A i \in 1..n : stack[i] \in Frame
    OBVIOUS
  <2>2. \A i \in 1..(n - 1) : stack[i] \in Frame
    BY <2>1
  <2>3. stack' = SubSeq(stack, 1, n - 1)
    BY DEF Pop
  <2> HIDE DEF n
  <2>4. /\ SubSeq(stack, 1, n - 1) \in Seq(Frame)
        /\ Len(SubSeq(stack, 1, n - 1)) = IF 1 <= n - 1 THEN n - 1 ELSE 0
        /\ \A i \in 1..(n - 1) : SubSeq(stack, 1, n - 1)[i] = stack[i]
    BY <2>1, <2>2, SubSeqProperties
  <2>5. Top = stack[n]
    BY DEF Top, n
  <2>6. QED
    BY <2>1, <2>3, <2>4, <2>5
<1> HIDE DEF n
<1>2. \A i \in 1..(n - 1) : stack[i].call # Top.call
  BY <1>1 DEF StackUnique, n
<1>3. StackUnique'
  BY <1>1 DEF StackUnique, n
<1>4. \A d \in Call, f \in {"start", "repoll"} :
        Polled(d, f)' <=> Polled(d, f) /\ d # Top.call
  BY <1>1, <1>2 DEF Polled, n
<1>5. \A d \in Call : Refused(d)' => Refused(d)
  BY <1>1 DEF Refused, n
<1>6. Top.call \in Call /\ Polled(Top.call, Top.from) /\ (Top.at = "Cancelled" => Refused(Top.call))
  BY <1>1 DEF Polled, Refused, Frame, n
<1>7. QED
  BY <1>1, <1>3, <1>4, <1>5, <1>6

LEMMA Moved ==
  ASSUME stack \in Seq(Frame), StackUnique, stack # <<>>,
         NEW l \in {"rust", "host", "Pending", "Ready"}, NEW b \in BOOLEAN,
         stack' = [stack EXCEPT ![Len(stack)] = [Top EXCEPT !.at = l, !.called = b]]
  PROVE  /\ stack' \in Seq(Frame) /\ StackUnique'
         /\ \A d \in Call, f \in {"start", "repoll"} : Polled(d, f)' <=> Polled(d, f)
         /\ \A d \in Call : Refused(d)' => Refused(d)
<1> DEFINE n == Len(stack)
           new == [Top EXCEPT !.at = l, !.called = b]
<1>1. n \in Nat /\ n # 0 /\ Top = stack[n] /\ Top \in Frame
  BY DEF Top
<1>2. new \in Frame /\ new.call = Top.call /\ new.from = Top.from /\ new.at = l
  BY <1>1 DEF Frame
<1> HIDE DEF new
<1>3. /\ stack' \in Seq(Frame) /\ Len(stack') = n
      /\ \A i \in 1..n : stack'[i] = IF i = n THEN new ELSE stack[i]
  BY <1>1, <1>2 DEF new
<1> HIDE DEF n
<1>4. \A i \in 1..n : stack'[i].call = stack[i].call /\ stack'[i].from = stack[i].from
  BY <1>1, <1>2, <1>3
<1>5. QED
  BY <1>1, <1>2, <1>3, <1>4 DEF StackUnique, Polled, Refused, n

LEMMA Appended ==
  ASSUME jobs \in Seq(Job), JobsUnique, NEW x \in Job, jobs' = Append(jobs, x),
         \A c \in Call : x = <<"complete", c>> => ~Queued(c)
  PROVE  /\ jobs' \in Seq(Job) /\ JobsUnique'
         /\ \A c \in Call : Queued(c)' <=> Queued(c) \/ x = <<"complete", c>>
<1> DEFINE n == Len(jobs)
<1>1. /\ jobs' \in Seq(Job) /\ n \in Nat /\ Len(jobs') = n + 1
      /\ \A i \in 1..n : jobs'[i] = jobs[i] /\ jobs[i] \in Job
      /\ jobs'[n + 1] = x
  OBVIOUS
<1>2. \A i \in 1..n : x[1] = "complete" => jobs[i] # x
  BY <1>1 DEF Job, Queued
<1> HIDE DEF n
<1>3. JobsUnique'
  BY <1>1, <1>2 DEF JobsUnique, n
<1>4. ASSUME NEW c \in Call
      PROVE  Queued(c)' <=> Queued(c) \/ x = <<"complete", c>>
  <2>1. Queued(c) <=> \E i \in 1..n : jobs[i] = <<"complete", c>>
    BY DEF Queued, n
  <2>2. Queued(c)' <=> \E i \in 1..(n + 1) : jobs'[i] = <<"complete", c>>
    BY <1>1 DEF Queued
  <2>3. \A i \in 1..(n + 1) : i \in 1..n \/ i = n + 1
    BY <1>1
  <2>4. n + 1 \in 1..(n + 1) /\ 1..n \subseteq 1..(n + 1)
    BY <1>1
  <2>5. QED
    BY <1>1, <2>1, <2>2, <2>3, <2>4
<1>5. QED
  BY <1>1, <1>3, <1>4

LEMMA Taken ==
  ASSUME jobs \in Seq(Job), JobsUnique, jobs # <<>>, jobs' = Tail(jobs)
  PROVE  /\ jobs' \in Seq(Job) /\ JobsUnique' /\ Head(jobs) \in Job
         /\ \A c \in Call : Head(jobs) = <<"complete", c>> => Queued(c)
         /\ \A c \in Call : Queued(c)' <=> Queued(c) /\ Head(jobs) # <<"complete", c>>
<1> DEFINE n == Len(jobs)
<1>1. /\ jobs' \in Seq(Job) /\ n \in Nat /\ n # 0 /\ Len(jobs') = n - 1
      /\ \A i \in 1..(n - 1) : jobs'[i] = jobs[i + 1]
      /\ Head(jobs) = jobs[1] /\ Head(jobs) \in Job
  OBVIOUS
<1>3. \A c \in Call : Head(jobs) = <<"complete", c>> => Queued(c)
  BY <1>1 DEF Queued
<1> HIDE DEF n
<1>2. JobsUnique'
  BY <1>1 DEF JobsUnique, n
<1>4. ASSUME NEW c \in Call
      PROVE  Queued(c)' <=> Queued(c) /\ Head(jobs) # <<"complete", c>>
  <2>1. ASSUME NEW i \in 1..(n - 1), jobs'[i] = <<"complete", c>>
        PROVE  Queued(c) /\ Head(jobs) # <<"complete", c>>
    <3>1. i + 1 \in 1..n /\ 1 \in 1..n /\ i + 1 # 1 /\ jobs[i + 1] = <<"complete", c>>
      BY <1>1, <2>1
    <3>2. jobs[i + 1][1] = "complete"
      BY <3>1
    <3>3. QED
      BY <1>1, <3>1, <3>2 DEF Queued, JobsUnique, n
  <2>2. ASSUME NEW i \in 1..n, jobs[i] = <<"complete", c>>, Head(jobs) # <<"complete", c>>
        PROVE  Queued(c)'
    <3>1. i # 1 /\ i - 1 \in 1..(n - 1) /\ jobs'[i - 1] = jobs[i]
      BY <1>1, <2>2
    <3>2. QED
      BY <1>1, <2>2, <3>1 DEF Queued
  <2>3. QED
    BY <1>1, <2>1, <2>2 DEF Queued, n
<1>5. QED
  BY <1>1, <1>2, <1>3, <1>4

LEMMA SameStack ==
  ASSUME UNCHANGED stack
  PROVE  /\ StackUnique' <=> StackUnique
         /\ \A d \in Call, f \in {"start", "repoll"} : Polled(d, f)' <=> Polled(d, f)
         /\ \A d \in Call : Refused(d)' <=> Refused(d)
  BY DEF StackUnique, Polled, Refused

LEMMA SameJobs ==
  ASSUME UNCHANGED jobs
  PROVE  /\ JobsUnique' <=> JobsUnique
         /\ \A d \in Call : Queued(d)' <=> Queued(d)
  BY DEF JobsUnique, Queued

-----------------------------------------------------------------------------
(* The steps of the calls.                                                 *)

(* Only the stack changes, and no call comes or goes on it.                *)
LEMMA StackSteps ==
  ASSUME CallsInv, UNCHANGED <<future, handle, cancelled, outcome, asked, managerVars, spurious>>,
         stack' \in Seq(Frame), StackUnique',
         \A d \in Call, f \in {"start", "repoll"} : Polled(d, f)' <=> Polled(d, f),
         \A d \in Call : Refused(d)' => Refused(d)
  PROVE  CallsInv'
<1> USE DEF CallsInv, CallsTyped, HandlesAgree, RegisteredIsLive, PlacesAgree, NothingLost, CancelsAgree,
      Registered, managerVars
<1>0. (JobsUnique' <=> JobsUnique) /\ \A d \in Call : Queued(d)' <=> Queued(d)
  BY SameJobs
<1>1. CallsTyped'
  BY <1>0
<1>2. HandlesAgree'
  BY <1>0
<1>3. PlacesAgree'
  BY <1>0
<1>4. NothingLost'
  BY <1>0
<1>5. CancelsAgree'
  BY <1>0
<1>6. QED
  BY <1>1, <1>2, <1>3, <1>4, <1>5

LEMMA CallsStutter ==
  ASSUME CallsInv,
         UNCHANGED <<future, handle, cancelled, outcome, asked, managerVars, spurious, stack>>
  PROVE  CallsInv'
  BY StackSteps, SameStack DEF CallsInv, CallsTyped, PlacesAgree

(* Wakes and cancels: a job may be queued, but no caller is to go on.      *)
LEMMA JobsStep ==
  ASSUME CallsInv, UNCHANGED <<future, handle, outcome, pendingFutures, listening, batch, failure, stack>>,
         \/ jobs' = jobs
         \/ \E x \in Job : x[1] # "complete" /\ jobs' = Append(jobs, x),
         cancelled' \in [Call -> BOOLEAN], asked' \in [Call -> {"no", "signal", "id"}],
         \A d \in Call : /\ cancelled[d] => cancelled'[d]
                         /\ cancelled'[d] => cancelled[d] \/ asked'[d] # "no"
                         /\ asked[d] # "no" => asked'[d] # "no",
         wokenHandles' \subseteq Handle, drainScheduled' \in BOOLEAN, spurious' \in 0..MaxSpurious
  PROVE  CallsInv'
<1> USE DEF CallsInv, CallsTyped, HandlesAgree, RegisteredIsLive, PlacesAgree, NothingLost, CancelsAgree,
      Registered
<1>0. /\ jobs' \in Seq(Job) /\ JobsUnique'
      /\ \A d \in Call : Queued(d)' <=> Queued(d)
  <2>1. CASE jobs' = jobs
    BY <2>1, SameJobs
  <2>2. ASSUME NEW x \in Job, x[1] # "complete", jobs' = Append(jobs, x)
        PROVE  /\ jobs' \in Seq(Job) /\ JobsUnique'
               /\ \A d \in Call : Queued(d)' <=> Queued(d)
    <3>1. \A d \in Call : x # <<"complete", d>>
      BY <2>2
    <3>2. QED
      BY <2>2, <3>1, Appended
  <2>3. QED
    BY <2>1, <2>2
<1>7. /\ StackUnique' <=> StackUnique
      /\ \A d \in Call, f \in {"start", "repoll"} : Polled(d, f)' <=> Polled(d, f)
      /\ \A d \in Call : Refused(d)' <=> Refused(d)
  BY SameStack
<1>1. CallsTyped'
  BY <1>0, <1>7
<1>2. HandlesAgree'
  BY <1>0, <1>7
<1>3. PlacesAgree'
  BY <1>0, <1>7
<1>4. NothingLost'
  BY <1>0, <1>7
<1>5. CancelsAgree'
  BY <1>0, <1>7
<1>6. QED
  BY <1>1, <1>2, <1>3, <1>4, <1>5

LEMMA StartStep ==
  ASSUME CallsInv, NEW c \in Call, NEW h \in Handle, Start(c, h)
  PROVE  CallsInv'
<1> USE RegistryAssumption, WasmAssumption
    DEF CallsInv, CallsTyped, HandlesAgree, RegisteredIsLive, PlacesAgree, NothingLost, CancelsAgree,
      Registered, managerVars
<1>0. /\ (JobsUnique' <=> JobsUnique) /\ \A d \in Call : Queued(d)' <=> Queued(d)
      /\ UNCHANGED <<cancelled, asked, managerVars, spurious>>
      /\ future[c] = "none" /\ future' = [future EXCEPT ![c] = "live"]
      /\ handle' = [handle EXCEPT ![c] = h]
      /\ \A d \in Call : future[d] = "live" => handle[d] # h
  BY SameJobs DEF Start
<1>8. ~Polled(c, "start") /\ ~Polled(c, "repoll") /\ ~Queued(c) /\ ~Registered(c) /\ c \notin listening
  <2>1. c # NoCall
    BY DEF Call, NoCall
  <2>2. \A k \in Handle : pendingFutures[k] # c
    BY <1>0, <2>1
  <2>3. QED
    BY <1>0, <2>2
<1>7. /\ stack' \in Seq(Frame) /\ StackUnique'
      /\ \A d \in Call : Polled(d, "start")' <=> Polled(d, "start") \/ (d = c /\ ~failure)
      /\ \A d \in Call : Polled(d, "repoll")' <=> Polled(d, "repoll")
      /\ \A d \in Call : Refused(d)' => Refused(d) \/ cancelled[d]
      /\ outcome' = outcome \/ outcome' = [outcome EXCEPT ![c] = "failed"]
  <2>1. CASE failure
    BY <2>1, SameStack DEF Start
  <2>2. CASE ~failure
    BY <1>8, <2>2, Pushed DEF Start
  <2>3. QED
    BY <2>1, <2>2
<1>1. CallsTyped'
  BY <1>0, <1>8, <1>7
<1>2. HandlesAgree'
  BY <1>0, <1>8, <1>7
<1>3. PlacesAgree'
  BY <1>0, <1>8, <1>7
<1>4. NothingLost'
  BY <1>0, <1>8, <1>7
<1>5. CancelsAgree'
  BY <1>0, <1>8, <1>7
<1>6. QED
  BY <1>1, <1>2, <1>3, <1>4, <1>5

LEMMA AbortStep ==
  ASSUME CallsInv, NEW c \in Call, Abort(c)
  PROVE  CallsInv'
<1>1. c \in listening => handle[c] \in Handle /\ pendingFutures[handle[c]] = c /\ c # NoCall
  BY RegistryAssumption DEF CallsInv, HandlesAgree, Call, NoCall
<1>2. \/ jobs' = jobs
      \/ \E x \in Job : x[1] # "complete" /\ jobs' = Append(jobs, x)
  BY <1>1 DEF Abort, CancelHandle, Job
<1>3. asked' \in [Call -> {"no", "signal", "id"}] /\ cancelled' \in [Call -> BOOLEAN]
  BY <1>1 DEF Abort, CancelHandle, CallsInv, CallsTyped
<1>4. \A d \in Call : /\ cancelled[d] => cancelled'[d]
                      /\ cancelled'[d] => cancelled[d] \/ asked'[d] # "no"
                      /\ asked[d] # "no" => asked'[d] # "no"
  BY <1>1 DEF Abort, CancelHandle, CallsInv, CallsTyped
<1>5. QED
  BY <1>2, <1>3, <1>4, JobsStep DEF Abort, CallsInv, CallsTyped

LEMMA WakeStep ==
  ASSUME CallsInv, NEW c \in Call \cup {NoCall}, c # NoCall => future[c] # "none", wake(c),
         UNCHANGED <<future, handle, cancelled, outcome, asked, pendingFutures, listening, batch,
                     failure, stack>>,
         spurious' \in 0..MaxSpurious
  PROVE  CallsInv'
<1>1. c # NoCall => handle[c] \in Handle
  BY DEF CallsInv, HandlesAgree
<1>2. /\ wokenHandles' \subseteq Handle /\ drainScheduled' \in BOOLEAN
      /\ \/ jobs' = jobs
         \/ jobs' = Append(jobs, <<"drain", NoHandle>>)
  BY <1>1 DEF wake, WakeLeavingJobs, CallsInv, CallsTyped
<1>3. <<"drain", NoHandle>> \in Job /\ <<"drain", NoHandle>>[1] # "complete"
  BY DEF Job
<1>4. QED
  BY <1>2, <1>3, JobsStep DEF CallsInv, CallsTyped

LEMMA TrapStep ==
  ASSUME CallsInv, NEW c \in Call, RustTraps(c)
  PROVE  CallsInv'
<1> USE RegistryAssumption, WasmAssumption
    DEF CallsInv, CallsTyped, HandlesAgree, RegisteredIsLive, PlacesAgree, NothingLost, CancelsAgree,
      Registered
<1>0. /\ (JobsUnique' <=> JobsUnique) /\ \A d \in Call : Queued(d)' <=> Queued(d)
      /\ UNCHANGED <<future, handle, cancelled, asked, drainScheduled, batch, jobs, spurious>>
      /\ failure' = TRUE /\ listening' = {} /\ wokenHandles' = {}
      /\ \A h \in Handle : pendingFutures'[h] = NoCall
      /\ pendingFutures' \in [Handle -> Call \cup {NoCall}]
      /\ outcome' \in [Call -> {"none", "value", "cancelled", "failed"}]
      /\ \A d \in Call : outcome'[d] \in {outcome[d], "failed"}
  BY SameJobs DEF RustTraps
<1>7. /\ stack' \in Seq(Frame) /\ StackUnique'
      /\ \A d \in Call, f \in {"start", "repoll"} : Polled(d, f)' => Polled(d, f)
      /\ \A d \in Call : Refused(d)' => Refused(d)
  BY Popped DEF RustTraps, InRust, TopAt
<1>8. \A d \in Call : ~Registered(d)'
  BY <1>0 DEF Call, NoCall
<1>1. CallsTyped'
  BY <1>0, <1>7
<1>2. HandlesAgree'
  BY <1>0, <1>7
<1>3. PlacesAgree'
  BY <1>0, <1>7, <1>8
<1>4. NothingLost'
  BY <1>0, <1>7
<1>5. CancelsAgree'
  BY <1>0, <1>7
<1>6. QED
  BY <1>1, <1>2, <1>3, <1>4, <1>5

LEMMA MoveStep ==
  ASSUME CallsInv, NEW c \in Call, RustCallsHost(c) \/ HostReturns \/ RustFinishes(c) \/ RustWaits(c)
  PROVE  CallsInv'
<1>1. UNCHANGED <<future, handle, cancelled, outcome, asked, managerVars, spurious>>
  BY DEF RustCallsHost, HostReturns, RustFinishes, RustWaits, callVars
<1>2. CASE stack' = stack
  BY <1>1, <1>2, CallsStutter
<1>3. CASE stack' # stack
  <2>1. stack # <<>>
    BY DEF RustCallsHost, HostReturns, RustFinishes, RustWaits, InRust, TopAt
  <2>2. Top \in Frame
    BY <2>1 DEF Top, CallsInv, CallsTyped
  <2>3. Top.called \in BOOLEAN /\ \A l : [Top EXCEPT !.at = l, !.called = Top.called] = [Top EXCEPT !.at = l]
    BY <2>2 DEF Frame
  <2>4. \E l \in {"rust", "host", "Pending", "Ready"}, b \in BOOLEAN :
          stack' = [stack EXCEPT ![Len(stack)] = [Top EXCEPT !.at = l, !.called = b]]
    <3>1. CASE RustCallsHost(c)
      BY <3>1, <2>3 DEF RustCallsHost, Top
    <3>2. CASE HostReturns
      BY <3>2, <2>3 DEF HostReturns, MoveTop, Top
    <3>3. CASE RustFinishes(c)
      BY <3>3, <2>3 DEF RustFinishes, MoveTop, Top
    <3>4. CASE RustWaits(c)
      BY <3>4, <2>3, <1>3 DEF RustWaits, MoveTop, Top
    <3>5. QED
      BY <3>1, <3>2, <3>3, <3>4
  <2>5. QED
    BY <1>1, <2>1, <2>4, Moved, StackSteps DEF CallsInv, CallsTyped, PlacesAgree
<1>4. QED
  BY <1>2, <1>3

(* What the end of a call does to the calls, once its poll is off the      *)
(* stack.                                                                  *)
LEMMA StartReturnsStep ==
  ASSUME CallsInv, NEW c \in Call, StartReturns(c)
  PROVE  CallsInv'
<1> USE RegistryAssumption, WasmAssumption
    DEF CallsInv, CallsTyped, HandlesAgree, RegisteredIsLive, PlacesAgree, NothingLost, CancelsAgree,
      Registered
<1>0. /\ stack' \in Seq(Frame) /\ StackUnique'
      /\ \A d \in Call, f \in {"start", "repoll"} : Polled(d, f)' <=> Polled(d, f) /\ d # c
      /\ \A d \in Call : Refused(d)' => Refused(d)
      /\ Polled(c, "start")
      /\ UNCHANGED <<handle, asked, wokenHandles, drainScheduled, batch, failure, spurious>>
  BY Popped DEF StartReturns
<1>8. c # NoCall /\ ~Registered(c) /\ ~Queued(c) /\ future[c] = "live" /\ handle[c] \in Handle
  BY <1>0 DEF Call, NoCall
<1>9. CASE /\ failure /\ outcome' = [outcome EXCEPT ![c] = "failed"]
           /\ UNCHANGED <<future, cancelled, jobs, pendingFutures, listening>>
  <2>0. (JobsUnique' <=> JobsUnique) /\ \A d \in Call : Queued(d)' <=> Queued(d)
    BY <1>9, SameJobs
  <2>1. CallsTyped'
    BY <1>0, <1>8, <1>9
  <2>2. HandlesAgree'
    BY <1>0, <1>9
  <2>3. PlacesAgree'
    BY <1>0, <1>9, <2>0
  <2>4. NothingLost' /\ CancelsAgree'
    BY <1>0, <1>9, <2>0
  <2>5. QED
    BY <2>1, <2>2, <2>3, <2>4
<1>10. CASE Resolve(c) /\ UNCHANGED <<pendingFutures, listening>>
  <2>0. /\ jobs' \in Seq(Job) /\ JobsUnique'
        /\ \A d \in Call : Queued(d)' <=> Queued(d) \/ d = c
    <3>1. <<"complete", c>> \in Job /\ jobs' = Append(jobs, <<"complete", c>>)
      BY <1>10 DEF Job, Resolve
    <3>2. \A d \in Call : <<"complete", c>> = <<"complete", d>> <=> d = c
      OBVIOUS
    <3>3. QED
      BY <1>8, <3>1, <3>2, Appended
  <2>1. CallsTyped'
    BY <1>0, <1>8, <1>10, <2>0 DEF Resolve
  <2>2. HandlesAgree'
    BY <1>0, <1>10 DEF Resolve
  <2>3. PlacesAgree'
    BY <1>0, <1>8, <1>10, <2>0 DEF Resolve
  <2>4. NothingLost' /\ CancelsAgree'
    BY <1>0, <1>10, <2>0 DEF Resolve
  <2>5. QED
    BY <2>1, <2>2, <2>3, <2>4
<1>11. CASE /\ asked[c] = "signal" /\ cancelled' = [cancelled EXCEPT ![c] = TRUE]
            /\ Reject(c, "cancelled") /\ UNCHANGED <<pendingFutures, listening>>
  <2>0. /\ (JobsUnique' <=> JobsUnique) /\ \A d \in Call : Queued(d)' <=> Queued(d)
        /\ jobs' = jobs
    BY <1>11, SameJobs DEF Reject
  <2>1. CallsTyped'
    BY <1>0, <1>8, <1>11, <2>0 DEF Reject, Free
  <2>2. HandlesAgree'
    BY <1>0, <1>8, <1>11 DEF Reject, Free
  <2>3. PlacesAgree'
    BY <1>0, <1>8, <1>11, <2>0 DEF Reject, Free
  <2>4. NothingLost' /\ CancelsAgree'
    BY <1>0, <1>8, <1>11, <2>0 DEF Reject, Free
  <2>5. QED
    BY <2>1, <2>2, <2>3, <2>4
<1>12. CASE ~failure /\ Register(c)
  <2>0. /\ (JobsUnique' <=> JobsUnique) /\ \A d \in Call : Queued(d)' <=> Queued(d)
        /\ UNCHANGED <<future, cancelled, outcome, jobs>>
        /\ pendingFutures' = [pendingFutures EXCEPT ![handle[c]] = c]
        /\ listening' = listening \cup {c}
    BY <1>12, SameJobs DEF Register
  <2>8. pendingFutures[handle[c]] = NoCall
    <3>1. SUFFICES ASSUME pendingFutures[handle[c]] # NoCall
                   PROVE  FALSE
      OBVIOUS
    <3>2. PICK d \in Call : pendingFutures[handle[c]] = d
      BY <1>8, <3>1
    <3>3. future[d] = "live" /\ handle[d] = handle[c]
      BY <1>8, <3>1, <3>2
    <3>4. d = c
      BY <1>8, <3>3
    <3>5. QED
      BY <1>8, <3>2, <3>4
  <2>9. \A d \in Call : d # c => (Registered(d)' <=> Registered(d))
    <3>1. \A d \in Call : d # NoCall
      BY DEF Call, NoCall
    <3>2. QED
      BY <1>8, <2>0, <2>8, <3>1
  <2>10. Registered(c)' /\ pendingFutures'[handle[c]] = c
    BY <1>8, <2>0
  <2>1. CallsTyped'
    BY <1>0, <1>8, <2>0
  <2>2. HandlesAgree'
    <3>1. \A d \in listening : handle[d] # handle[c]
      BY <2>8 DEF Call, NoCall
    <3>2. \A d \in listening' : handle[d] \in Handle /\ pendingFutures'[handle[d]] = d
      BY <1>8, <2>0, <3>1
    <3>3. RegisteredIsLive'
      BY <1>0, <1>8, <2>0
    <3>4. QED
      BY <1>0, <1>12, <2>0, <3>2, <3>3
  <2>3. PlacesAgree'
    BY <1>0, <1>8, <2>0, <2>9
  <2>4. NothingLost' /\ CancelsAgree'
    BY <1>0, <1>8, <2>0, <2>9, <2>10
  <2>5. QED
    BY <2>1, <2>2, <2>3, <2>4
<1>13. QED
  BY <1>9, <1>10, <1>11, <1>12 DEF StartReturns

LEMMA RepollReturnsStep ==
  ASSUME CallsInv, NEW c \in Call, RepollReturns(c)
  PROVE  CallsInv'
<1> USE RegistryAssumption, WasmAssumption
    DEF CallsInv, CallsTyped, HandlesAgree, RegisteredIsLive, PlacesAgree, NothingLost, CancelsAgree,
      Registered
<1>0. /\ stack' \in Seq(Frame) /\ StackUnique'
      /\ \A d \in Call, f \in {"start", "repoll"} : Polled(d, f)' <=> Polled(d, f) /\ d # c
      /\ \A d \in Call : Refused(d)' => Refused(d)
      /\ Polled(c, "repoll") /\ (Top.at = "Cancelled" => Refused(c))
      /\ UNCHANGED <<handle, asked, wokenHandles, drainScheduled, batch, failure, spurious>>
  BY Popped DEF RepollReturns
<1>8. /\ c # NoCall /\ ~Queued(c) /\ future[c] = "live" /\ handle[c] \in Handle
      /\ ~failure => pendingFutures[handle[c]] = c
  BY <1>0 DEF Call, NoCall
<1>9. CASE UNCHANGED <<future, cancelled, outcome, jobs, pendingFutures, listening>>
  <2>0. (JobsUnique' <=> JobsUnique) /\ \A d \in Call : Queued(d)' <=> Queued(d)
    BY <1>9, SameJobs
  <2>1. CallsTyped'
    BY <1>0, <1>9
  <2>2. HandlesAgree'
    BY <1>0, <1>9
  <2>3. PlacesAgree'
    BY <1>0, <1>9, <2>0
  <2>4. NothingLost' /\ CancelsAgree'
    BY <1>0, <1>8, <1>9, <2>0
  <2>5. QED
    BY <2>1, <2>2, <2>3, <2>4
<1>10. ASSUME ~failure, Settle(c)
       PROVE  /\ \A h \in Handle : pendingFutures'[h] = IF h = handle[c] THEN NoCall ELSE pendingFutures[h]
              /\ \A d \in Call : Registered(d)' <=> Registered(d) /\ d # c
              /\ listening' = listening \ {c}
              /\ pendingFutures' \in [Handle -> Call \cup {NoCall}]
  <2>1. /\ \A h \in Handle : pendingFutures'[h] = IF h = handle[c] THEN NoCall ELSE pendingFutures[h]
        /\ pendingFutures' \in [Handle -> Call \cup {NoCall}]
        /\ listening' = listening \ {c}
    BY <1>8, <1>10 DEF Settle
  <2>2. \A d \in Call : d # NoCall
    BY DEF Call, NoCall
  <2>3. \A h \in Handle : pendingFutures[h] = c => h = handle[c]
    BY <1>8
  <2>4. QED
    BY <1>8, <1>10, <2>1, <2>2, <2>3
<1>11. CASE ~failure /\ Resolve(c) /\ Settle(c)
  <2>0. /\ jobs' \in Seq(Job) /\ JobsUnique'
        /\ \A d \in Call : Queued(d)' <=> Queued(d) \/ d = c
    <3>1. <<"complete", c>> \in Job /\ jobs' = Append(jobs, <<"complete", c>>)
      BY <1>11 DEF Job, Resolve
    <3>2. \A d \in Call : <<"complete", c>> = <<"complete", d>> <=> d = c
      OBVIOUS
    <3>3. QED
      BY <1>8, <3>1, <3>2, Appended
  <2>6. UNCHANGED <<future, cancelled, outcome>>
    BY <1>11 DEF Resolve
  <2>1. CallsTyped'
    BY <1>0, <1>10, <1>11, <2>0, <2>6
  <2>2. HandlesAgree'
    BY <1>0, <1>8, <1>10, <1>11, <2>6
  <2>3. PlacesAgree'
    BY <1>0, <1>8, <1>10, <1>11, <2>0, <2>6
  <2>4. NothingLost' /\ CancelsAgree'
    BY <1>0, <1>10, <1>11, <2>0, <2>6
  <2>5. QED
    BY <2>1, <2>2, <2>3, <2>4
<1>12. CASE ~failure /\ Top.at = "Cancelled" /\ Reject(c, "cancelled") /\ Settle(c) /\ UNCHANGED cancelled
  <2>0. /\ (JobsUnique' <=> JobsUnique) /\ \A d \in Call : Queued(d)' <=> Queued(d)
        /\ jobs' = jobs
    BY <1>12, SameJobs DEF Reject
  <2>6. /\ future' = [future EXCEPT ![c] = "freed"] /\ outcome' = [outcome EXCEPT ![c] = "cancelled"]
        /\ cancelled' = cancelled /\ asked[c] # "no"
    BY <1>0, <1>12 DEF Reject, Free
  <2>1. CallsTyped'
    BY <1>0, <1>10, <1>12, <2>0, <2>6
  <2>2. HandlesAgree'
    BY <1>0, <1>8, <1>10, <1>12, <2>6
  <2>3. PlacesAgree'
    BY <1>0, <1>8, <1>10, <1>12, <2>0, <2>6
  <2>4. NothingLost' /\ CancelsAgree'
    BY <1>0, <1>10, <1>12, <2>0, <2>6
  <2>5. QED
    BY <2>1, <2>2, <2>3, <2>4
<1>13. QED
  BY <1>9, <1>11, <1>12 DEF RepollReturns

(* A repoll begins, from the batch of a drain or from the job of a cancel. *)
LEMMA RepollStep ==
  ASSUME CallsInv, NEW h \in Handle, stack = <<>>, Repoll(h),
         UNCHANGED <<future, handle, cancelled, outcome, asked, pendingFutures, listening,
                     wokenHandles, drainScheduled, failure, spurious>>,
         batch' \subseteq batch,
         \/ jobs' = jobs
         \/ jobs # <<>> /\ Head(jobs)[1] = "repoll" /\ jobs' = Tail(jobs)
  PROVE  CallsInv'
<1> USE RegistryAssumption, WasmAssumption
    DEF CallsInv, CallsTyped, HandlesAgree, RegisteredIsLive, PlacesAgree, NothingLost, CancelsAgree,
      Registered
<1>0. /\ jobs' \in Seq(Job) /\ JobsUnique'
      /\ \A d \in Call : Queued(d)' <=> Queued(d)
  <2>1. CASE jobs' = jobs
    BY <2>1, SameJobs
  <2>2. CASE jobs # <<>> /\ Head(jobs)[1] = "repoll" /\ jobs' = Tail(jobs)
    <3>1. \A d \in Call : Head(jobs) # <<"complete", d>>
      BY <2>2
    <3>2. QED
      BY <2>2, <3>1, Taken
  <2>3. QED
    BY <2>1, <2>2
<1>1. CASE pendingFutures[h] = NoCall
  <2>1. /\ (StackUnique' <=> StackUnique) /\ stack' = stack
        /\ \A d \in Call, f \in {"start", "repoll"} : Polled(d, f)' <=> Polled(d, f)
        /\ \A d \in Call : Refused(d)' <=> Refused(d)
    BY <1>1, SameStack DEF Repoll
  <2>2. CallsTyped'
    BY <1>0, <2>1
  <2>3. HandlesAgree'
    OBVIOUS
  <2>4. PlacesAgree'
    BY <1>0, <2>1
  <2>5. NothingLost' /\ CancelsAgree'
    BY <1>0, <2>1
  <2>6. QED
    BY <2>2, <2>3, <2>4, <2>5
<1>2. CASE pendingFutures[h] # NoCall
  <2>0. PICK c \in Call : pendingFutures[h] = c
    BY <1>2
  <2>1. /\ future[c] = "live" /\ handle[c] = h /\ Registered(c) /\ ~Queued(c) /\ ~Polled(c, "start")
    BY <1>2, <2>0
  <2>7. ~Polled(c, "repoll")
    BY DEF Polled
  <2>8. /\ stack' \in Seq(Frame) /\ StackUnique'
        /\ \A d \in Call, f \in {"start", "repoll"} :
             Polled(d, f)' <=> Polled(d, f) \/ (d = c /\ f = "repoll")
        /\ \A d \in Call : Refused(d)' => Refused(d) \/ (d = c /\ cancelled[c])
    <3>1. Poll(c, "repoll")
      BY <1>2, <2>0 DEF Repoll
    <3>2. cancelled[c] \in BOOLEAN
      OBVIOUS
    <3>3. QED
      BY <2>1, <2>7, <3>1, <3>2, Pushed
  <2>2. CallsTyped'
    BY <1>0, <2>8
  <2>3. HandlesAgree'
    OBVIOUS
  <2>4. PlacesAgree'
    BY <1>0, <2>0, <2>1, <2>8
  <2>5. NothingLost' /\ CancelsAgree'
    BY <1>0, <2>8
  <2>6. QED
    BY <2>2, <2>3, <2>4, <2>5
<1>3. QED
  BY <1>1, <1>2

LEMMA DrainStep ==
  ASSUME CallsInv, DrainWakes
  PROVE  CallsInv'
<1> USE DEF CallsInv, CallsTyped, HandlesAgree, RegisteredIsLive, PlacesAgree, NothingLost, CancelsAgree,
      Registered, DrainWakes, callVars
<1>0. /\ jobs' \in Seq(Job) /\ JobsUnique'
      /\ \A d \in Call : Queued(d)' <=> Queued(d)
  <2>1. jobs # <<>> /\ \A d \in Call : Head(jobs) # <<"complete", d>>
    BY DEF NextJob
  <2>2. QED
    BY <2>1, Taken
<1>1. /\ (StackUnique' <=> StackUnique) /\ stack' = stack
      /\ \A d \in Call, f \in {"start", "repoll"} : Polled(d, f)' <=> Polled(d, f)
      /\ \A d \in Call : Refused(d)' <=> Refused(d)
  BY SameStack
<1>2. CallsTyped'
  BY <1>0, <1>1
<1>3. HandlesAgree'
  OBVIOUS
<1>4. PlacesAgree'
  BY <1>0, <1>1
<1>5. NothingLost' /\ CancelsAgree'
  BY <1>0, <1>1
<1>6. QED
  BY <1>2, <1>3, <1>4, <1>5

(* The caller that takes its result has the only hold on the future.       *)
LEMMA CompletesStep ==
  ASSUME CallsInv, NEW c \in Call, stack = <<>>, jobs # <<>>, Head(jobs) = <<"complete", c>>,
         Free(c), outcome' = [outcome EXCEPT ![c] = "value"], Completes
  PROVE  CallsInv'
<1> USE RegistryAssumption, WasmAssumption
    DEF CallsInv, CallsTyped, HandlesAgree, RegisteredIsLive, PlacesAgree, NothingLost, CancelsAgree,
      Registered
<1>0. /\ jobs' \in Seq(Job) /\ JobsUnique'
      /\ \A d \in Call : Queued(d)' <=> Queued(d) /\ d # c
      /\ Queued(c)
  <2>1. jobs' = Tail(jobs) /\ \A d \in Call : Head(jobs) = <<"complete", d>> <=> d = c
    BY DEF Completes
  <2>2. QED
    BY <2>1, Taken
<1>1. /\ (StackUnique' <=> StackUnique) /\ stack' = stack
      /\ \A d \in Call, f \in {"start", "repoll"} : Polled(d, f)' <=> Polled(d, f)
      /\ \A d \in Call : Refused(d)' <=> Refused(d)
  BY SameStack DEF Completes
<1>2. /\ future' = [future EXCEPT ![c] = "freed"]
      /\ outcome' = [outcome EXCEPT ![c] = "value"]
      /\ UNCHANGED <<handle, cancelled, asked, pendingFutures, listening, wokenHandles,
                     drainScheduled, batch, failure, spurious>>
  BY DEF Completes, Free
<1>3. c # NoCall /\ future[c] = "live" /\ ~Registered(c) /\ ~Polled(c, "start") /\ ~Polled(c, "repoll")
  BY <1>0 DEF Call, NoCall
<1>4. CallsTyped'
  BY <1>0, <1>1, <1>2
<1>5. HandlesAgree'
  BY <1>2, <1>3
<1>6. PlacesAgree'
  BY <1>0, <1>1, <1>2, <1>3
<1>7. NothingLost' /\ CancelsAgree'
  BY <1>0, <1>1, <1>2, <1>3
<1>8. QED
  BY <1>4, <1>5, <1>6, <1>7

(* A job of a caller names the call.                                       *)
LEMMA CompletedCall ==
  ASSUME jobs \in Seq(Job), Completes
  PROVE  \E c \in Call : /\ stack = <<>> /\ jobs # <<>> /\ Head(jobs) = <<"complete", c>>
                         /\ Free(c) /\ outcome' = [outcome EXCEPT ![c] = "value"]
<1>1. stack = <<>> /\ jobs # <<>> /\ Head(jobs)[1] = "complete" /\ Head(jobs) \in Job
  BY DEF Completes, NextJob, Tasks
<1>2. PICK c \in Call : Head(jobs) = <<"complete", c>>
  BY <1>1 DEF Job
<1>3. Head(jobs)[2] = c
  BY <1>2
<1>4. QED
  BY <1>1, <1>2, <1>3 DEF Completes

-----------------------------------------------------------------------------
LEMMA WakersStep ==
  ASSUME RegistryInv, CallsInv, WakersBegan, WNext
  PROVE  WakersBegan'
<1> USE RegistryAssumption, WasmAssumption
<1>0. /\ pending_requests \in [Id -> Entry] /\ next_request_id \in Id /\ idOf \in [Request -> Id]
      /\ future \in [Call -> {"none", "live", "freed"}] /\ jobs \in Seq(Job)
      /\ request \in [Call -> 0..MaxRequests]
  BY DEF RegistryInv, RegistryTyped, RTypeOK, CallsInv, CallsTyped, Entry
<1>1. \A d \in Call : future[d] # "none" => future'[d] # "none"
  <2>1. ASSUME NEW c \in Call, Free(c)
        PROVE  \A d \in Call : future[d] # "none" => future'[d] # "none"
    BY <1>0, <2>1 DEF Free
  <2>2. CASE \E c \in Call, h \in Handle : Start(c, h)
    BY <1>0, <2>2 DEF Start
  <2>3. CASE Completes
    BY <1>0, <2>1, <2>3, CompletedCall
  <2>4. CASE \E c \in Call : StartReturns(c) \/ RepollReturns(c)
    BY <2>1, <2>4 DEF StartReturns, RepollReturns, Reject, Resolve, Register
  <2>5. QED
    BY <2>2, <2>3, <2>4
       DEF WNext, Abort, StrayWake, RustAsks, RustCallsHost, HostReturns, Polls, RustWaits, RustFinishes,
           RustTraps, Jobs, DrainWakes, DrainRepolls, CancelRepolls, HostAnswers, callVars
<1>2. \A i \in Id : \/ pending_requests'[i].waker \in {pending_requests[i].waker, NoWaiter}
                    \/ /\ pending_requests'[i].waker \in Call
                       /\ future[pending_requests'[i].waker] # "none"
  <2>1. ASSUME NEW j \in Id, Remove(j)
        PROVE  \A i \in Id : pending_requests'[i].waker \in {pending_requests[i].waker, NoWaiter}
    BY <1>0, <2>1 DEF Remove, Put, NoRequest
  <2>2. ASSUME NEW c \in Call, Free(c)
        PROVE  \A i \in Id : pending_requests'[i].waker \in {pending_requests[i].waker, NoWaiter}
    BY <1>0, <2>1, <2>2 DEF Free, registryVars, Request
  <2>3. CASE \E c \in Call : StartReturns(c) \/ RepollReturns(c)
    BY <2>2, <2>3 DEF StartReturns, RepollReturns, Reject, Resolve, Register, registryVars
  <2>4. CASE Completes
    BY <1>0, <2>2, <2>4, CompletedCall
  <2>5. CASE \E c \in Call : RustAsks(c)
    BY <1>0, <2>5 DEF RustAsks, Allocate, Put
  <2>6. ASSUME NEW c \in Call, RustWaits(c)
        PROVE  \A i \in Id : \/ pending_requests'[i].waker \in {pending_requests[i].waker, NoWaiter}
                             \/ pending_requests'[i].waker = c /\ future[c] # "none"
    <3>1. idOf[request[c]] \in Id
      BY <1>0, <2>6 DEF RustWaits, Request
    <3>2. future[c] # "none"
      <4>1. stack \in Seq(Frame) /\ stack # <<>> /\ Top.call = c
        BY <2>6 DEF RustWaits, InRust, TopAt, CallsInv, CallsTyped
      <4>2. Top = stack[Len(stack)] /\ Len(stack) \in 1..Len(stack) /\ Top.from \in {"start", "repoll"}
        <5>1. Top = stack[Len(stack)] /\ Len(stack) \in 1..Len(stack)
          BY <4>1 DEF Top
        <5>2. Top \in Frame
          BY <4>1, <5>1
        <5>3. QED
          BY <5>1, <5>2 DEF Frame
      <4>3. Polled(c, "start") \/ Polled(c, "repoll")
        BY <4>1, <4>2 DEF Polled
      <4>4. QED
        BY <4>3 DEF CallsInv, PlacesAgree
    <3>3. CASE Remove(idOf[request[c]])
      BY <2>1, <3>1, <3>3
    <3>4. CASE SetWaker(idOf[request[c]], c)
      BY <1>0, <3>1, <3>2, <3>4 DEF SetWaker, Put, Entry
    <3>5. QED
      BY <2>6, <3>3, <3>4 DEF RustWaits
  <2>7. ASSUME NEW n \in Request, HostAnswers(n)
        PROVE  \A i \in Id : pending_requests'[i].waker \in {pending_requests[i].waker, NoWaiter}
    <3>1. idOf[n] \in Id /\ pending_requests[idOf[n]] \in Entry
      BY <1>0, <2>7
    <3>2. CASE UNCHANGED pending_requests
      BY <3>2
    <3>3. CASE pending_requests' = [pending_requests EXCEPT ![idOf[n]] =
                  [pending_requests[idOf[n]] EXCEPT !.completion = n, !.waker = NoWaiter]]
      <4>1. [pending_requests[idOf[n]] EXCEPT !.completion = n, !.waker = NoWaiter].waker = NoWaiter
        BY <3>1 DEF Entry
      <4>2. QED
        BY <1>0, <3>1, <3>3, <4>1
    <3>4. QED
      BY <2>7, <3>2, <3>3 DEF HostAnswers, Complete, Put
  <2>8. QED
    BY <2>3, <2>4, <2>5, <2>6, <2>7
       DEF WNext, Start, Abort, StrayWake, RustCallsHost, HostReturns, Polls, RustFinishes,
           RustTraps, Jobs, DrainWakes, DrainRepolls, CancelRepolls, registryVars
<1>3. ASSUME NEW i \in Id, pending_requests[i].waker # NoWaiter
      PROVE  pending_requests[i].waker \in Call
  BY <1>0, <1>3 DEF Entry, Call
<1>4. QED
  BY <1>1, <1>2, <1>3 DEF WakersBegan

-----------------------------------------------------------------------------
(* Every step of the module.                                               *)

LEMMA RegistryStep ==
  ASSUME RegistryInv, CallsInv, WNext
  PROVE  RegistryInv'
<1> USE DEF registryVars
<1>1. ASSUME NEW c \in Call, Free(c), host' = host
      PROVE  RegistryInv'
  BY <1>1, RegistryRemoves DEF Free
<1>2. ASSUME NEW c \in Call, RustAsks(c)
      PROVE  RegistryInv'
  <2>1. request[c] = 0 /\ request' = [request EXCEPT ![c] = made']
    BY <1>2 DEF RustAsks
  <2>2. \E b \in BOOLEAN : Allocate(b) /\ host' \subseteq host \cup {made'}
    BY <1>2 DEF RustAsks
  <2>3. QED
    BY <2>1, <2>2, RegistryAllocates
<1>3. ASSUME NEW c \in Call, RustWaits(c)
      PROVE  RegistryInv'
  <2>1. request[c] # 0 /\ idOf[request[c]] \in Id /\ host' = host
    BY <1>3 DEF RustWaits, RegistryInv, RegistryTyped, RTypeOK, Request
  <2>2. CASE Remove(idOf[request[c]]) /\ request' = [request EXCEPT ![c] = 0]
    BY <2>1, <2>2, RegistryRemoves
  <2>3. CASE SetWaker(idOf[request[c]], c) /\ request' = request
    BY <2>1, <2>3, RegistrySetsWaker
  <2>4. QED
    BY <1>3, <2>2, <2>3 DEF RustWaits
<1>4. ASSUME NEW c \in Call, StartReturns(c) \/ RepollReturns(c)
      PROVE  RegistryInv'
  <2>1. CASE Free(c)
    BY <1>1, <1>4, <2>1 DEF StartReturns, RepollReturns
  <2>2. CASE UNCHANGED <<registryVars, request>>
    BY <1>4, <2>2, RegistryStutters DEF StartReturns, RepollReturns
  <2>3. QED
    BY <1>4, <2>1, <2>2 DEF StartReturns, RepollReturns, Reject, Resolve, Register
<1>5. CASE Completes
  BY <1>1, <1>5, CompletedCall DEF Completes, CallsInv, CallsTyped
<1>6. ASSUME NEW n \in Request, HostAnswers(n)
      PROVE  RegistryInv'
  <2>1. n \in host /\ host' \subseteq host /\ request' = request /\ Complete(idOf[n], n)
    BY <1>6 DEF HostAnswers, callVars
  <2>2. QED
    BY <2>1, RegistryCompletes
<1>7. CASE UNCHANGED <<registryVars, request, host>>
  BY <1>7, RegistryStutters
<1>8. QED
  BY <1>2, <1>3, <1>4, <1>5, <1>6, <1>7
     DEF WNext, Start, Abort, StrayWake, RustCallsHost, HostReturns, Polls, RustFinishes,
         RustTraps, Jobs, DrainWakes, DrainRepolls, CancelRepolls, callVars

LEMMA CallsStep ==
  ASSUME RegistryInv, CallsInv, WakersBegan, WNext
  PROVE  CallsInv'
<1>1. ASSUME NEW c \in Call, RustAsks(c)
      PROVE  CallsInv'
  BY <1>1, CallsStutter DEF RustAsks
<1>2. ASSUME NEW c \in Call, StrayWake(c)
      PROVE  CallsInv'
  <2>1. spurious' \in 0..MaxSpurious
    BY <1>2, WasmAssumption DEF StrayWake, CallsInv, CallsTyped
  <2>2. QED
    BY <1>2, <2>1, WakeStep DEF StrayWake, callVars
<1>3. ASSUME NEW n \in Request, HostAnswers(n)
      PROVE  CallsInv'
  <2>1. /\ idOf[n] \in Id
        /\ pending_requests \in [Id -> Entry]
    BY DEF RegistryInv, RegistryTyped, RTypeOK, Entry
  <2>2. /\ WakerOf(idOf[n]) \in Call \cup {NoCall}
        /\ WakerOf(idOf[n]) # NoCall => future[WakerOf(idOf[n])] # "none"
    BY <2>1 DEF WakerOf, WakersBegan, Entry, Call, NoCall
  <2>3. spurious' \in 0..MaxSpurious
    BY <1>3 DEF HostAnswers, CallsInv, CallsTyped
  <2>4. QED
    BY <1>3, <2>2, <2>3, WakeStep DEF HostAnswers, callVars
<1>4. CASE DrainWakes
  BY <1>4, DrainStep
<1>5. ASSUME NEW h \in Handle, DrainRepolls(h)
      PROVE  CallsInv'
  BY <1>5, RepollStep DEF DrainRepolls, callVars
<1>6. CASE CancelRepolls
  <2>1. Head(jobs)[2] \in Handle
    <3>1. Head(jobs) \in Job /\ Head(jobs)[1] = "repoll"
      BY <1>6 DEF CancelRepolls, NextJob, CallsInv, CallsTyped
    <3>2. QED
      BY <3>1 DEF Job
  <2>2. QED
    BY <1>6, <2>1, RepollStep DEF CancelRepolls, NextJob, Tasks, callVars
<1>7. CASE Completes
  BY <1>7, CompletedCall, CompletesStep DEF CallsInv, CallsTyped
<1>8. ASSUME NEW c \in Call, Abort(c) \/ RustCallsHost(c) \/ HostReturns \/ Polls(c)
      PROVE  CallsInv'
  <2>1. CASE Abort(c)
    BY <2>1, AbortStep
  <2>2. CASE RustCallsHost(c) \/ HostReturns \/ RustFinishes(c) \/ RustWaits(c)
    BY <2>2, MoveStep
  <2>3. CASE RustTraps(c)
    BY <2>3, TrapStep
  <2>4. CASE StartReturns(c)
    BY <2>4, StartReturnsStep
  <2>5. CASE RepollReturns(c)
    BY <2>5, RepollReturnsStep
  <2>6. QED
    BY <1>8, <2>1, <2>2, <2>3, <2>4, <2>5 DEF Polls
<1>9. ASSUME HostReturns
      PROVE  CallsInv'
  <2>1. stack # <<>> /\ stack \in Seq(Frame)
    BY <1>9 DEF HostReturns, TopAt, CallsInv, CallsTyped
  <2>2. stack[Len(stack)] \in Frame
    BY <2>1
  <2>3. PICK c \in Call : TRUE
    BY <2>2 DEF Frame
  <2>4. QED
    BY <1>9, <2>3, MoveStep
<1>10. ASSUME NEW c \in Call, NEW h \in Handle, Start(c, h)
       PROVE  CallsInv'
  BY <1>10, StartStep
<1>11. QED
  BY <1>1, <1>2, <1>3, <1>4, <1>5, <1>6, <1>7, <1>8, <1>9, <1>10 DEF WNext, Jobs

LEMMA WasmInit ==
  ASSUME WInit
  PROVE  WasmInv
<1> USE RegistryAssumption, WasmAssumption
    DEF WInit, RInit, NoRequest, Has, Id, Request
<1>1. RegistryInv
  <2>1. RegistryTyped
    BY DEF RegistryTyped, RTypeOK
  <2>2. Circle /\ RequestsMade
    BY DEF Circle, RequestsMade
  <2>3. EntriesAgree
    BY DEF EntriesAgree, Completion
  <2>4. QED
    BY <2>1, <2>2, <2>3 DEF RegistryInv
<1>2. CallsInv
  <2>1. CallsTyped
    <3>1. jobs \in Seq(Job) /\ stack \in Seq(Frame)
      OBVIOUS
    <3>2. 0 \in 0..MaxSpurious
      OBVIOUS
    <3>3. QED
      BY <3>1, <3>2 DEF CallsTyped
  <2>2. HandlesAgree
    BY DEF HandlesAgree, RegisteredIsLive
  <2>3. PlacesAgree /\ NothingLost /\ CancelsAgree
    <3>1. Len(stack) = 0 /\ Len(jobs) = 0
      OBVIOUS
    <3>2. \A c \in Call : /\ ~Polled(c, "start") /\ ~Polled(c, "repoll")
                          /\ ~Queued(c) /\ ~Refused(c)
      BY <3>1 DEF Polled, Queued, Refused
    <3>3. StackUnique /\ JobsUnique
      BY <3>1 DEF StackUnique, JobsUnique
    <3>4. QED
      BY <3>2, <3>3 DEF PlacesAgree, NothingLost, CancelsAgree
  <2>4. QED
    BY <2>1, <2>2, <2>3 DEF CallsInv
<1>3. WakersBegan
  BY DEF WakersBegan
<1>4. QED
  BY <1>1, <1>2, <1>3 DEF WasmInv

(* The invariant that the properties below follow from.                    *)
THEOREM WasmInvariant == WSpec => []WasmInv
<1>1. WInit => WasmInv
  BY WasmInit
<1>2. WasmInv /\ [WNext]_wasmVars => WasmInv'
  <2>1. ASSUME WasmInv, WNext
        PROVE  WasmInv'
    BY <2>1, RegistryStep, CallsStep, WakersStep DEF WasmInv
  <2>2. ASSUME WasmInv, UNCHANGED wasmVars
        PROVE  WasmInv'
    <3>1. RegistryInv'
      BY <2>2, RegistryStutters DEF WasmInv, wasmVars, callVars
    <3>2. CallsInv'
      BY <2>2, CallsStutter DEF WasmInv, wasmVars, callVars
    <3>3. WakersBegan'
      BY <2>2 DEF WasmInv, WakersBegan, wasmVars, callVars, registryVars
    <3>4. QED
      BY <3>1, <3>2, <3>3 DEF WasmInv
  <2>3. QED
    BY <2>1, <2>2
<1>3. QED
  BY <1>1, <1>2, PTL DEF WSpec

-----------------------------------------------------------------------------
(* What is registered under a handle is the call that has the handle, and  *)
(* is alive, although handles are used again (AsyncFutureManager).         *)
THEOREM HandleIsNotStale == WSpec => []RegisteredIsLive
<1>1. WasmInv => RegisteredIsLive
  BY DEF WasmInv, CallsInv, HandlesAgree
<1>2. QED
  BY <1>1, WasmInvariant, PTL

(* A call is cancelled only if its own caller asked, by the signal or by   *)
(* the cancel id (cancel and pollAsync).                                   *)
THEOREM CancelReachesItsCall == WSpec => []CancelledAsAsked
<1>1. WasmInv => CancelledAsAsked
  BY DEF WasmInv, CallsInv, CancelsAgree, CancelledAsAsked
<1>2. QED
  BY <1>1, WasmInvariant, PTL

(* A live future is on the stack, in the table or queued for its caller,   *)
(* unless the module failed; a request is kept no longer than its future   *)
(* (takeResult, free, and Drop of AsyncCallbackRequestGuard).              *)
THEOREM NothingLeaks == WSpec => []FreedWhenSettled
<1>1. WasmInv => FreedWhenSettled
  <2>1. ASSUME WasmInv, NEW c \in Call, future[c] = "live", ~failure
        PROVE  Held(c)
    BY <2>1 DEF WasmInv, CallsInv, NothingLost, Held, Polled, Registered, Queued
  <2>2. ASSUME WasmInv, NEW i \in Id, Has(i)
        PROVE  \E c \in Call : request[c] = pending_requests[i].of
    BY <2>2 DEF WasmInv, RegistryInv, EntriesAgree
  <2>3. QED
    BY <2>1, <2>2 DEF FreedWhenSettled
<1>2. QED
  BY <1>1, WasmInvariant, PTL

(* The answer that a wait finds is its own, or one that is at least a      *)
(* whole round of request numbers away (allocate and complete).            *)
THEOREM AnswerIsNotStale == WSpec => []AnswersItsOwn
<1>1. WasmInv => AnswersItsOwn
  <2> SUFFICES ASSUME WasmInv, NEW c \in Call, request[c] # 0,
                      NEW a, a = Completion(idOf[request[c]]), a # 0, a # request[c]
               PROVE  a >= request[c] + MaxId \/ request[c] >= a + MaxId
    BY DEF AnswersItsOwn
  <2> USE RegistryAssumption
  <2>1. /\ made \in Nat /\ request[c] \in 1..made /\ idOf[request[c]] \in Id /\ MaxId \in Nat
    BY DEF WasmInv, RegistryInv, RegistryTyped, RTypeOK, RequestsMade, Request
  <2>2. a \in 1..made /\ idOf[a] = idOf[request[c]]
    BY <2>1 DEF WasmInv, RegistryInv, EntriesAgree
  <2>3. \A m, n \in 1..made : m < n /\ idOf[m] = idOf[n] => n - m >= MaxId
    BY DEF WasmInv, RegistryInv, Circle
  <2>4. a < request[c] \/ request[c] < a
    BY <2>1, <2>2
  <2>5. CASE a < request[c]
    <3>1. request[c] - a >= MaxId
      BY <2>1, <2>2, <2>3, <2>5
    <3>2. QED
      BY <2>1, <2>2, <3>1
  <2>6. CASE request[c] < a
    <3>1. a - request[c] >= MaxId
      BY <2>1, <2>2, <2>3, <2>6
    <3>2. QED
      BY <2>1, <2>2, <3>1
  <2>7. QED
    BY <2>4, <2>5, <2>6
<1>2. QED
  BY <1>1, WasmInvariant, PTL
=============================================================================
