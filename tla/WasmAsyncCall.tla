---------------------------- MODULE WasmAsyncCall ----------------------------
(***************************************************************************)
(* Asynchronous calls into a wasm module: AsyncFutureManager (src/runtime/ *)
(* typescript/src/module.ts), the wasm entry points of RustFuture, and the *)
(* registry of the host callbacks that the Rust futures wait for.          *)
(*                                                                         *)
(* One thread runs it all.  JavaScript runs to completion: a job of the    *)
(* microtask queue starts when the stack is empty.  The stack is the polls *)
(* that are under way: a Rust future that is polled may call a synchronous *)
(* host callback, whose code may abort a call or start another, polled     *)
(* inside the first poll.                                                  *)
(*                                                                         *)
(* A handle is the address of the Rust future and is given to another call *)
(* once it is freed.  A trap (wasm aborts on a panic) throws into the poll *)
(* and fails the module for good.                                          *)
(***************************************************************************)
EXTENDS Sequences, FiniteSets, AsyncCallbackRegistry

CONSTANTS Handle,
          NoHandle,
          MaxDepth,     \* bound: polls on the stack
          MaxSpurious   \* bound: wakes that no answer gives

Call == Waiter
NoCall == NoWaiter

ASSUME WasmAssumption == NoHandle \notin Handle /\ MaxDepth \in Nat /\ MaxSpurious \in Nat

VARIABLES
  future,     \* the Rust future of each call: not made, live, freed
  handle,     \* its address; a stale waker still has it when it is freed
  cancelled,  \* its wake target is cancelled
  request,    \* the request it waits for, 0 for none
  outcome,    \* what the caller got
  asked,      \* the caller asked to cancel, with its signal or its cancel id
  pendingFutures,  \* by handle
  listening,  \* calls whose abort listener and cancel id are attached
  wokenHandles, drainScheduled,
  batch,      \* handles that the drain under way has yet to poll
  failure,
  jobs,       \* the microtask queue
  stack,      \* the polls under way, the innermost last
  host,       \* requests the host has yet to answer
  spurious

callVars == <<future, handle, cancelled, request, outcome, asked>>
managerVars == <<pendingFutures, listening, wokenHandles, drainScheduled, batch, failure, jobs>>
wasmVars == <<registryVars, callVars, managerVars, stack, host, spurious>>

Frame == [call : Call, from : {"start", "repoll"}, called : BOOLEAN,
          at : {"rust", "host", "Pending", "Ready", "Cancelled"}]

WTypeOK ==
  /\ RTypeOK
  /\ future \in [Call -> {"none", "live", "freed"}]
  /\ handle \in [Call -> Handle \cup {NoHandle}]
  /\ cancelled \in [Call -> BOOLEAN]
  /\ request \in [Call -> 0..MaxRequests]
  /\ outcome \in [Call -> {"none", "value", "cancelled", "failed"}]
  /\ asked \in [Call -> {"no", "signal", "id"}]
  /\ pendingFutures \in [Handle -> Call \cup {NoCall}]
  /\ listening \subseteq Call
  /\ wokenHandles \subseteq Handle /\ batch \subseteq Handle
  /\ drainScheduled \in BOOLEAN /\ failure \in BOOLEAN
  /\ jobs \in Seq({"drain"} \X {NoHandle} \cup {"repoll"} \X Handle \cup {"complete"} \X Call)
  /\ stack \in Seq(Frame)
  /\ host \subseteq Request
  /\ spurious \in 0..MaxSpurious

WInit ==
  /\ RInit
  /\ future = [c \in Call |-> "none"]
  /\ handle = [c \in Call |-> NoHandle]
  /\ cancelled = [c \in Call |-> FALSE]
  /\ request = [c \in Call |-> 0]
  /\ outcome = [c \in Call |-> "none"]
  /\ asked = [c \in Call |-> "no"]
  /\ pendingFutures = [h \in Handle |-> NoCall]
  /\ listening = {} /\ wokenHandles = {} /\ batch = {}
  /\ drainScheduled = FALSE /\ failure = FALSE
  /\ jobs = <<>> /\ stack = <<>>
  /\ host = {}
  /\ spurious = 0

Top == stack[Len(stack)]
TopAt(l) == stack # <<>> /\ Top.at = l
MoveTop(l) == stack' = [stack EXCEPT ![Len(stack)].at = l]
Pop == stack' = SubSeq(stack, 1, Len(stack) - 1)

(* The host's own code runs in a task, or in a callback that a poll calls. *)
Tasks == stack = <<>> /\ batch = {}
HostCode == Tasks \/ TopAt("host")
NextJob(kind) == Tasks /\ jobs # <<>> /\ Head(jobs)[1] = kind

(* poll_sync of c: a cancelled future is not polled.                       *)
Poll(c, from) ==
  stack' = Append(stack, [call |-> c, from |-> from, called |-> FALSE,
                          at |-> IF cancelled[c] THEN "Cancelled" ELSE "rust"])

(* wake, from the waker of c, or from nobody.                              *)
WakeLeavingJobs(c, queued) ==
  IF c = NoCall \/ failure
    THEN UNCHANGED <<wokenHandles, drainScheduled>> /\ jobs' = queued
    ELSE /\ wokenHandles' = wokenHandles \cup {handle[c]}
         /\ drainScheduled' = TRUE
         /\ jobs' = IF drainScheduled THEN queued ELSE Append(queued, <<"drain", NoHandle>>)

wake(c) == WakeLeavingJobs(c, jobs)

-----------------------------------------------------------------------------
(* The callers.                                                            *)

(* The generated function: start, then pollAsync, whose first poll comes   *)
(* before the call is registered.                                          *)
Start(c, h) ==
  /\ HostCode
  /\ Len(stack) < MaxDepth
  /\ future[c] = "none"
  /\ \A d \in Call : future[d] = "live" => handle[d] # h
  /\ future' = [future EXCEPT ![c] = "live"]
  /\ handle' = [handle EXCEPT ![c] = h]
  /\ IF failure THEN outcome' = [outcome EXCEPT ![c] = "failed"] /\ UNCHANGED stack
                ELSE Poll(c, "start") /\ UNCHANGED outcome
  /\ UNCHANGED <<registryVars, cancelled, request, asked, managerVars, host, spurious>>

(* cancel(handle) of the manager: whoever is registered under the handle   *)
(* is marked, and polled again in a job of its own.                        *)
CancelHandle(h) ==
  LET entry == pendingFutures[h]
  IN  IF entry = NoCall THEN UNCHANGED <<cancelled, jobs>>
        ELSE /\ cancelled' = [cancelled EXCEPT ![entry] = TRUE]
             /\ jobs' = Append(jobs, <<"repoll", h>>)

(* The signal of c is aborted, which may be at any time, or cancelById is  *)
(* called, which does nothing unless the id is attached.                   *)
Abort(c) ==
  /\ HostCode
  /\ future[c] # "none" /\ asked[c] = "no"
  /\ \/ asked' = [asked EXCEPT ![c] = "signal"]
     \/ c \in listening /\ asked' = [asked EXCEPT ![c] = "id"]
  /\ IF c \in listening THEN CancelHandle(handle[c]) ELSE UNCHANGED <<cancelled, jobs>>
  /\ UNCHANGED <<registryVars, future, handle, request, outcome, pendingFutures, listening,
                 wokenHandles, drainScheduled, batch, failure, stack, host, spurious>>

-----------------------------------------------------------------------------
(* The Rust future of the innermost poll.                                  *)

InRust(c) == TopAt("rust") /\ Top.call = c

(* It calls an asynchronous host callback: the request is allocated and    *)
(* the import called, which answers at once when the callback is unknown   *)
(* to it.                                                                  *)
RustAsks(c) ==
  /\ InRust(c)
  /\ request[c] = 0
  /\ \/ Allocate(FALSE) /\ host' = host \cup {made'}
     \/ Allocate(TRUE) /\ UNCHANGED host
  /\ request' = [request EXCEPT ![c] = made']
  /\ UNCHANGED <<future, handle, cancelled, outcome, asked, managerVars, stack, spurious>>

(* AsyncCallbackWait::poll.                                                *)
RustWaits(c) ==
  /\ InRust(c)
  /\ request[c] # 0
  /\ IF Completion(idOf[request[c]]) # 0
       THEN /\ Remove(idOf[request[c]])
            /\ request' = [request EXCEPT ![c] = 0]
            /\ UNCHANGED stack
       ELSE SetWaker(idOf[request[c]], c) /\ MoveTop("Pending") /\ UNCHANGED request
  /\ UNCHANGED <<future, handle, cancelled, outcome, asked, managerVars, host, spurious>>

(* A synchronous host callback, here one for each poll.                    *)
RustCallsHost(c) ==
  /\ InRust(c)
  /\ ~Top.called
  /\ stack' = [stack EXCEPT ![Len(stack)].at = "host", ![Len(stack)].called = TRUE]
  /\ UNCHANGED <<registryVars, callVars, managerVars, host, spurious>>

HostReturns ==
  /\ TopAt("host")
  /\ MoveTop("rust")
  /\ UNCHANGED <<registryVars, callVars, managerVars, host, spurious>>

RustFinishes(c) ==
  /\ InRust(c)
  /\ request[c] = 0
  /\ MoveTop("Ready")
  /\ UNCHANGED <<registryVars, callVars, managerVars, host, spurious>>

(* fail: every registered call is rejected, and the one whose first poll   *)
(* it was.                                                                 *)
RustTraps(c) ==
  /\ InRust(c)
  /\ Pop
  /\ failure' = TRUE
  /\ outcome' = [d \in Call |-> IF (d = c /\ Top.from = "start")
                                   \/ \E h \in Handle : pendingFutures[h] = d
                                THEN "failed" ELSE outcome[d]]
  /\ pendingFutures' = [h \in Handle |-> NoCall]
  /\ listening' = {} /\ wokenHandles' = {}
  /\ UNCHANGED <<registryVars, future, handle, cancelled, request, asked,
                 drainScheduled, batch, jobs, host, spurious>>

-----------------------------------------------------------------------------
(* A poll returns to the manager.                                          *)

(* Mutant: the wait keeps its request.                                     *)
FreeKeepsRequest(c) ==
  /\ future' = [future EXCEPT ![c] = "freed"]
  /\ request' = [request EXCEPT ![c] = 0]
  /\ UNCHANGED registryVars

(* free of the Rust future: its wait is dropped, and with it the request.  *)
Free(c) ==
  /\ future' = [future EXCEPT ![c] = "freed"]
  /\ request' = [request EXCEPT ![c] = 0]
  /\ IF request[c] # 0 THEN Remove(idOf[request[c]]) ELSE UNCHANGED registryVars

(* The promise is resolved: the caller goes on in a job of its own.        *)
Resolve(c) ==
  /\ jobs' = Append(jobs, <<"complete", c>>)
  /\ UNCHANGED <<registryVars, future, request, cancelled, outcome>>

(* extractAsyncError, and the promise is rejected.                         *)
Reject(c, why) ==
  /\ Free(c)
  /\ outcome' = [outcome EXCEPT ![c] = why]
  /\ UNCHANGED jobs

Register(c) ==
  /\ pendingFutures' = [pendingFutures EXCEPT ![handle[c]] = c]
  /\ listening' = listening \cup {c}
  /\ UNCHANGED <<registryVars, future, request, cancelled, outcome, jobs>>

(* Mutant: registers without a look at the signal.                         *)
StartReturnsBlind(c) ==
  /\ stack # <<>> /\ Top.call = c /\ Top.from = "start" /\ Top.at \in {"Pending", "Ready"}
  /\ Pop
  /\ \/ /\ failure
        /\ outcome' = [outcome EXCEPT ![c] = "failed"]
        /\ UNCHANGED <<registryVars, future, request, cancelled, jobs, pendingFutures, listening>>
     \/ ~failure /\ Top.at = "Ready" /\ Resolve(c) /\ UNCHANGED <<pendingFutures, listening>>
     \/ ~failure /\ Top.at = "Pending" /\ Register(c)
  /\ UNCHANGED <<handle, asked, wokenHandles, drainScheduled, batch, failure, host, spurious>>

(* pollAsync after its first poll.  The signal may have been aborted       *)
(* before there was a listener: then the future is cancelled and polled    *)
(* again, which only tells so.                                             *)
StartReturns(c) ==
  /\ stack # <<>> /\ Top.call = c /\ Top.from = "start" /\ Top.at \in {"Pending", "Ready"}
  /\ Pop
  /\ \/ /\ failure
        /\ outcome' = [outcome EXCEPT ![c] = "failed"]
        /\ UNCHANGED <<registryVars, future, request, cancelled, jobs, pendingFutures, listening>>
     \/ ~failure /\ Top.at = "Ready" /\ Resolve(c) /\ UNCHANGED <<pendingFutures, listening>>
     \/ /\ ~failure /\ Top.at = "Pending" /\ asked[c] = "signal"
        /\ cancelled' = [cancelled EXCEPT ![c] = TRUE]
        /\ Reject(c, "cancelled")
        /\ UNCHANGED <<pendingFutures, listening>>
     \/ ~failure /\ Top.at = "Pending" /\ asked[c] # "signal" /\ Register(c)
  /\ UNCHANGED <<handle, asked, wokenHandles, drainScheduled, batch, failure, host, spurious>>

(* Mutant: a call that is ready stays registered.                          *)
SettleKeepsEntry(c) == UNCHANGED pendingFutures /\ listening' = listening \ {c}

(* Mutant: the listener and the cancel id stay.                            *)
SettleListening(c) ==
  pendingFutures' = [pendingFutures EXCEPT ![handle[c]] = NoCall] /\ UNCHANGED listening

(* The entry is deleted; its resolve and reject detach.                    *)
Settle(c) ==
  /\ pendingFutures' = [pendingFutures EXCEPT ![handle[c]] = NoCall]
  /\ listening' = listening \ {c}

(* repollHandle after its poll.                                            *)
RepollReturns(c) ==
  /\ stack # <<>> /\ Top.call = c /\ Top.from = "repoll"
  /\ Top.at \in {"Pending", "Ready", "Cancelled"}
  /\ Pop
  /\ \/ /\ failure \/ Top.at = "Pending"
        /\ UNCHANGED <<registryVars, future, request, cancelled, outcome, jobs,
                       pendingFutures, listening>>
     \/ ~failure /\ Top.at = "Ready" /\ Resolve(c) /\ Settle(c)
     \/ ~failure /\ Top.at = "Cancelled" /\ Reject(c, "cancelled") /\ Settle(c)
          /\ UNCHANGED cancelled
  /\ UNCHANGED <<handle, asked, wokenHandles, drainScheduled, batch, failure, host, spurious>>

-----------------------------------------------------------------------------
(* The microtasks.                                                         *)

Repoll(h) ==
  IF pendingFutures[h] = NoCall THEN UNCHANGED stack ELSE Poll(pendingFutures[h], "repoll")

(* Mutant: the set is cleared when the batch is done, over wakes that came *)
(* meanwhile.                                                              *)
DrainWakesLate ==
  /\ NextJob("drain")
  /\ batch' = wokenHandles
  /\ jobs' = Tail(jobs)
  /\ UNCHANGED <<registryVars, callVars, pendingFutures, listening, wokenHandles,
                 drainScheduled, failure, stack, host, spurious>>

DrainWakes ==
  /\ NextJob("drain")
  /\ drainScheduled' = FALSE
  /\ batch' = wokenHandles /\ wokenHandles' = {}
  /\ jobs' = Tail(jobs)
  /\ UNCHANGED <<registryVars, callVars, pendingFutures, listening, failure, stack, host, spurious>>

DrainRepolls(h) ==
  /\ stack = <<>>
  /\ h \in batch
  /\ batch' = batch \ {h}
  /\ Repoll(h)
  /\ UNCHANGED <<registryVars, callVars, pendingFutures, listening, wokenHandles,
                 drainScheduled, failure, jobs, host, spurious>>

CancelRepolls ==
  /\ NextJob("repoll")
  /\ jobs' = Tail(jobs)
  /\ Repoll(Head(jobs)[2])
  /\ UNCHANGED <<registryVars, callVars, pendingFutures, listening, wokenHandles,
                 drainScheduled, batch, failure, host, spurious>>

(* The caller takes the result and frees the handle.                       *)
Completes ==
  /\ NextJob("complete")
  /\ LET c == Head(jobs)[2]
     IN  Free(c) /\ outcome' = [outcome EXCEPT ![c] = "value"]
  /\ jobs' = Tail(jobs)
  /\ UNCHANGED <<handle, cancelled, asked, pendingFutures, listening, wokenHandles,
                 drainScheduled, batch, failure, stack, host, spurious>>

(* The promise of a host callback answers its request.                     *)
HostAnswers(n) ==
  /\ Tasks
  /\ n \in host
  /\ host' = host \ {n}
  /\ wake(WakerOf(idOf[n]))
  /\ Complete(idOf[n], n)
  /\ UNCHANGED <<callVars, pendingFutures, listening, batch, failure, stack, spurious>>

(* A waker of c that another part of the Rust side kept, stale or not.     *)
StrayWake(c) ==
  /\ future[c] # "none"
  /\ spurious < MaxSpurious
  /\ spurious' = spurious + 1
  /\ wake(c)
  /\ UNCHANGED <<registryVars, callVars, pendingFutures, listening, batch, failure, stack, host>>

-----------------------------------------------------------------------------
Polls(c) ==
  \/ RustWaits(c) \/ RustFinishes(c) \/ RustTraps(c)
  \/ StartReturns(c) \/ RepollReturns(c)

Jobs == DrainWakes \/ (\E h \in Handle : DrainRepolls(h)) \/ CancelRepolls \/ Completes

WNext ==
  \/ \E c \in Call, h \in Handle : Start(c, h)
  \/ \E c \in Call : Abort(c) \/ StrayWake(c)
  \/ \E c \in Call : RustAsks(c) \/ RustCallsHost(c)
  \/ HostReturns
  \/ \E c \in Call : Polls(c)
  \/ Jobs
  \/ \E n \in Request : HostAnswers(n)

(* Polls return, callbacks return, and microtasks run.  The host need not  *)
(* answer.                                                                 *)
WSpec ==
  /\ WInit /\ [][WNext]_wasmVars
  /\ WF_wasmVars((\E c \in Call : Polls(c)) \/ HostReturns)
  /\ WF_wasmVars(Jobs)

-----------------------------------------------------------------------------
(* What is registered under a handle is the call that has the handle, and  *)
(* is alive: no poll, no cancel and no wake, however late or stale,        *)
(* reaches a future that was freed, or another in its place.               *)
RegisteredIsLive ==
  \A h \in Handle : pendingFutures[h] # NoCall =>
    future[pendingFutures[h]] = "live" /\ handle[pendingFutures[h]] = h

(* A call is cancelled only if its own caller asked, although handles are  *)
(* used again and a signal may be aborted when its call is long over.      *)
CancelledAsAsked == \A c \in Call : outcome[c] = "cancelled" => asked[c] # "no"

(* A future is alive as long as somebody will settle its call, and not     *)
(* longer, and the registry keeps no request longer than its future; a     *)
(* module that failed keeps what it had.                                   *)
Held(c) ==
  \/ \E i \in 1..Len(stack) : stack[i].call = c
  \/ \E h \in Handle : pendingFutures[h] = c
  \/ \E i \in 1..Len(jobs) : jobs[i] = <<"complete", c>>

FreedWhenSettled ==
  /\ \A c \in Call : future[c] = "live" => failure \/ Held(c)
  /\ \A i \in Id : Has(i) => \E c \in Call : request[c] = pending_requests[i].of

(* The numbers have not gone round: no request has taken another's place.  *)
Distinct == made <= MaxId

(* The answer that reaches a request is its own, or one that is a whole    *)
(* round of numbers away; in particular not that of a request whose future *)
(* was dropped.                                                            *)
AnswersItsOwn ==
  \A c \in Call : request[c] # 0 =>
    LET a == Completion(idOf[request[c]])
    IN  a \in {0, request[c]} \/ a >= request[c] + MaxId \/ request[c] >= a + MaxId

(* An answer is heard: the future is polled again and takes it, unless the *)
(* call is cancelled or the module fails.                                  *)
AnswersAreHeard ==
  \A c \in Call, n \in Request :
    (Distinct /\ request[c] = n /\ Completion(idOf[n]) = n)
      ~> (request[c] # n \/ failure \/ ~Distinct)

(* A caller that asks to cancel hears of it, or has its result: also when  *)
(* the signal is aborted inside the very poll that it is to end.           *)
CancelEnds == \A c \in Call : asked[c] # "no" ~> (outcome[c] # "none")
=============================================================================
