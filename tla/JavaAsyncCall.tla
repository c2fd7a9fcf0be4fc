---------------------------- MODULE JavaAsyncCall ----------------------------
(***************************************************************************)
(* BoltFfiAsync.call (boltffi_backend/templates/target/java/runtime/       *)
(* async.java) driving one RustFuture without a lock: the drive loop, on   *)
(* the caller's thread and then on a resume executor, the JNI callback     *)
(* `resume`, and any thread that cancels the CompletableFuture.  They meet *)
(* in the operation's phase, in the delivery of the poll's signal, and in  *)
(* `active`; a step is one access of one of them.                          *)
(*                                                                         *)
(* One drive loop is alive at a time: an asynchronous resume starts one    *)
(* only after the loop that parked the poll has returned.  The native      *)
(* calls do not throw.                                                     *)
(***************************************************************************)
EXTENDS RustFuture

CONSTANT Canceller  \* threads that call cancel() on the result, once each

ASSUME CancellerAssumption == "drive" \notin Canceller
ASSUME NullAssumption == "null" \notin Poll

VARIABLES
  opPhase,        \* Operation.phase
  activePoll,     \* Operation.active, "null" or a poll
  delivery,       \* PollSignal.delivery of each poll
  continuations,  \* CONTINUATIONS
  callback,       \* where `resume` is for each poll
  awaited,        \* the poll whose whenComplete was registered last
  frame,          \* the drive loop and the callers of cancel()
  returned,       \* the first drive() has returned, and call() with the result
  outcome         \* how the CompletableFuture was completed first

javaVars == <<opPhase, activePoll, delivery, continuations, callback, awaited, frame, returned, outcome>>
jVars == <<vars, javaVars>>

Actor == {"drive"} \cup Canceller
Frame(l) == [at |-> l, poll |-> "null", seen |-> "ACTIVE"]

Label == {"loop", "arm", "poll", "polling", "park", "idle", "resumed", "refused",
          "releaseCancel", "releaseLoop", "releaseIdle", "refusedCancel", "refusedReady",
          "joinedReady", "lateReady", "joinedPending", "joinedRearm", "stopped",
          "asyncReady", "asyncLate", "asyncPending", "asyncRearm",
          "out", "read", "claimActive", "active", "signal", "defer", "claimWaiting",
          "started", "request", "recheck", "updated", "giveBack", "settle", "done",
          "complete", "completing", "cancel", "free", "drop"}

JTypeOK ==
  /\ opPhase \in {"ACTIVE", "POLLING", "WAITING", "CANCEL_REQUESTED", "READY", "OWNED"}
  /\ activePoll \in Poll \cup {"null"}
  /\ delivery \in [Poll -> {"WAITING", "PENDING", "READY", "CANCELLED"}]
  /\ continuations \subseteq Poll
  /\ callback \in [Poll -> {"no", "mark", "finish", "ignored", "done"}]
  /\ awaited \in Poll \cup {"null"}
  /\ \A a \in Actor : frame[a].at \in Label /\ frame[a].poll \in Poll \cup {"null"}
  /\ returned \in BOOLEAN
  /\ outcome \in {"none", "ok", "failed", "cancelled", "internal"}

JInit ==
  /\ Init
  /\ opPhase = "ACTIVE"
  /\ activePoll = "null"
  /\ delivery = [p \in Poll |-> "WAITING"]
  /\ continuations = {}
  /\ callback = [p \in Poll |-> "no"]
  /\ awaited = "null"
  /\ frame = [a \in Actor |-> Frame(IF a = "drive" THEN "loop" ELSE "out")]
  /\ returned = FALSE
  /\ outcome = "none"

At(a, l) == frame[a].at = l

(* The loop is "idle" where drive() has returned.                          *)
Go(a, l) ==
  /\ frame' = [frame EXCEPT ![a].at = l]
  /\ returned' = (returned \/ (a = "drive" /\ l = "idle"))

My(a) == frame[a].poll

(* compareAndSet on the phase: to `new`, going to `yes`, or to `no`.       *)
Cas(a, old, new, yes, no) ==
  \/ opPhase \in old /\ opPhase' = new /\ Go(a, yes)
  \/ opPhase \notin old /\ UNCHANGED opPhase /\ Go(a, no)

Complete(o) == outcome' = IF outcome = "none" THEN o ELSE outcome

-----------------------------------------------------------------------------
(* resume, called back from Rust with what the poll's continuation heard.  *)

Finished(p) == callback[p] = "done"
MoveCallback(p, l) == callback' = [callback EXCEPT ![p] = l]

(* get and begin: nobody removes the signal but to cancel its delivery.    *)
CallbackBegins(p) ==
  /\ Heard(p) # "none" /\ callback[p] = "no"
  /\ IF p \in continuations /\ delivery[p] = "WAITING"
       THEN /\ delivery' = [delivery EXCEPT ![p] = IF Heard(p) = "Ready" THEN "READY" ELSE "PENDING"]
            /\ MoveCallback(p, IF Heard(p) = "Ready" THEN "mark" ELSE "finish")
       ELSE MoveCallback(p, "ignored") /\ UNCHANGED delivery
  /\ UNCHANGED <<vars, opPhase, activePoll, continuations, awaited, frame, returned, outcome>>

MarkReady(p) ==
  /\ callback[p] = "mark"
  /\ opPhase' = IF opPhase \in {"CANCEL_REQUESTED", "READY", "OWNED"} THEN opPhase ELSE "READY"
  /\ MoveCallback(p, "finish")
  /\ UNCHANGED <<vars, activePoll, delivery, continuations, awaited, frame, returned, outcome>>

(* finish, which completes the signal's future, and the removal: nobody    *)
(* looks for a delivered signal in the map.                                *)
CallbackFinishes(p) ==
  /\ callback[p] = "finish"
  /\ continuations' = continuations \ {p}
  /\ MoveCallback(p, "done")
  /\ UNCHANGED <<vars, opPhase, activePoll, delivery, awaited, frame, returned, outcome>>

-----------------------------------------------------------------------------
(* The drive loop.                                                         *)

LoopClaims ==
  /\ At("drive", "loop")
  /\ Cas("drive", {"ACTIVE"}, "POLLING", "arm", "idle")
  /\ UNCHANGED <<vars, activePoll, delivery, continuations, callback, awaited, outcome>>

(* A new signal, known to the callback before it can be called.  Which     *)
(* name a new poll has makes no difference.                                *)
LoopArms(p) ==
  /\ At("drive", "arm")
  /\ ~Called(p) /\ p = CHOOSE q \in Poll : ~Called(q)
  /\ continuations' = continuations \cup {p}
  /\ activePoll' = p
  /\ frame' = [frame EXCEPT !["drive"] = [@ EXCEPT !.at = "poll", !.poll = p]]
  /\ UNCHANGED <<vars, opPhase, delivery, callback, awaited, returned, outcome>>

LoopPolls ==
  /\ At("drive", "poll")
  /\ PollCall(My("drive"))
  /\ Go("drive", "polling")
  /\ UNCHANGED <<opPhase, activePoll, delivery, continuations, callback, awaited, outcome>>

(* A continuation that the poll itself ran has returned before the poll.   *)
LoopPolled ==
  LET p == My("drive") IN
  /\ At("drive", "polling")
  /\ \/ at[p] = "parked"
     \/ at[p] \in {"answered", "taking", "refused"} /\ callback[p] \in {"done", "ignored"}
  /\ Go("drive", IF ~Finished(p) THEN "park"
                 ELSE IF delivery[p] = "READY" THEN "joinedReady" ELSE "joinedPending")
  /\ UNCHANGED <<vars, opPhase, activePoll, delivery, continuations, callback, awaited, outcome>>

(* POLLING to WAITING, and whenComplete, which runs also when the signal   *)
(* has finished before.                                                    *)
LoopParks ==
  /\ At("drive", "park")
  /\ Cas("drive", {"POLLING"}, "WAITING", "idle", "refused")
  /\ awaited' = IF opPhase = "POLLING" THEN My("drive") ELSE awaited
  /\ UNCHANGED <<vars, activePoll, delivery, continuations, callback, outcome>>

(* finishAsyncPoll, on a resume thread.                                    *)
AsyncStarts ==
  /\ At("drive", "idle")
  /\ awaited # "null" /\ Finished(awaited)
  /\ awaited' = "null"
  /\ Go("drive", "resumed")
  /\ UNCHANGED <<vars, opPhase, activePoll, delivery, continuations, callback, outcome>>

(* release(currentPoll), and where the loop goes on from it.               *)
AfterRelease(l) ==
  CASE l = "refused"       -> "refusedCancel"
    [] l = "resumed"       -> IF delivery[My("drive")] = "READY" THEN "asyncReady" ELSE "asyncPending"
    [] l = "releaseCancel" -> "cancel"
    [] l = "releaseLoop"   -> "loop"
    [] l = "releaseIdle"   -> "idle"

LoopReleases ==
  /\ frame["drive"].at \in {"refused", "resumed", "releaseCancel", "releaseLoop", "releaseIdle"}
  /\ activePoll' = IF activePoll = My("drive") THEN "null" ELSE activePoll
  /\ Go("drive", AfterRelease(frame["drive"].at))
  /\ UNCHANGED <<vars, opPhase, delivery, continuations, callback, awaited, outcome>>

(* claimReady, in its three places, and where the loop goes without it.    *)
LoopClaimsReady ==
  LET Otherwise == [joinedReady |-> "lateReady", asyncReady |-> "asyncLate", refusedReady |-> "idle"] IN
  /\ frame["drive"].at \in DOMAIN Otherwise
  /\ Cas("drive", {"READY"}, "OWNED", "complete", Otherwise[frame["drive"].at])
  /\ UNCHANGED <<vars, activePoll, delivery, continuations, callback, awaited, outcome>>

(* claimDeferredCancellation; finishJoinedPending asks twice in a row, and *)
(* once more when it could not rearm.                                      *)
LoopClaimsCancelled ==
  LET Otherwise == [refusedCancel |-> "refusedReady", asyncLate |-> "idle", asyncPending |-> "asyncRearm",
                    lateReady |-> "releaseIdle", joinedPending |-> "joinedRearm", stopped |-> "releaseIdle"]
      Joined == {"lateReady", "joinedPending", "stopped"} IN
  /\ frame["drive"].at \in DOMAIN Otherwise
  /\ Cas("drive", {"CANCEL_REQUESTED"}, "OWNED",
         IF frame["drive"].at \in Joined THEN "releaseCancel" ELSE "cancel",
         Otherwise[frame["drive"].at])
  /\ UNCHANGED <<vars, activePoll, delivery, continuations, callback, awaited, outcome>>

LoopRearms ==
  /\ \/ At("drive", "asyncRearm")  /\ Cas("drive", {"WAITING", "POLLING"}, "ACTIVE", "loop", "idle")
     \/ At("drive", "joinedRearm") /\ Cas("drive", {"WAITING", "POLLING"}, "ACTIVE", "releaseLoop", "stopped")
  /\ UNCHANGED <<vars, activePoll, delivery, continuations, callback, awaited, outcome>>

-----------------------------------------------------------------------------
(* requestCancellation, by a caller of cancel(): one that has the result,  *)
(* which call() returns when the first drive() has returned.               *)

CancelReads(c) ==
  /\ (At(c, "out") /\ returned) \/ At(c, "read")
  /\ frame' = [frame EXCEPT ![c] =
       [@ EXCEPT !.seen = opPhase,
                 !.at = CASE opPhase \in {"OWNED", "READY"}     -> "done"
                          [] opPhase = "CANCEL_REQUESTED"       -> "settle"
                          [] opPhase = "ACTIVE"                 -> "claimActive"
                          [] opPhase \in {"WAITING", "POLLING"} -> "active"]]
  /\ UNCHANGED <<vars, opPhase, activePoll, delivery, continuations, callback, awaited, returned, outcome>>

(* Mutant: sets the phase without comparing it.                            *)
CancelClaimsActiveBlind(c) ==
  /\ At(c, "claimActive")
  /\ opPhase' = "OWNED"
  /\ Go(c, "cancel")
  /\ UNCHANGED <<vars, activePoll, delivery, continuations, callback, awaited, outcome>>

CancelClaimsActive(c) ==
  /\ At(c, "claimActive")
  /\ Cas(c, {"ACTIVE"}, "OWNED", "cancel", "read")
  /\ UNCHANGED <<vars, activePoll, delivery, continuations, callback, awaited, outcome>>

CancelReadsActive(c) ==
  /\ At(c, "active")
  /\ frame' = [frame EXCEPT ![c] =
       [@ EXCEPT !.poll = activePoll,
                 !.at = CASE activePoll = "null"    -> "read"
                          [] frame[c].seen = "WAITING" /\ activePoll # "null" -> "signal"
                          [] OTHER                  -> "started"]]
  /\ UNCHANGED <<vars, opPhase, activePoll, delivery, continuations, callback, awaited, returned, outcome>>

(* signal.cancel(): the delivery is taken unless the callback has it.      *)
CancelTakesDelivery(c) ==
  LET d == delivery[My(c)] IN
  /\ At(c, "signal")
  /\ delivery' = [delivery EXCEPT ![My(c)] = IF d = "WAITING" THEN "CANCELLED" ELSE d]
  /\ Go(c, CASE d = "READY"                 -> "done"
             [] d = "PENDING"               -> "defer"
             [] d \in {"WAITING", "CANCELLED"} -> "claimWaiting")
  /\ UNCHANGED <<vars, opPhase, activePoll, continuations, callback, awaited, outcome>>

CancelDefers(c) ==
  /\ \/ At(c, "defer")   /\ Cas(c, {"WAITING"}, "CANCEL_REQUESTED", "settle", "read")
     \/ At(c, "request") /\ Cas(c, {"POLLING"}, "CANCEL_REQUESTED", "recheck", "read")
  /\ UNCHANGED <<vars, activePoll, delivery, continuations, callback, awaited, outcome>>

(* Mutant: a poll that is under way may be taken too.                      *)
CancelClaimsPolling(c) ==
  /\ At(c, "claimWaiting")
  /\ Cas(c, {"WAITING", "POLLING"}, "OWNED", "cancel", "read")
  /\ UNCHANGED <<vars, activePoll, delivery, continuations, callback, awaited, outcome>>

(* Release and removal go with the claim: the signal is cancelled and the  *)
(* phase OWNED, so neither is looked at for more than its absence.         *)
CancelClaimsWaiting(c) ==
  /\ At(c, "claimWaiting")
  /\ Cas(c, {"WAITING"}, "OWNED", "cancel", "read")
  /\ IF opPhase = "WAITING"
       THEN /\ activePoll' = IF activePoll = My(c) THEN "null" ELSE activePoll
            /\ continuations' = continuations \ {My(c)}
       ELSE UNCHANGED <<activePoll, continuations>>
  /\ UNCHANGED <<vars, delivery, callback, awaited, outcome>>

(* readyStarted of the poll under way, before the request and after it.    *)
CancelReadsStarted(c) ==
  /\ \/ At(c, "started") /\ Go(c, IF delivery[My(c)] = "READY" THEN "done" ELSE "request")
     \/ At(c, "updated") /\ Go(c, IF delivery[My(c)] = "READY" THEN "giveBack" ELSE "settle")
  /\ UNCHANGED <<vars, opPhase, activePoll, delivery, continuations, callback, awaited, outcome>>

CancelRereadsActive(c) ==
  /\ At(c, "recheck")
  /\ frame' = [frame EXCEPT ![c] = [@ EXCEPT !.poll = activePoll,
                                             !.at = IF activePoll = "null" THEN "settle" ELSE "updated"]]
  /\ UNCHANGED <<vars, opPhase, activePoll, delivery, continuations, callback, awaited, returned, outcome>>

(* The poll turned out Ready: the request is taken back.                   *)
CancelGivesBack(c) ==
  /\ At(c, "giveBack")
  /\ Cas(c, {"CANCEL_REQUESTED"}, "READY", "done", "read")
  /\ UNCHANGED <<vars, activePoll, delivery, continuations, callback, awaited, outcome>>

-----------------------------------------------------------------------------
(* Whoever moved the phase to OWNED ends the call: finishReady by the      *)
(* loop, cancelAndFree by either, which super.cancel follows.  The first   *)
(* completion of the result counts, and the loop's release comes last.     *)

OwnerCompletes ==
  /\ \/ /\ At("drive", "complete")
        /\ CompleteLocks
        /\ Go("drive", "completing")
        /\ UNCHANGED outcome
     \/ /\ At("drive", "completing") /\ taking = "done"
        /\ Complete(result)
        /\ Go("drive", "free")
        /\ UNCHANGED vars
  /\ UNCHANGED <<opPhase, activePoll, delivery, continuations, callback, awaited>>

OwnerCancels(a) ==
  /\ At(a, "cancel")
  /\ Cancel
  /\ Go(a, "free")
  /\ UNCHANGED <<opPhase, activePoll, delivery, continuations, callback, awaited, outcome>>

OwnerFrees(a) ==
  /\ \/ At(a, "free") /\ CancelReturned /\ FreeMarks /\ Go(a, "drop") /\ UNCHANGED outcome
     \/ /\ At(a, "drop") /\ FreeDrops
        /\ Complete("cancelled")
        /\ Go(a, IF a = "drive" THEN "releaseIdle" ELSE "done")
  /\ UNCHANGED <<opPhase, activePoll, delivery, continuations, callback, awaited>>

(* A cancel that was deferred to the loop, or came second.                 *)
Settles(c) ==
  /\ At(c, "settle")
  /\ Complete("cancelled")
  /\ Go(c, "done")
  /\ UNCHANGED <<vars, opPhase, activePoll, delivery, continuations, callback, awaited>>

Callbacks ==
  \E p \in Poll :
    CallbackBegins(p) \/ MarkReady(p) \/ CallbackFinishes(p)

DriveLoop ==
  \/ LoopClaims \/ (\E p \in Poll : LoopArms(p)) \/ LoopPolls \/ LoopPolled \/ LoopParks
  \/ AsyncStarts \/ LoopReleases \/ LoopClaimsReady \/ LoopClaimsCancelled \/ LoopRearms
  \/ OwnerCompletes \/ OwnerCancels("drive") \/ OwnerFrees("drive")

RunCancel(c) ==
  \/ At(c, "read") /\ CancelReads(c)
  \/ CancelClaimsActive(c) \/ CancelReadsActive(c)
  \/ CancelTakesDelivery(c) \/ CancelDefers(c) \/ CancelClaimsWaiting(c)
  \/ CancelReadsStarted(c) \/ CancelRereadsActive(c)
  \/ CancelGivesBack(c) \/ OwnerCancels(c) \/ OwnerFrees(c) \/ Settles(c)

JNext ==
  \/ (Library \/ InnerReady \/ SpuriousWake) /\ UNCHANGED javaVars
  \/ Callbacks
  \/ DriveLoop
  \/ \E c \in Canceller : CancelReads(c) \/ RunCancel(c)

(* Threads run on, the executor runs what it was given; nobody must call   *)
(* cancel(), and the Rust future may never become ready.                   *)
JSpec ==
  /\ JInit /\ [][JNext]_jVars
  /\ WF_jVars(Library /\ UNCHANGED javaVars)
  /\ WF_jVars(Callbacks)
  /\ WF_jVars(DriveLoop)
  /\ \A c \in Canceller : WF_jVars(RunCancel(c))

-----------------------------------------------------------------------------
Owns(a) == frame[a].at \in {"complete", "completing", "cancel", "free", "drop"}
CancelCalled == \E c \in Canceller : ~At(c, "out")

(* However the drive loop, the callback and several cancels meet, one of   *)
(* them at most ends the call, and only while the phase is OWNED: the      *)
(* handle is a raw pointer that free consumes.                             *)
JavaOneOwner ==
  /\ \A a, b \in Actor : Owns(a) /\ Owns(b) => a = b
  /\ \A a \in Actor : Owns(a) => opPhase = "OWNED"
  /\ \A a \in Actor : Owns(a) /\ frame[a].at # "drop" => freed = "no"

(* The CompletableFuture is completed and the Rust future freed, once the  *)
(* latter is ready.                                                        *)
JavaCallEnds == (inner = "ready") ~> (outcome # "none" /\ freed = "dropped")
=============================================================================
