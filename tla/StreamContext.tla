---------------------------- MODULE StreamContext ----------------------------
(***************************************************************************)
(* The context that reads one subscription for a host language, in its     *)
(* three versions: BoltFFIStreamContext (templates/target/swift/           *)
(* stream.swift), BoltFfiStreamContext (kotlin/runtime/stream.kt) and      *)
(* BoltFfiStream.Context (java/runtime/stream.java).  A chain of polls,    *)
(* each made when the one before was handled, and a thread that may cancel *)
(* the stream at any time once start() returned, are kept apart by two     *)
(* words: lifecycle, 0 open, 1 unsubscribing, 2 unsubscribed, 3 freed, and *)
(* processing, 1 while the ring is drained.                                *)
(*                                                                         *)
(* In Swift and Java a parked continuation is handled on the thread of the *)
(* push or unsubscribe that runs it, which goes on afterwards.  In Kotlin  *)
(* it resumes a coroutine, and in the Flow mode a cancel of the collector  *)
(* cancels that coroutine besides.  Reading a batch does not fail.         *)
(***************************************************************************)
EXTENDS EventSubscription

CONSTANT Hosts  \* the languages to look at, and "any" of StreamDrivers

ASSUME HostsAssumption == Hosts \subseteq {"any", "swift", "kotlin", "java"}

VARIABLES
  host,       \* the language
  lifecycle, processing,
  chain,      \* where the chain of polls is
  current,    \* the poll it waits for
  told,       \* the result it handles
  again,      \* the answer of Swift's processPoll: poll again
  under,      \* the call whose thread the callback runs on
  term,       \* where each thread is in requestTermination or finalizeIfIdle
  finished    \* finish() was called

contextVars == <<host, lifecycle, processing, chain, current, told, again, under, term, finished>>
sVars == <<vars, contextVars>>

Thread == {"chain", "canceller"}

STypeOK ==
  /\ TypeOK
  /\ host \in Hosts
  /\ lifecycle \in 0..3
  /\ processing \in 0..1
  /\ chain \in {"register", "poll", "polling", "handle", "process", "drain", "popping",
                "closing", "recheck", "release", "abandoned", "released", "stopped"}
  /\ current \in Poll
  /\ told \in {"none", "Ready", "Closed"}
  /\ again \in BOOLEAN
  /\ under \in Closer \cup Producer \cup {"poll"}
  /\ term \in [Thread -> {"starting", "out", "request", "unsubscribe", "unsubscribing", "idleCheck",
                          "claimFree", "free", "freeing"}]
  /\ finished \in BOOLEAN

Starting == [x \in Thread |-> IF x = "canceller" THEN "starting" ELSE "out"]

SInit ==
  /\ Init
  /\ host \in Hosts
  /\ lifecycle = 0 /\ processing = 0
  /\ chain = "register"
  /\ current \in Poll
  /\ told = "none"
  /\ again = FALSE
  /\ under = "poll"
  /\ term = Starting
  /\ finished = FALSE

Goto(x, l) == term' = [term EXCEPT ![x] = l]

At(l) == chain = l /\ term["chain"] = "out"
Chain(l) == chain' = l

-----------------------------------------------------------------------------
(* requestTermination and finalizeIfIdle, by either thread.                *)

TermClaims(x) ==
  /\ term[x] = "request"
  /\ IF lifecycle = 0 THEN lifecycle' = 1 /\ Goto(x, "unsubscribe")
                      ELSE UNCHANGED lifecycle /\ Goto(x, "idleCheck")
  /\ UNCHANGED <<vars, processing, chain, current, told, again, under, host, finished>>

TermUnsubscribes(x) ==
  /\ term[x] = "unsubscribe"
  /\ UnsubscribeMarks("host")
  /\ Goto(x, "unsubscribing")
  /\ UNCHANGED <<lifecycle, processing, chain, current, told, again, under, host, finished>>

TermMarks(x) ==
  /\ term[x] = "unsubscribing"
  /\ closing["host"] = "done"
  /\ lifecycle' = IF lifecycle = 1 THEN 2 ELSE lifecycle
  /\ Goto(x, "idleCheck")
  /\ UNCHANGED <<vars, processing, chain, current, told, again, under, host, finished>>

FinalChecks(x) ==
  /\ term[x] = "idleCheck"
  /\ Goto(x, IF processing = 0 THEN "claimFree" ELSE "out")
  /\ UNCHANGED <<vars, lifecycle, processing, chain, current, told, again, under, host, finished>>

(* Mutant: reads the lifecycle and writes it in two steps.                 *)
FinalClaimsTwice(x) ==
  /\ term[x] = "claimFree"
  /\ IF lifecycle \in {2, 3} THEN lifecycle' = 3 /\ Goto(x, "free")
                             ELSE UNCHANGED lifecycle /\ Goto(x, "out")
  /\ UNCHANGED <<vars, processing, chain, current, told, again, under, host, finished>>

FinalClaims(x) ==
  /\ term[x] = "claimFree"
  /\ IF lifecycle = 2 THEN lifecycle' = 3 /\ Goto(x, "free")
                      ELSE UNCHANGED lifecycle /\ Goto(x, "out")
  /\ UNCHANGED <<vars, processing, chain, current, told, again, under, host, finished>>

FinalFrees(x) ==
  /\ term[x] = "free"
  /\ Free
  /\ Goto(x, "freeing")
  /\ UNCHANGED <<lifecycle, processing, chain, current, told, again, under, host, finished>>

(* free returns, having run Drop if its reference was the last.            *)
FinalFinishes(x) ==
  /\ term[x] = "freeing"
  /\ dropped \/ strong # {}
  /\ finished' = TRUE
  /\ Goto(x, "out")
  /\ UNCHANGED <<vars, lifecycle, processing, chain, current, told, again, under, host>>

RunTerm(x) ==
  \/ TermClaims(x) \/ TermUnsubscribes(x) \/ TermMarks(x)
  \/ FinalChecks(x) \/ FinalClaims(x) \/ FinalFrees(x) \/ FinalFinishes(x)

(* start() runs inside the closure that builds the stream, or before the   *)
(* subscription is returned to its user: nobody can cancel while it does.  *)
(* In Kotlin it launches a coroutine.  In Swift and Java it makes the      *)
(* first poll, and returns with the continuation parked or, if that ran at *)
(* once, with the result handled: Swift polls again in a Task, Java in the *)
(* same loop.                                                              *)
StartIsOver ==
  \/ host = "kotlin" /\ chain # "register"
  \/ chain = "polling" /\ at[current] = "parked"
  \/ host = "swift" /\ At("register") /\ told # "none"
  \/ At("stopped")

StartReturns ==
  /\ term["canceller"] = "starting"
  /\ StartIsOver
  /\ Goto("canceller", "out")
  /\ UNCHANGED <<vars, lifecycle, processing, chain, current, told, again, under, host, finished>>

(* The stream's own end handler (onTermination, awaitClose), or cancel()   *)
(* of the callback mode.                                                   *)
Cancels ==
  /\ term["canceller"] = "out"
  /\ Goto("canceller", "request")
  /\ UNCHANGED <<vars, lifecycle, processing, chain, current, told, again, under, host, finished>>

-----------------------------------------------------------------------------
(* The chain of polls.                                                     *)

RegisterReads ==
  /\ At("register")
  /\ IF lifecycle = 0 THEN Chain("poll") /\ UNCHANGED term
                      ELSE Chain("stopped") /\ Goto("chain", "idleCheck")
  /\ UNCHANGED <<vars, lifecycle, processing, current, told, again, under, host, finished>>

RegisterPolls(p) ==
  /\ At("poll")
  /\ PollCall(p)
  /\ current' = p
  /\ Chain("polling")
  /\ UNCHANGED <<lifecycle, processing, told, again, under, term, host, finished>>

(* The call whose thread handles the result.  Swift's callback does all of *)
(* it.  Kotlin's resumes the coroutine that polled.  Java's completes a    *)
(* future, and if that comes first, drive() finds it complete.             *)
Handlers ==
  CASE host = "swift"  -> {by[current]}
    [] host = "kotlin" -> {"poll"}
    [] host = "java"   -> {"poll"} \cup {x \in Closer : x = by[current] /\ closing[x] = "telling"}
                                   \cup {x \in Producer : x = by[current] /\ push[x] = "leaving"}

CallbackRuns ==
  /\ At("polling")
  /\ Heard(current) # "none"
  /\ told' = Heard(current)
  /\ under' \in Handlers
  /\ Forget(current)
  /\ Chain("handle")
  /\ UNCHANGED <<ringVars, active, push, wait, closing, refVars, touched,
                 lifecycle, processing, current, again, term, host, finished>>

HandleClaims ==
  /\ At("handle")
  /\ IF processing = 0 THEN processing' = 1 /\ Chain("process") /\ UNCHANGED term
       ELSE /\ UNCHANGED processing
            /\ Chain("stopped")
            /\ IF host = "java" THEN UNCHANGED term ELSE Goto("chain", "idleCheck")
  /\ UNCHANGED <<vars, lifecycle, current, told, again, under, host, finished>>

(* Mutant: drains without looking at the lifecycle.                        *)
ProcessReadsNot ==
  /\ At("process")
  /\ again' = FALSE
  /\ Chain("drain")
  /\ UNCHANGED <<vars, lifecycle, processing, current, told, under, term, host, finished>>

ProcessReads ==
  /\ At("process")
  /\ again' = FALSE
  /\ Chain(IF lifecycle = 0 THEN "drain" ELSE "release")
  /\ UNCHANGED <<vars, lifecycle, processing, current, told, under, term, host, finished>>

(* readBatch, until it comes back empty.  Java looks at the lifecycle      *)
(* before each batch.  Swift ends the stream, or decides to poll again,    *)
(* while it still has processing.                                          *)
Drain ==
  /\ At("drain")
  /\ PopTakes
  /\ \/ held' # <<>> /\ Chain("popping") /\ UNCHANGED term
     \/ held' = <<>> /\ host # "swift" /\ Chain("release") /\ UNCHANGED term
     \/ held' = <<>> /\ host = "swift" /\ told = "Closed"
          /\ Chain("closing") /\ Goto("chain", "request")
     \/ held' = <<>> /\ host = "swift" /\ told = "Ready" /\ Chain("recheck") /\ UNCHANGED term
  /\ UNCHANGED <<lifecycle, processing, current, told, again, under, host, finished>>

Yield ==
  /\ At("popping")
  /\ PopReturns
  /\ Chain(IF host = "java" THEN "process" ELSE "drain")
  /\ UNCHANGED <<lifecycle, processing, current, told, again, under, term, host, finished>>

ProcessEnds ==
  /\ At("closing") \/ At("recheck")
  /\ again' = (chain = "recheck" /\ lifecycle = 0)
  /\ Chain("release")
  /\ UNCHANGED <<vars, lifecycle, processing, current, told, under, term, host, finished>>

(* Mutant: nobody looks again when the callback is over.                   *)
HandleReleasesOnly ==
  /\ At("release") \/ At("abandoned")
  /\ processing' = 0
  /\ Chain(IF chain = "release" THEN "released" ELSE "stopped")
  /\ UNCHANGED <<vars, lifecycle, current, told, again, under, term, host, finished>>

HandleReleases ==
  /\ At("release") \/ At("abandoned")
  /\ processing' = 0
  /\ Chain(IF chain = "release" THEN "released" ELSE "stopped")
  /\ Goto("chain", "idleCheck")
  /\ UNCHANGED <<vars, lifecycle, current, told, again, under, host, finished>>

(* What follows the handling.  Swift polls again as it decided, in a Task; *)
(* Kotlin and Java end the stream, or look at the lifecycle once more.     *)
HandleReturns ==
  /\ At("released")
  /\ IF host # "swift" /\ told = "Closed"
       THEN Chain("stopped") /\ Goto("chain", "request") /\ UNCHANGED under
       ELSE /\ Chain(IF (IF host = "swift" THEN again ELSE lifecycle = 0)
                      THEN "register" ELSE "stopped")
            /\ UNCHANGED term
            /\ under' = "poll"
  /\ UNCHANGED <<vars, lifecycle, processing, current, told, again, host, finished>>

(* Java's callback is over when the request it ends with is.               *)
CallbackEnds ==
  /\ At("stopped")
  /\ under # "poll"
  /\ under' = "poll"
  /\ UNCHANGED <<vars, lifecycle, processing, chain, current, told, again, term, host, finished>>

(* A Kotlin collector that is cancelled takes its coroutine along: before  *)
(* it polls, while it is suspended, or in a send to the channel.           *)
Abandons ==
  /\ host = "kotlin"
  /\ term["canceller"] \notin {"starting", "out"} \/ lifecycle # 0
  /\ \/ At("poll") /\ Chain("stopped") /\ UNCHANGED vars
     \/ At("polling") /\ ~InsidePoll(current) /\ Chain("stopped") /\ UNCHANGED vars
     \/ At("popping") /\ PopReturns /\ Chain("abandoned")
  /\ UNCHANGED <<lifecycle, processing, current, told, again, under, term, host, finished>>

RunChain ==
  \/ RegisterReads \/ (\E p \in Poll : RegisterPolls(p)) \/ CallbackRuns
  \/ HandleClaims \/ ProcessReads \/ Drain \/ Yield \/ ProcessEnds
  \/ HandleReleases \/ HandleReturns \/ CallbackEnds \/ Abandons

-----------------------------------------------------------------------------
(* A call that runs the callback does not return before it does.           *)
CallsBack(x) ==
  \/ under = x
  \/ host = "swift" /\ \E p \in Poll : by[p] = x /\ phase[p] = "delivered"

RustSteps ==
  /\ RustSide
  /\ \A t \in Producer : CallsBack(t) /\ push[t] = "leaving" => push'[t] = "leaving"
  /\ \A x \in Closer : CallsBack(x) /\ closing[x] = "telling" => closing'[x] = "telling"
  /\ UNCHANGED contextVars

SNext ==
  \/ RustSteps
  \/ RunChain
  \/ \E x \in Thread : RunTerm(x)
  \/ StartReturns
  \/ Cancels

(* Tasks and coroutines run, and callbacks return.                         *)
SSpec ==
  /\ SInit /\ [][SNext]_sVars
  /\ LibraryFairness
  /\ WF_sVars(RunChain)
  /\ \A x \in Thread : WF_sVars(RunTerm(x))

-----------------------------------------------------------------------------
(* No batch is popped from a subscription that the canceller freed: each   *)
(* side writes its byte before it reads the other's.                       *)
PopsWhatItHolds == chain \in {"drain", "popping"} /\ term["chain"] = "out" => "host" \in strong

(* However the two threads meet in finalizeIfIdle, one of them frees.      *)
FreesOnce == [][(\E x \in Thread : FinalFrees(x)) => "host" \in strong]_sVars
=============================================================================
