--------------------------- MODULE CSharpAsyncCall ---------------------------
(***************************************************************************)
(* BoltFFIAsync.CallAsync (boltffi_backend/templates/target/csharp/        *)
(* async.cs) driving one RustFuture: an async method that awaits one task  *)
(* per poll, the dictionary both the callback from Rust and the hook of    *)
(* the cancellation token remove from, and the RustFutureOwner that both   *)
(* the method and the token's other hook cancel through.                   *)
(*                                                                         *)
(* Of .NET it models what the code relies on: a hook registered with a     *)
(* token that was cancelled runs in Register, any other at most once and   *)
(* on the cancelling thread; Dispose of a registration waits for a hook    *)
(* that is running; a task completes without running its awaiter.          *)
(***************************************************************************)
EXTENDS RustFuture

CONSTANT NoTask
ASSUME NoTaskAssumption == NoTask \notin Poll

VARIABLES
  method,          \* CallAsync: where it is
  pollTask,        \* the poll it awaits
  Continuations,   \* the dictionary
  pollResult,      \* what the awaited task was completed with
  token,           \* "active" or "cancelled"
  hooks,           \* registered with the token: "owner" and "poll"
  hook,            \* the one the cancelling thread is running
  ownerCancelled   \* RustFutureOwner.cancelled; `released` is `freed`

csharpVars == <<method, pollTask, Continuations, pollResult, token, hooks, hook, ownerCancelled>>
cVars == <<vars, csharpVars>>

CTypeOK ==
  /\ TypeOK
  /\ method \in {"register", "check", "poll", "polling", "hook", "await", "told", "claim",
                 "complete", "completing", "catch", "finally", "release", "releasing",
                 "returned", "thrown"}
  /\ pollTask \in Poll \cup {NoTask}
  /\ Continuations \in SUBSET Poll
  /\ pollResult \in {"none", "MaybeReady", "Ready", "cancelled"}
  /\ token \in {"active", "cancelled"}
  /\ hooks \in SUBSET {"owner", "poll"}
  /\ hook \in {"none", "owner", "poll"}
  /\ ownerCancelled \in BOOLEAN

CInit ==
  /\ Init
  /\ method = "register"
  /\ pollTask = NoTask
  /\ Continuations = {}
  /\ pollResult = "none"
  /\ token = "active"
  /\ hooks = {}
  /\ hook = "none"
  /\ ownerCancelled = FALSE

-----------------------------------------------------------------------------
(* What the hooks do, on whichever thread they run.                        *)

(* RustFutureOwner.Cancel, under its gate: not twice, and not once         *)
(* Release has taken the handle.                                           *)
OwnerCancel ==
  IF ownerCancelled \/ freed # "no"
    THEN UNCHANGED <<vars, ownerCancelled>>
    ELSE Cancel /\ ownerCancelled' = TRUE

(* Mutant: the hook completes the task and leaves the entry.               *)
CompletesLeaving(p, r) ==
  /\ Continuations' = IF r = "cancelled" THEN Continuations ELSE Continuations \ {p}
  /\ pollResult' = IF p \in Continuations THEN r ELSE pollResult

(* TryRemove decides between the hook and the callback; who removes the    *)
(* continuation completes its task.                                        *)
Completes(p, r) ==
  /\ Continuations' = Continuations \ {p}
  /\ pollResult' = IF p \in Continuations THEN r ELSE pollResult

(* OnFutureContinuation, called back from Rust.                            *)
CCallback(p) ==
  /\ Heard(p) # "none" /\ p \in Continuations
  /\ Completes(p, Heard(p))
  /\ UNCHANGED <<vars, method, pollTask, token, hooks, hook, ownerCancelled>>

-----------------------------------------------------------------------------
(* The method.                                                             *)

CRegisters ==
  /\ method = "register"
  /\ \/ token = "active" /\ hooks' = hooks \cup {"owner"} /\ UNCHANGED <<vars, ownerCancelled>>
     \/ token = "cancelled" /\ OwnerCancel /\ UNCHANGED hooks
  /\ method' = "check"
  /\ UNCHANGED <<pollTask, Continuations, pollResult, token, hook>>

(* ThrowIfCancellationRequested, before the loop.                          *)
CChecks ==
  /\ method = "check"
  /\ method' = IF token = "cancelled" THEN "catch" ELSE "poll"
  /\ UNCHANGED <<vars, pollTask, Continuations, pollResult, token, hooks, hook, ownerCancelled>>

(* RegisterContinuation, then the native poll.  Which name a new poll has  *)
(* makes no difference.                                                    *)
CPolls(p) ==
  /\ method = "poll"
  /\ p = CHOOSE q \in Poll : ~Called(q)
  /\ pollTask' = p
  /\ Continuations' = Continuations \cup {p}
  /\ pollResult' = "none"
  /\ PollCall(p)
  /\ method' = "polling"
  /\ UNCHANGED <<token, hooks, hook, ownerCancelled>>

CPolled ==
  /\ method = "polling"
  /\ PollReturned(pollTask)
  /\ method' = "hook"
  /\ UNCHANGED <<vars, pollTask, Continuations, pollResult, token, hooks, hook, ownerCancelled>>

CHooks ==
  /\ method = "hook"
  /\ \/ /\ token = "active"
        /\ hooks' = hooks \cup {"poll"}
        /\ UNCHANGED <<Continuations, pollResult>>
     \/ /\ token = "cancelled"
        /\ Completes(pollTask, "cancelled")
        /\ UNCHANGED hooks
  /\ method' = "await"
  /\ UNCHANGED <<vars, pollTask, token, hook, ownerCancelled>>

(* Dispose of a registration, by the method.                               *)
Disposes(h) == hook # h /\ hooks' = hooks \ {h}

(* AwaitPollAsync: the task is complete, its hook disposed of.             *)
CAwaits ==
  /\ method = "await" /\ pollResult # "none"
  /\ Disposes("poll")
  /\ method' = IF pollResult = "cancelled" THEN "catch" ELSE "told"
  /\ UNCHANGED <<vars, pollTask, Continuations, pollResult, token, hook, ownerCancelled>>

(* Mutant: takes any answer for Ready.                                     *)
CToldAlwaysReady ==
  /\ method = "told"
  /\ method' = IF token = "cancelled" THEN "catch" ELSE "claim"
  /\ UNCHANGED <<vars, pollTask, Continuations, pollResult, token, hooks, hook, ownerCancelled>>

(* A result counts only if the token was not cancelled meanwhile; to poll  *)
(* again the method first hops to the thread pool.                         *)
CTold ==
  /\ method = "told"
  /\ method' = CASE token = "cancelled"                           -> "catch"
                 [] token = "active" /\ pollResult = "Ready"      -> "claim"
                 [] token = "active" /\ pollResult = "MaybeReady" -> "poll"
  /\ UNCHANGED <<vars, pollTask, Continuations, pollResult, token, hooks, hook, ownerCancelled>>

(* The owner's hook is disposed of before complete, and again, for the     *)
(* arms that throw, before the release.                                    *)
CUnhooks ==
  /\ \/ method = "claim" /\ method' = "complete"
     \/ method = "finally" /\ method' = "release"
  /\ Disposes("owner")
  /\ UNCHANGED <<vars, pollTask, Continuations, pollResult, token, hook, ownerCancelled>>

(* A status CANCELLED is thrown as an OperationCanceledException, which is *)
(* caught; any other failure is not.                                       *)
CCompletes ==
  /\ \/ method = "complete" /\ CompleteLocks /\ method' = "completing"
     \/ /\ method = "completing" /\ taking = "done"
        /\ method' = IF result = "cancelled" THEN "catch" ELSE "finally"
        /\ UNCHANGED vars
  /\ UNCHANGED <<pollTask, Continuations, pollResult, token, hooks, hook, ownerCancelled>>

CCatches ==
  /\ method = "catch"
  /\ OwnerCancel
  /\ method' = "finally"
  /\ UNCHANGED <<pollTask, Continuations, pollResult, token, hooks, hook>>

(* Mutant: Release does not take the gate.                                 *)
CReleasesUngated ==
  /\ \/ method = "release" /\ FreeMarks /\ method' = "releasing"
     \/ /\ method = "releasing" /\ FreeDrops
        /\ method' = IF result = "ok" THEN "returned" ELSE "thrown"
  /\ UNCHANGED <<pollTask, Continuations, pollResult, token, hooks, hook, ownerCancelled>>

(* Release waits at the gate for a Cancel on the other thread to return.   *)
CReleases ==
  /\ \/ method = "release" /\ CancelReturned /\ FreeMarks /\ method' = "releasing"
     \/ /\ method = "releasing" /\ FreeDrops
        /\ method' = IF result = "ok" THEN "returned" ELSE "thrown"
  /\ UNCHANGED <<pollTask, Continuations, pollResult, token, hooks, hook, ownerCancelled>>

-----------------------------------------------------------------------------
(* The thread that cancels the token's source.                             *)

COver == method \in {"returned", "thrown"}

TokenCancelled ==
  /\ token = "active" /\ ~COver
  /\ token' = "cancelled"
  /\ UNCHANGED <<vars, method, pollTask, Continuations, pollResult, hooks, hook, ownerCancelled>>

SourceTakes(h) ==
  /\ token = "cancelled" /\ hook = "none"
  /\ h \in hooks
  /\ hook' = h
  /\ hooks' = hooks \ {h}
  /\ UNCHANGED <<vars, method, pollTask, Continuations, pollResult, token, ownerCancelled>>

HookRuns ==
  /\ \/ /\ hook = "owner"
        /\ OwnerCancel
        /\ UNCHANGED <<Continuations, pollResult>>
     \/ /\ hook = "poll"
        /\ Completes(pollTask, "cancelled")
        /\ UNCHANGED <<vars, ownerCancelled>>
  /\ hook' = "none"
  /\ UNCHANGED <<method, pollTask, token, hooks>>

Method ==
  \/ CRegisters \/ CChecks \/ (\E p \in Poll : CPolls(p)) \/ CPolled \/ CHooks
  \/ CAwaits \/ CTold \/ CUnhooks \/ CCompletes \/ CCatches \/ CReleases

Source == (\E h \in {"owner", "poll"} : SourceTakes(h)) \/ HookRuns

CNext ==
  \/ (Library \/ InnerReady \/ SpuriousWake) /\ UNCHANGED csharpVars
  \/ \E p \in Poll : CCallback(p)
  \/ Method
  \/ TokenCancelled
  \/ Source

(* Callbacks and threads run on, also the one that cancels the source once *)
(* it has begun; nobody must cancel, and the Rust future need never become *)
(* ready.                                                                  *)
CSpec ==
  /\ CInit /\ [][CNext]_cVars
  /\ WF_cVars(Library /\ UNCHANGED csharpVars)
  /\ WF_cVars(\E p \in Poll : CCallback(p))
  /\ WF_cVars(Method)
  /\ WF_cVars(Source)

-----------------------------------------------------------------------------
(* No continuation is left in the process-wide dictionary when the call is *)
(* over, whether the callback or the token's hook took it.                 *)
DictionaryEmptied == COver => Continuations = {}
=============================================================================
