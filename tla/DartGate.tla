------------------------------- MODULE DartGate -------------------------------
(***************************************************************************)
(* The calls of one Dart callback from threads other than the one that     *)
(* runs its isolate (boltffi_dart_runtime/src/lib.rs, and the shims that   *)
(* boltffi_macros/src/expansion/wrapper/dart_shim.rs generates).  A worker *)
(* makes a gate, posts the call to a listener of the isolate, and sleeps   *)
(* until the gate is resolved: by the listener, or by destroy, which       *)
(* cancels every gate it finds.  The listener writes the result to a slot  *)
(* that the gate owns until the worker, told Ok, takes it over.            *)
(*                                                                         *)
(* The gate is counted: one reference is the worker's, one goes through    *)
(* the post to the listener.  The last to drop its own frees the slot, if  *)
(* the gate still owns it.                                                 *)
(*                                                                         *)
(* The memory of the hooks is not modelled: whoever calls has a reference  *)
(* to the callback.  destroy may come at any time, as the tests have it.   *)
(***************************************************************************)
EXTENDS Naturals, FiniteSets

CONSTANTS Worker, NoWorker,
          Gate,      \* as many as calls are made
          NoGate,
          MaxDepth   \* bound: synchronous exports the isolate nests

ASSUME GateAssumption == NoGate \notin Gate /\ NoWorker \notin Worker /\ MaxDepth \in Nat

VARIABLES
  alive, outstanding,  \* HeaderState
  outcome, out_free,   \* of each gate
  refs,                \* who holds a reference of it
  slot,                \* the memory that out points to
  posted,              \* gates whose call the listener has yet to run
  kind,                \* what each gate is made for
  pc, mine,            \* where each worker is, and its gate
  isolate, serves,     \* where the isolate is, and the gate it serves
  doomed,              \* gates that a destroy in progress has yet to cancel
  depth, joining,      \* the exports it is inside, and the worker one joins
  spoiled              \* history: a slot was used unwritten or freed

headerVars == <<alive, outstanding>>
gateVars == <<outcome, out_free, refs, slot>>
isolateVars == <<isolate, serves, doomed, depth, joining>>
dartVars == <<headerVars, gateVars, posted, kind, pc, mine, isolateVars, spoiled>>

Kind == {"void", "value", "free"}  \* a method without and with a result; free

GTypeOK ==
  /\ alive \in BOOLEAN
  /\ outstanding \subseteq Gate
  /\ outcome \in [Gate -> {"unborn", "Pending", "Ok", "Error", "Cancelled"}]
  /\ out_free \in [Gate -> BOOLEAN]
  /\ refs \in [Gate -> SUBSET {"worker", "dart"}]
  /\ slot \in [Gate -> {"none", "zero", "written", "freed"}]
  /\ posted \subseteq Gate
  /\ kind \in [Gate -> Kind]
  /\ pc \in [Worker -> {"idle", "created", "posted", "waiting", "heard",
                        "disarmed", "leaving", "panicked", "done"}]
  /\ mine \in [Worker -> Gate \cup {NoGate}]
  /\ isolate \in {"idle", "running", "ran"}
  /\ serves \in Gate \cup {NoGate}
  /\ doomed \subseteq Gate
  /\ depth \in 0..MaxDepth
  /\ joining \in Worker \cup {NoWorker}
  /\ spoiled \in BOOLEAN

GInit ==
  /\ alive = TRUE
  /\ outstanding = {}
  /\ outcome = [g \in Gate |-> "unborn"]
  /\ out_free = [g \in Gate |-> FALSE]
  /\ refs = [g \in Gate |-> {}]
  /\ slot = [g \in Gate |-> "none"]
  /\ posted = {}
  /\ kind = [g \in Gate |-> "void"]
  /\ pc = [w \in Worker |-> "idle"]
  /\ mine = [w \in Worker |-> NoGate]
  /\ isolate = "idle" /\ serves = NoGate /\ doomed = {}
  /\ depth = 0 /\ joining = NoWorker
  /\ spoiled = FALSE

Move(w, l) == pc' = [pc EXCEPT ![w] = l]

(* Mutant: the last answer counts.                                         *)
ResolveAnyway(G, status) ==
  outcome' = [g \in Gate |-> IF g \in G THEN status ELSE outcome[g]]

resolve(G, status) ==
  outcome' = [g \in Gate |-> IF g \in G /\ outcome[g] = "Pending" THEN status ELSE outcome[g]]

(* x drops its reference of g.                                             *)
DropReference(g, x) ==
  /\ refs' = [refs EXCEPT ![g] = @ \ {x}]
  /\ IF refs[g] = {x} /\ out_free[g]
       THEN slot' = [slot EXCEPT ![g] = "freed"] /\ spoiled' = (spoiled \/ slot[g] = "freed")
       ELSE UNCHANGED <<slot, spoiled>>

-----------------------------------------------------------------------------
(* The worker: a shim, from create_gate to the return.                     *)

(* Mutant: alive is read before the lock that adds the gate.               *)
CreateGateUnchecked(w, g, k) ==
  /\ pc[w] = "idle"
  /\ outcome[g] = "unborn"
  /\ outcome' = [outcome EXCEPT ![g] = "Pending"]
  /\ refs' = [refs EXCEPT ![g] = {"worker", "dart"}]
  /\ outstanding' = {h \in outstanding : refs[h] # {}} \cup {g}
  /\ kind' = [kind EXCEPT ![g] = k]
  /\ mine' = [mine EXCEPT ![w] = g]
  /\ Move(w, "created")
  /\ UNCHANGED <<alive, out_free, slot, posted, isolateVars, spoiled>>

(* A dead header makes no gate, and the shim returns.                      *)
create_gate(w, g, k) ==
  /\ pc[w] = "idle"
  /\ alive
  /\ outcome[g] = "unborn"
  /\ outcome' = [outcome EXCEPT ![g] = "Pending"]
  /\ refs' = [refs EXCEPT ![g] = {"worker", "dart"}]
  /\ outstanding' = {h \in outstanding : refs[h] # {}} \cup {g}
  /\ kind' = [kind EXCEPT ![g] = k]
  /\ mine' = [mine EXCEPT ![w] = g]
  /\ Move(w, "created")
  /\ UNCHANGED <<alive, out_free, slot, posted, isolateVars, spoiled>>

own_out_ptr(g) ==
  /\ slot' = [slot EXCEPT ![g] = "zero"]
  /\ out_free' = [out_free EXCEPT ![g] = TRUE]

(* The slot, if there is a result, and then the post, by which the gate    *)
(* and the slot become known to the listener.                              *)
PostCall(w) ==
  /\ pc[w] = "created"
  /\ IF kind[mine[w]] = "value" THEN own_out_ptr(mine[w]) ELSE UNCHANGED <<slot, out_free>>
  /\ posted' = posted \cup {mine[w]}
  /\ Move(w, "posted")
  /\ UNCHANGED <<headerVars, outcome, refs, kind, mine, isolateVars, spoiled>>

(* wait panics if the isolate is inside an export, and sleeps otherwise.   *)
WaitChecks(w) ==
  /\ pc[w] = "posted"
  /\ Move(w, IF depth > 0 THEN "panicked" ELSE "waiting")
  /\ UNCHANGED <<headerVars, gateVars, posted, kind, mine, isolateVars, spoiled>>

(* A method without a result has no other way to tell of a failure than to *)
(* panic.                                                                  *)
WaitReturns(w) ==
  /\ pc[w] = "waiting"
  /\ outcome[mine[w]] # "Pending"
  /\ Move(w, CASE kind[mine[w]] = "value" /\ outcome[mine[w]] = "Ok" -> "heard"
               [] kind[mine[w]] = "void" /\ outcome[mine[w]] # "Ok"  -> "panicked"
               [] OTHER                                              -> "leaving")
  /\ UNCHANGED <<headerVars, gateVars, posted, kind, mine, isolateVars, spoiled>>

(* Mutant: takes the slot and leaves it to the gate as well.               *)
DisarmNot(w) ==
  /\ pc[w] = "heard"
  /\ Move(w, "disarmed")
  /\ UNCHANGED <<headerVars, gateVars, posted, kind, mine, isolateVars, spoiled>>

disarm_out(w) ==
  /\ pc[w] = "heard"
  /\ out_free' = [out_free EXCEPT ![mine[w]] = FALSE]
  /\ Move(w, "disarmed")
  /\ UNCHANGED <<headerVars, outcome, refs, slot, posted, kind, mine, isolateVars, spoiled>>

(* Box::from_raw: the result is moved out and the slot freed.              *)
TakeOut(w) ==
  /\ pc[w] = "disarmed"
  /\ slot' = [slot EXCEPT ![mine[w]] = "freed"]
  /\ spoiled' = (spoiled \/ slot[mine[w]] # "written")
  /\ Move(w, "leaving")
  /\ UNCHANGED <<headerVars, outcome, out_free, refs, posted, kind, mine, isolateVars>>

(* The PendingGate is dropped, by a panic too, after which the thread is   *)
(* over unless the panic is caught.                                        *)
ShimLeaves(w) ==
  /\ pc[w] \in {"leaving", "panicked"}
  /\ DropReference(mine[w], "worker")
  /\ mine' = [mine EXCEPT ![w] = NoGate]
  /\ \/ Move(w, "idle")
     \/ pc[w] = "panicked" /\ Move(w, "done")
  /\ UNCHANGED <<headerVars, outcome, out_free, posted, kind, isolateVars>>

WorkerEnds(w) ==
  /\ pc[w] = "idle"
  /\ Move(w, "done")
  /\ UNCHANGED <<headerVars, gateVars, posted, kind, mine, isolateVars, spoiled>>

-----------------------------------------------------------------------------
(* The isolate.                                                            *)

(* The header is locked meanwhile, which create_gate could only find dead. *)
destroy == alive' = FALSE /\ doomed' = {g \in outstanding : refs[g] # {}}

CancelNext(g) ==
  /\ g \in doomed
  /\ doomed' = doomed \ {g}
  /\ IF refs[g] # {} THEN resolve({g}, "Cancelled") ELSE UNCHANGED outcome
  /\ UNCHANGED <<headerVars, out_free, refs, slot, posted, kind, pc, mine, isolate, serves, depth, joining, spoiled>>

(* The thread of the isolate is not in destroy and joins nobody.           *)
Free == doomed = {} /\ joining = NoWorker

(* shutdown, by a release on the isolate's own thread.                     *)
Shutdown ==
  /\ isolate \in {"idle", "running"} /\ Free
  /\ alive
  /\ destroy
  /\ UNCHANGED <<outstanding, gateVars, posted, kind, pc, mine, isolate, serves, depth, joining, spoiled>>

ListenerRuns(g) ==
  /\ isolate = "idle" /\ depth = 0 /\ Free
  /\ g \in posted
  /\ posted' = posted \ {g}
  /\ isolate' = "running" /\ serves' = g
  /\ UNCHANGED <<headerVars, gateVars, kind, pc, mine, doomed, depth, joining, spoiled>>

(* The Dart implementation has run; its result is written, if it has one.  *)
ListenerWrites ==
  /\ isolate = "running" /\ depth = 0 /\ Free
  /\ isolate' = "ran"
  /\ IF kind[serves] = "value"
       THEN /\ slot' = [slot EXCEPT ![serves] = "written"]
            /\ spoiled' = (spoiled \/ slot[serves] = "freed")
       ELSE UNCHANGED <<slot, spoiled>>
  /\ IF kind[serves] = "free" THEN destroy ELSE UNCHANGED <<alive, doomed>>
  /\ UNCHANGED <<outstanding, outcome, out_free, refs, posted, kind, pc, mine, serves, depth, joining>>

Signal(status) ==
  /\ resolve({serves}, status)
  /\ DropReference(serves, "dart")
  /\ isolate' = "idle" /\ serves' = NoGate
  /\ UNCHANGED <<headerVars, out_free, posted, kind, pc, mine, doomed, depth, joining>>

signal_gate_ok == isolate = "ran" /\ Free /\ Signal("Ok")

(* Mutant: what the implementation throws is swallowed.                    *)
SignalErrorForgets ==
  /\ isolate = "running" /\ depth = 0 /\ Free
  /\ isolate' = "idle" /\ serves' = NoGate
  /\ UNCHANGED <<headerVars, gateVars, posted, kind, pc, mine, doomed, depth, joining, spoiled>>

(* The implementation throws.                                              *)
signal_gate_error == isolate = "running" /\ depth = 0 /\ Free /\ Signal("Error")

(* A synchronous export, from the event loop or from an implementation,    *)
(* which may join a worker.                                                *)
EnterExport ==
  /\ isolate \in {"idle", "running"} /\ Free
  /\ depth < MaxDepth
  /\ depth' = depth + 1
  /\ UNCHANGED <<headerVars, gateVars, posted, kind, pc, mine, isolate, serves, doomed, joining, spoiled>>

JoinWorker(w) ==
  /\ depth > 0 /\ Free
  /\ joining' = w
  /\ UNCHANGED <<headerVars, gateVars, posted, kind, pc, mine, isolate, serves, doomed, depth, spoiled>>

JoinReturns ==
  /\ joining # NoWorker
  /\ pc[joining] = "done"
  /\ joining' = NoWorker
  /\ UNCHANGED <<headerVars, gateVars, posted, kind, pc, mine, isolate, serves, doomed, depth, spoiled>>

LeaveExport ==
  /\ depth > 0 /\ Free
  /\ depth' = depth - 1
  /\ UNCHANGED <<headerVars, gateVars, posted, kind, pc, mine, isolate, serves, doomed, joining, spoiled>>

-----------------------------------------------------------------------------
(* Which of the gates that are not made yet is next makes no difference.   *)
Fresh ==
  LET unborn == {g \in Gate : outcome[g] = "unborn"}
  IN  {g \in unborn : g = CHOOSE h \in unborn : TRUE}

InShim(w) ==
  \/ PostCall(w) \/ WaitChecks(w) \/ WaitReturns(w)
  \/ disarm_out(w) \/ TakeOut(w) \/ ShimLeaves(w)

Listener == (\E g \in Gate : ListenerRuns(g)) \/ ListenerWrites \/ signal_gate_ok \/ signal_gate_error

GNext ==
  \/ \E w \in Worker, g \in Fresh, k \in Kind : create_gate(w, g, k)
  \/ \E w \in Worker : InShim(w) \/ WorkerEnds(w) \/ JoinWorker(w)
  \/ \E g \in Gate : CancelNext(g)
  \/ Listener
  \/ Shutdown \/ EnterExport \/ JoinReturns \/ LeaveExport

(* A shim goes on, and so does the isolate: it serves its listeners, and   *)
(* an export returns unless it joins a worker that is not over.            *)
GSpec ==
  /\ GInit /\ [][GNext]_dartVars
  /\ \A w \in Worker : WF_dartVars(InShim(w))
  /\ SF_dartVars(Listener)
  /\ \A g \in Gate : WF_dartVars(CancelNext(g))
  /\ WF_dartVars(JoinReturns) /\ WF_dartVars(LeaveExport)

-----------------------------------------------------------------------------
(* The slot of a result is never written, read or freed after it was       *)
(* freed, never read before it was written, and not leaked when both sides *)
(* are gone, in whichever order they go and whatever cancels the call.     *)
SlotSound ==
  /\ ~spoiled
  /\ \A g \in Gate : refs[g] = {} => slot[g] \in {"none", "freed"}

(* destroy leaves nobody behind: after it no gate is pending, though gates *)
(* are being made on other threads while it runs.                          *)
DestroyMissesNone == ~alive /\ doomed = {} => \A g \in Gate : outcome[g] # "Pending"

(* Whatever a waiter is told first stands, although destroy and listener   *)
(* both resolve a gate.                                                    *)
FirstAnswerStands ==
  [][\A g \in Gate : outcome[g] \in {"Ok", "Error", "Cancelled"} => outcome'[g] = outcome[g]]_dartVars

(* A waiter is told, unless the isolate is stuck in an export that joins a *)
(* worker.                                                                 *)
WaitsEnd == \A w \in Worker : pc[w] = "waiting" ~> (pc[w] # "waiting" \/ joining # NoWorker)

(* "worker must panic instead of deadlocking": the isolate never joins a   *)
(* worker that sleeps for an answer of the isolate.                        *)
FailsFast ==
  \A w \in Worker : ~(joining = w /\ pc[w] = "waiting" /\ outcome[mine[w]] = "Pending")
=============================================================================
