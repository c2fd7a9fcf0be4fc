---------------------------- MODULE DartGateProofs ----------------------------
(***************************************************************************)
(* Proofs about DartGate for any number of workers and calls.  The         *)
(* invariant says who owns what: a worker inside a shim has the reference  *)
(* "worker" of a gate of its own, a call that is posted or served has the  *)
(* reference "dart", and a slot is the gate's, which frees it with its     *)
(* last reference, until a worker that was told Ok takes it over.          *)
(***************************************************************************)
EXTENDS DartGate, TLAPS

(* A worker outside of its shim has no gate; one inside shares its gate    *)
(* with no other worker.                                                   *)
WorkersOwn ==
  /\ \A w \in Worker : pc[w] \in {"idle", "done"} => mine[w] = NoGate
  /\ \A w \in Worker : pc[w] \notin {"idle", "done"} =>
       mine[w] \in Gate /\ "worker" \in refs[mine[w]] /\ outcome[mine[w]] # "unborn"
  /\ \A w, v \in Worker : mine[w] = mine[v] => w = v \/ mine[w] = NoGate

(* A gate has one listener at most ahead of it, which has the reference    *)
(* "dart" and has not been told Ok yet.                                    *)
Due(g) ==
  /\ "dart" \in refs[g]
  /\ outcome[g] \in {"Pending", "Cancelled"}

ListenerOwns ==
  /\ \A g \in posted : Due(g) /\ g # serves /\ (kind[g] = "value" => out_free[g])
  /\ isolate = "idle" => serves = NoGate
  /\ isolate # "idle" =>
       /\ serves \in Gate /\ Due(serves)
       /\ kind[serves] = "value" => out_free[serves]
       /\ isolate = "ran" /\ kind[serves] = "value" => slot[serves] = "written"
  /\ \A w \in Worker : pc[w] = "created" =>
       /\ Due(mine[w]) /\ mine[w] \notin posted /\ mine[w] # serves
       /\ slot[mine[w]] = "none" /\ ~out_free[mine[w]]

Unborn(g) ==
  outcome[g] = "unborn" => refs[g] = {} /\ slot[g] = "none" /\ ~out_free[g]

(* What a gate that may still be told something has left to itself.        *)
GateOwns(g) ==
  /\ Unborn(g)
  /\ outcome[g] = "Pending" => "dart" \in refs[g] /\ g \in outstanding /\ (alive \/ g \in doomed)
  /\ outcome[g] = "Ok" => "dart" \notin refs[g]
  /\ outcome[g] = "Ok" /\ kind[g] = "value" => slot[g] \in {"written", "freed"}
  /\ out_free[g] => slot[g] # "none"
  /\ slot[g] = "freed" => refs[g] = {} \/ (~out_free[g] /\ outcome[g] = "Ok")
  /\ slot[g] \in {"zero", "written"} /\ ~out_free[g] =>
       \E w \in Worker : pc[w] = "disarmed" /\ mine[w] = g

WorkerTakes ==
  \A w \in Worker :
    /\ pc[w] \in {"posted", "waiting"} /\ kind[mine[w]] = "value" => out_free[mine[w]]
    /\ pc[w] = "heard" => out_free[mine[w]]
    /\ pc[w] \in {"heard", "disarmed"} => outcome[mine[w]] = "Ok" /\ kind[mine[w]] = "value"
    /\ pc[w] = "disarmed" => slot[mine[w]] = "written" /\ ~out_free[mine[w]]

GateInv ==
  /\ GTypeOK
  /\ WorkersOwn
  /\ ListenerOwns
  /\ \A g \in Gate : GateOwns(g)
  /\ WorkerTakes
  /\ SlotSound

LEMMA GateInit == GInit => GateInv
<1> SUFFICES ASSUME GInit PROVE GateInv
  OBVIOUS
<1> USE GateAssumption DEF GInit
<1>1. GTypeOK
  <2>1. /\ out_free \in [Gate -> BOOLEAN] /\ alive \in BOOLEAN /\ spoiled \in BOOLEAN
        /\ outstanding \subseteq Gate /\ posted \subseteq Gate /\ doomed \subseteq Gate
    OBVIOUS
  <2>2. /\ outcome \in [Gate -> {"unborn", "Pending", "Ok", "Error", "Cancelled"}]
        /\ refs \in [Gate -> SUBSET {"worker", "dart"}]
        /\ slot \in [Gate -> {"none", "zero", "written", "freed"}]
        /\ kind \in [Gate -> Kind]
    BY DEF Kind
  <2>3. /\ pc \in [Worker -> {"idle", "created", "posted", "waiting", "heard",
                             "disarmed", "leaving", "panicked", "done"}]
        /\ mine \in [Worker -> Gate \cup {NoGate}]
    OBVIOUS
  <2>4. QED
    BY <2>1, <2>2, <2>3 DEF GTypeOK
<1>2. WorkersOwn /\ ListenerOwns /\ WorkerTakes
  BY DEF WorkersOwn, ListenerOwns, WorkerTakes
<1>3. SlotSound /\ \A h \in Gate : GateOwns(h)
  BY DEF SlotSound, GateOwns, Unborn
<1>4. QED
  BY <1>1, <1>2, <1>3 DEF GateInv

-----------------------------------------------------------------------------
(* One lemma for each action, which says of each part of the invariant     *)
(* what it rests on.                                                       *)

LEMMA CreateGateKeeps ==
  ASSUME GateInv, NEW w \in Worker, NEW g \in Gate, NEW k \in Kind, create_gate(w, g, k)
  PROVE  GateInv'
<1> USE GateAssumption DEF GateInv, create_gate, Move, Free, headerVars, gateVars, isolateVars
<1>1. GTypeOK'
  BY DEF GTypeOK, Kind
<1>2. WorkersOwn'
  BY <1>1 DEF GTypeOK, WorkersOwn
<1>3. ListenerOwns'
  BY <1>1 DEF GTypeOK, ListenerOwns, Due, GateOwns, Unborn
<1>4. (\A h \in Gate : GateOwns(h))'
  BY <1>1 DEF GTypeOK, GateOwns, Unborn
<1>5. WorkerTakes'
  BY <1>1 DEF GTypeOK, WorkerTakes, WorkersOwn
<1>6. SlotSound'
  BY <1>1 DEF GTypeOK, SlotSound
<1>7. QED
  BY <1>1, <1>2, <1>3, <1>4, <1>5, <1>6

LEMMA PostCallKeeps ==
  ASSUME GateInv, NEW w \in Worker, PostCall(w)
  PROVE  GateInv'
<1> USE GateAssumption DEF GateInv, PostCall, own_out_ptr, Move, Free, headerVars, gateVars,
       isolateVars
<1>1. GTypeOK'
  BY DEF GTypeOK, Kind, WorkersOwn
<1>2. WorkersOwn'
  BY <1>1 DEF GTypeOK, WorkersOwn
<1>3. ListenerOwns'
  BY <1>1 DEF GTypeOK, ListenerOwns, Due, WorkersOwn
<1>4. (\A h \in Gate : GateOwns(h))'
  BY <1>1 DEF GTypeOK, GateOwns, Unborn, ListenerOwns, Due
<1>5. WorkerTakes'
  BY <1>1 DEF GTypeOK, WorkerTakes, WorkersOwn
<1>6. SlotSound'
  BY <1>1 DEF GTypeOK, SlotSound, WorkersOwn
<1>7. QED
  BY <1>1, <1>2, <1>3, <1>4, <1>5, <1>6

LEMMA WaitChecksKeeps ==
  ASSUME GateInv, NEW w \in Worker, WaitChecks(w)
  PROVE  GateInv'
<1> USE GateAssumption DEF GateInv, WaitChecks, Move, Free, headerVars, gateVars, isolateVars
<1>1. GTypeOK'
  BY DEF GTypeOK, Kind
<1>2. WorkersOwn'
  BY <1>1 DEF GTypeOK, WorkersOwn
<1>3. ListenerOwns'
  BY <1>1 DEF GTypeOK, ListenerOwns, Due
<1>4. (\A h \in Gate : GateOwns(h))'
  BY <1>1 DEF GTypeOK, GateOwns, Unborn
<1>5. WorkerTakes'
  BY <1>1 DEF GTypeOK, WorkerTakes
<1>6. SlotSound'
  BY <1>1 DEF GTypeOK, SlotSound
<1>7. QED
  BY <1>1, <1>2, <1>3, <1>4, <1>5, <1>6

LEMMA WaitReturnsKeeps ==
  ASSUME GateInv, NEW w \in Worker, WaitReturns(w)
  PROVE  GateInv'
<1> USE GateAssumption DEF GateInv, WaitReturns, Move, Free, headerVars, gateVars, isolateVars
<1>1. GTypeOK'
  BY DEF GTypeOK, Kind
<1>2. WorkersOwn'
  BY <1>1 DEF GTypeOK, WorkersOwn
<1>3. ListenerOwns'
  BY <1>1 DEF GTypeOK, ListenerOwns, Due
<1>4. (\A h \in Gate : GateOwns(h))'
  BY <1>1 DEF GTypeOK, GateOwns, Unborn
<1>5. WorkerTakes'
  BY <1>1 DEF GTypeOK, WorkerTakes
<1>6. SlotSound'
  BY <1>1 DEF GTypeOK, SlotSound
<1>7. QED
  BY <1>1, <1>2, <1>3, <1>4, <1>5, <1>6

LEMMA DisarmOutKeeps ==
  ASSUME GateInv, NEW w \in Worker, disarm_out(w)
  PROVE  GateInv'
<1> USE GateAssumption DEF GateInv, disarm_out, Move, Free, headerVars, gateVars, isolateVars
<1>1. GTypeOK'
  BY DEF GTypeOK, Kind
<1>2. WorkersOwn'
  BY <1>1 DEF GTypeOK, WorkersOwn
<1>3. ListenerOwns'
  BY <1>1 DEF GTypeOK, ListenerOwns, Due, WorkerTakes
<1>4. (\A h \in Gate : GateOwns(h))'
  BY <1>1 DEF GTypeOK, GateOwns, Unborn
<1>5. WorkerTakes'
  BY <1>1 DEF GTypeOK, WorkerTakes, WorkersOwn, GateOwns, Unborn
<1>6. SlotSound'
  BY <1>1 DEF GTypeOK, SlotSound
<1>7. QED
  BY <1>1, <1>2, <1>3, <1>4, <1>5, <1>6

LEMMA TakeOutKeeps ==
  ASSUME GateInv, NEW w \in Worker, TakeOut(w)
  PROVE  GateInv'
<1> USE GateAssumption DEF GateInv, TakeOut, Move, Free, headerVars, gateVars, isolateVars
<1>1. GTypeOK'
  BY DEF GTypeOK, Kind
<1>2. WorkersOwn'
  BY <1>1 DEF GTypeOK, WorkersOwn
<1>3. ListenerOwns'
  BY <1>1 DEF GTypeOK, ListenerOwns, Due, WorkerTakes
<1>4. (\A h \in Gate : GateOwns(h))'
  BY <1>1 DEF GTypeOK, GateOwns, Unborn, WorkerTakes
<1>5. WorkerTakes'
  BY <1>1 DEF GTypeOK, WorkerTakes, WorkersOwn
<1>6. SlotSound'
  BY <1>1 DEF GTypeOK, SlotSound, WorkerTakes
<1>7. QED
  BY <1>1, <1>2, <1>3, <1>4, <1>5, <1>6

LEMMA ShimLeavesKeeps ==
  ASSUME GateInv, NEW w \in Worker, ShimLeaves(w)
  PROVE  GateInv'
<1> USE GateAssumption DEF GateInv, ShimLeaves, DropReference, Move, Free, headerVars, gateVars,
       isolateVars
<1>1. GTypeOK'
  BY DEF GTypeOK, Kind
<1>2. WorkersOwn'
  BY <1>1 DEF GTypeOK, WorkersOwn
<1>3. ListenerOwns'
  BY <1>1 DEF GTypeOK, ListenerOwns, Due, WorkersOwn
<1>4. (\A h \in Gate : GateOwns(h))'
  BY <1>1 DEF GTypeOK, GateOwns, Unborn
<1>5. WorkerTakes'
  BY <1>1 DEF GTypeOK, WorkerTakes, WorkersOwn
<1>6. SlotSound'
  BY <1>1 DEF GTypeOK, SlotSound, WorkersOwn, GateOwns, Unborn
<1>7. QED
  BY <1>1, <1>2, <1>3, <1>4, <1>5, <1>6

LEMMA CancelNextKeeps ==
  ASSUME GateInv, NEW g \in Gate, CancelNext(g)
  PROVE  GateInv'
<1> USE GateAssumption DEF GateInv, CancelNext, resolve, Free, headerVars, gateVars, isolateVars
<1>1. GTypeOK'
  BY DEF GTypeOK, Kind
<1>2. WorkersOwn'
  BY <1>1 DEF GTypeOK, WorkersOwn
<1>3. ListenerOwns'
  BY <1>1 DEF GTypeOK, ListenerOwns, Due, WorkersOwn
<1>4. (\A h \in Gate : GateOwns(h))'
  BY <1>1 DEF GTypeOK, GateOwns, Unborn
<1>5. WorkerTakes'
  BY <1>1 DEF GTypeOK, WorkerTakes, WorkersOwn
<1>6. SlotSound'
  BY <1>1 DEF GTypeOK, SlotSound
<1>7. QED
  BY <1>1, <1>2, <1>3, <1>4, <1>5, <1>6

LEMMA ShutdownKeeps ==
  ASSUME GateInv, Shutdown
  PROVE  GateInv'
<1> USE GateAssumption DEF GateInv, Shutdown, destroy, Free, headerVars, gateVars, isolateVars
<1>1. GTypeOK'
  BY DEF GTypeOK, Kind
<1>2. WorkersOwn'
  BY <1>1 DEF GTypeOK, WorkersOwn
<1>3. ListenerOwns'
  BY <1>1 DEF GTypeOK, ListenerOwns, Due
<1>4. (\A h \in Gate : GateOwns(h))'
  BY <1>1 DEF GTypeOK, GateOwns, Unborn
<1>5. WorkerTakes'
  BY <1>1 DEF GTypeOK, WorkerTakes
<1>6. SlotSound'
  BY <1>1 DEF GTypeOK, SlotSound
<1>7. QED
  BY <1>1, <1>2, <1>3, <1>4, <1>5, <1>6

LEMMA ListenerRunsKeeps ==
  ASSUME GateInv, NEW g \in Gate, ListenerRuns(g)
  PROVE  GateInv'
<1> USE GateAssumption DEF GateInv, ListenerRuns, Free, headerVars, gateVars, isolateVars
<1>1. GTypeOK'
  BY DEF GTypeOK, Kind
<1>2. WorkersOwn'
  BY <1>1 DEF GTypeOK, WorkersOwn
<1>3. ListenerOwns'
  BY <1>1 DEF GTypeOK, ListenerOwns, Due
<1>4. (\A h \in Gate : GateOwns(h))'
  BY <1>1 DEF GTypeOK, GateOwns, Unborn
<1>5. WorkerTakes'
  BY <1>1 DEF GTypeOK, WorkerTakes
<1>6. SlotSound'
  BY <1>1 DEF GTypeOK, SlotSound
<1>7. QED
  BY <1>1, <1>2, <1>3, <1>4, <1>5, <1>6

LEMMA ListenerWritesKeeps ==
  ASSUME GateInv, ListenerWrites
  PROVE  GateInv'
<1> USE GateAssumption DEF GateInv, ListenerWrites, destroy, Free, headerVars, gateVars, isolateVars
<1>1. GTypeOK'
  BY DEF GTypeOK, Kind
<1>2. WorkersOwn'
  BY <1>1 DEF GTypeOK, WorkersOwn
<1>3. ListenerOwns'
  BY <1>1 DEF GTypeOK, ListenerOwns, Due, WorkersOwn
<1>4. (\A h \in Gate : GateOwns(h))'
  BY <1>1 DEF GTypeOK, GateOwns, Unborn, ListenerOwns, Due
<1>5. WorkerTakes'
  BY <1>1 DEF GTypeOK, WorkerTakes, WorkersOwn
<1>6. SlotSound'
  BY <1>1 DEF GTypeOK, SlotSound, ListenerOwns, Due, GateOwns, Unborn
<1>7. QED
  BY <1>1, <1>2, <1>3, <1>4, <1>5, <1>6

LEMMA SignalGateOkKeeps ==
  ASSUME GateInv, signal_gate_ok
  PROVE  GateInv'
<1> USE GateAssumption DEF GateInv, signal_gate_ok, Signal, resolve, DropReference, Free,
       headerVars, gateVars, isolateVars
<1>1. GTypeOK'
  BY DEF GTypeOK, Kind
<1>2. WorkersOwn'
  BY <1>1 DEF GTypeOK, WorkersOwn
<1>3. ListenerOwns'
  BY <1>1 DEF GTypeOK, ListenerOwns, Due, WorkersOwn
<1>4. (\A h \in Gate : GateOwns(h))'
  BY <1>1 DEF GTypeOK, GateOwns, Unborn, ListenerOwns, Due
<1>5. WorkerTakes'
  BY <1>1 DEF GTypeOK, WorkerTakes, WorkersOwn
<1>6. SlotSound'
  BY <1>1 DEF GTypeOK, SlotSound, WorkersOwn, GateOwns, Unborn
<1>7. QED
  BY <1>1, <1>2, <1>3, <1>4, <1>5, <1>6

LEMMA SignalGateErrorKeeps ==
  ASSUME GateInv, signal_gate_error
  PROVE  GateInv'
<1> USE GateAssumption DEF GateInv, signal_gate_error, Signal, resolve, DropReference, Free,
       headerVars, gateVars, isolateVars
<1>1. GTypeOK'
  BY DEF GTypeOK, Kind
<1>2. WorkersOwn'
  BY <1>1 DEF GTypeOK, WorkersOwn
<1>3. ListenerOwns'
  BY <1>1 DEF GTypeOK, ListenerOwns, Due, WorkersOwn
<1>4. (\A h \in Gate : GateOwns(h))'
  BY <1>1 DEF GTypeOK, GateOwns, Unborn
<1>5. WorkerTakes'
  BY <1>1 DEF GTypeOK, WorkerTakes, WorkersOwn
<1>6. SlotSound'
  BY <1>1 DEF GTypeOK, SlotSound, WorkersOwn, GateOwns, Unborn
<1>7. QED
  BY <1>1, <1>2, <1>3, <1>4, <1>5, <1>6

(* The other steps are of workers outside of their shims, and of exports.  *)
LEMMA OthersKeep ==
  ASSUME GateInv,
         \/ \E w \in Worker : WorkerEnds(w) \/ JoinWorker(w)
         \/ EnterExport \/ JoinReturns \/ LeaveExport
         \/ UNCHANGED dartVars
  PROVE  GateInv'
<1> USE GateAssumption DEF GateInv, WorkerEnds, JoinWorker, EnterExport, JoinReturns, LeaveExport,
      Move, Free, dartVars, headerVars, gateVars, isolateVars
<1>1. GTypeOK'
  BY DEF GTypeOK, Kind
<1>2. WorkersOwn'
  BY <1>1 DEF GTypeOK, WorkersOwn
<1>3. ListenerOwns'
  BY <1>1 DEF GTypeOK, ListenerOwns, Due
<1>4. (\A h \in Gate : GateOwns(h))'
  BY <1>1 DEF GTypeOK, GateOwns, Unborn
<1>5. WorkerTakes'
  BY <1>1 DEF GTypeOK, WorkerTakes
<1>6. SlotSound'
  BY <1>1 DEF GTypeOK, SlotSound
<1>7. QED
  BY <1>1, <1>2, <1>3, <1>4, <1>5, <1>6

LEMMA GateStep == GateInv /\ [GNext]_dartVars => GateInv'
<1> SUFFICES ASSUME GateInv, [GNext]_dartVars PROVE GateInv'
  OBVIOUS
<1>1. ASSUME NEW w \in Worker, NEW g \in Fresh, NEW k \in Kind, create_gate(w, g, k) PROVE GateInv'
  BY <1>1, CreateGateKeeps DEF Fresh
<1>2. ASSUME NEW w \in Worker, InShim(w) PROVE GateInv'
  BY <1>2, PostCallKeeps, WaitChecksKeeps, WaitReturnsKeeps, DisarmOutKeeps, TakeOutKeeps,
     ShimLeavesKeeps DEF InShim
<1>3. ASSUME NEW g \in Gate, CancelNext(g) PROVE GateInv'
  BY <1>3, CancelNextKeeps
<1>4. CASE Listener
  BY <1>4, ListenerRunsKeeps, ListenerWritesKeeps, SignalGateOkKeeps,
      SignalGateErrorKeeps DEF Listener
<1>5. CASE Shutdown
  BY <1>5, ShutdownKeeps
<1>6. QED
  BY <1>1, <1>2, <1>3, <1>4, <1>5, OthersKeep DEF GNext

(* Who holds which reference, and whose a slot is, in every reachable      *)
(* state of any number of calls.                                           *)
THEOREM GateInvariant == GSpec => []GateInv
  BY GateInit, GateStep, PTL DEF GSpec

-----------------------------------------------------------------------------
(* Type correctness: a gate is known to its worker and its listener only,  *)
(* and its answer is one of those that CallStatus has.                     *)
THEOREM GatesTyped == GSpec => []GTypeOK
  BY GateInvariant, PTL DEF GateInv

(* The slot of a result is neither used after it was freed, nor freed      *)
(* twice, nor leaked, however calls, cancels and panics are interleaved.   *)
THEOREM SlotsAreSound == GSpec => []SlotSound
  BY GateInvariant, PTL DEF GateInv

(* destroy cancels whatever it must: a gate is pending only while it is    *)
(* registered, and create_gate registers none once the header is dead.     *)
THEOREM DestroyIsComplete == GSpec => []DestroyMissesNone
<1>1. GateInv => DestroyMissesNone
  BY DEF GateInv, GateOwns, DestroyMissesNone
<1>2. QED
  BY <1>1, GateInvariant, PTL

LEMMA AnswerStep ==
  ASSUME GateInv, [GNext]_dartVars, NEW h \in Gate, outcome[h] \in {"Ok", "Error", "Cancelled"}
  PROVE  outcome'[h] = outcome[h]
<1> USE DEF GateInv, GTypeOK
<1>1. ASSUME NEW w \in Worker, NEW g \in Fresh, NEW k \in Kind, create_gate(w, g, k)
      PROVE  outcome'[h] = outcome[h]
  BY <1>1 DEF create_gate, Fresh
<1>2. ASSUME NEW g \in Gate, CancelNext(g) PROVE outcome'[h] = outcome[h]
  BY <1>2 DEF CancelNext, resolve
<1>3. CASE Listener
  BY <1>3 DEF Listener, ListenerRuns, ListenerWrites, signal_gate_ok, signal_gate_error, Signal,
      resolve, gateVars
<1>4. ASSUME NEW w \in Worker, InShim(w) \/ WorkerEnds(w) \/ JoinWorker(w) PROVE outcome' = outcome
  BY <1>4 DEF InShim, PostCall, WaitChecks, WaitReturns, disarm_out, TakeOut, ShimLeaves,
      WorkerEnds,
     JoinWorker, gateVars
<1>5. CASE Shutdown \/ EnterExport \/ JoinReturns \/ LeaveExport \/ UNCHANGED dartVars
  BY <1>5 DEF Shutdown, EnterExport, JoinReturns, LeaveExport, dartVars, gateVars
<1>6. QED
  BY <1>1, <1>2, <1>3, <1>4, <1>5 DEF GNext

(* A waiter that was told something is never told otherwise, although      *)
(* destroy and the listener both resolve its gate.                         *)
THEOREM FirstAnswerIsKept == GSpec => FirstAnswerStands
<1>1. GateInv /\ [GNext]_dartVars =>
        [\A g \in Gate : outcome[g] \in {"Ok", "Error",
      "Cancelled"} => outcome'[g] = outcome[g]]_dartVars
  BY AnswerStep
<1>2. QED
  BY <1>1, GateInvariant, PTL DEF GSpec, FirstAnswerStands
-----------------------------------------------------------------------------
(* What the deadlock of the run dart_join needs: a join of a worker that   *)
(* sleeps already, or has passed the check in wait and is on its way to    *)
(* the condvar, which the model does not tell apart.                       *)
Sleeps(w) == pc[w] = "waiting" /\ outcome[mine[w]] = "Pending"

JoinsTheWaking == [][\A w \in Worker : JoinWorker(w) => ~Sleeps(w)]_dartVars

JoinInv == \A w \in Worker : joining = w => depth > 0 /\ ~Sleeps(w)

(* No gate is pending again for a worker that sleeps on it.                *)
LEMMA SleepStep ==
  ASSUME GateInv, [GNext]_dartVars, NEW v \in Worker, ~Sleeps(v), depth > 0
  PROVE  ~Sleeps(v)'
<1> USE DEF Sleeps, GateInv, GTypeOK
<1>1. (mine[v] \in Gate /\ outcome[mine[v]] # "unborn") \/ pc[v] # "waiting"
  BY DEF WorkersOwn
<1>2. ASSUME NEW w \in Worker, NEW g \in Fresh, NEW k \in Kind, create_gate(w, g, k)
      PROVE  ~Sleeps(v)'
  BY <1>1, <1>2 DEF create_gate, Move, Fresh
<1>3. ASSUME NEW w \in Worker, WaitChecks(w) PROVE ~Sleeps(v)'
  BY <1>3 DEF WaitChecks, Move, gateVars
<1>4. ASSUME NEW w \in Worker,
             PostCall(w) \/ WaitReturns(w) \/ disarm_out(w) \/ TakeOut(w) \/ ShimLeaves(w) \/ WorkerEnds(w)
      PROVE  ~Sleeps(v)'
  <2>1. outcome' = outcome
    BY <1>4 DEF PostCall, WaitReturns, disarm_out, TakeOut, ShimLeaves, WorkerEnds, gateVars
  <2>2. pc'[v] = "waiting" => pc[v] = "waiting" /\ mine'[v] = mine[v]
    BY <1>4 DEF PostCall, WaitReturns, disarm_out, TakeOut, ShimLeaves, WorkerEnds, Move
  <2>3. QED
    BY <2>1, <2>2
<1>5. ASSUME UNCHANGED <<pc, mine>>, \A g \in Gate : outcome'[g] = "Pending" => outcome[g] = "Pending"
      PROVE  ~Sleeps(v)'
  BY <1>1, <1>5
<1>6. ASSUME NEW g \in Gate, CancelNext(g) PROVE ~Sleeps(v)'
  BY <1>5, <1>6 DEF CancelNext, resolve
<1>7. CASE Listener
  BY <1>5, <1>7 DEF Listener, ListenerRuns, ListenerWrites, signal_gate_ok, signal_gate_error, Signal, resolve, gateVars
<1>8. CASE (\E w \in Worker : JoinWorker(w)) \/ Shutdown \/ EnterExport \/ JoinReturns \/ LeaveExport \/ UNCHANGED dartVars
  BY <1>5, <1>8 DEF JoinWorker, Shutdown, EnterExport, JoinReturns, LeaveExport, dartVars, gateVars
<1>9. QED
  BY <1>2, <1>3, <1>4, <1>6, <1>7, <1>8 DEF GNext, InShim

(* "worker must panic instead of deadlocking" (lib.rs:327) holds of every  *)
(* worker that has yet to pass the check in wait when the join of it       *)
(* begins: what wait asks before it sleeps is enough from then on,         *)
(* wherever the worker is in its shim.  The one way to the deadlock is an  *)
(* export that joins a worker past that check, asleep or about to be.      *)
THEOREM WakingWorkersFailFast == GSpec /\ JoinsTheWaking => []FailsFast
<1>1. GInit => JoinInv
  BY GateAssumption DEF GInit, JoinInv
<1>2. ASSUME GateInv, JoinInv, [GNext]_dartVars, [\A w \in Worker : JoinWorker(w) => ~Sleeps(w)]_dartVars
      PROVE  JoinInv'
  <2> SUFFICES ASSUME NEW w \in Worker, joining' = w PROVE depth' > 0 /\ ~Sleeps(w)'
    BY DEF JoinInv
  <2>1. ASSUME joining # NoWorker PROVE joining = w /\ depth' = depth
    BY <1>2, <2>1, GateAssumption DEF GNext, InShim, create_gate, PostCall, WaitChecks, WaitReturns, disarm_out,
       TakeOut, ShimLeaves, WorkerEnds, JoinWorker, CancelNext, Listener, ListenerRuns, ListenerWrites,
       signal_gate_ok, signal_gate_error, Signal, Shutdown, EnterExport, JoinReturns, LeaveExport, Free,
       isolateVars, dartVars
  <2>2. CASE joining # NoWorker
    BY <1>2, <2>1, <2>2, SleepStep DEF JoinInv
  <2>3. CASE joining = NoWorker
    <3>1. JoinWorker(w)
      BY <1>2, <2>3, GateAssumption DEF GNext, InShim, create_gate, PostCall, WaitChecks, WaitReturns, disarm_out,
         TakeOut, ShimLeaves, WorkerEnds, JoinWorker, CancelNext, Listener, ListenerRuns, ListenerWrites,
         signal_gate_ok, signal_gate_error, Signal, Shutdown, EnterExport, JoinReturns, LeaveExport,
         isolateVars, dartVars
    <3>2. depth' = depth /\ depth > 0 /\ ~Sleeps(w)
      BY <1>2, <2>3, <3>1, GateAssumption DEF JoinWorker, dartVars, isolateVars
    <3>3. QED
      BY <1>2, <3>2, SleepStep
  <2>4. QED
    BY <2>2, <2>3
<1>3. JoinInv => FailsFast
  BY DEF JoinInv, FailsFast, Sleeps
<1>4. QED
  BY <1>1, <1>2, <1>3, GateInvariant, PTL DEF GSpec, JoinsTheWaking
===============================================================================
