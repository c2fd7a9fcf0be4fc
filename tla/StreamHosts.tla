------------------------------ MODULE StreamHosts ------------------------------
(***************************************************************************)
(* One subscription under any reader: those of StreamDrivers, or in place  *)
(* of its general reader a binding that has no context, whose calls follow *)
(* each other: that of Dart, of TypeScript or of C#.                       *)
(***************************************************************************)
EXTENDS StreamDrivers, DartStream, TypeScriptStream, CSharpStream

CONSTANT Bindings  \* the bindings to look at

ASSUME BindingsAssumption == Bindings \subseteq {"dart", "typescript", "csharp"}

VARIABLE binding   \* the one that reads, "none" for StreamDrivers

bindingVars == <<dartStreamVars, typeScriptVars, csharpStreamVars>>
hostsVars == <<streamVars, bindingVars, binding>>

HostsInit ==
  /\ StreamInit
  /\ DSInit /\ TSInit /\ CSInit
  /\ \/ binding = "none"
     \/ host = "any" /\ binding \in Bindings

DriversOnly == binding = "none" /\ UNCHANGED <<binding, bindingVars>>

Reader(b) == binding = b /\ UNCHANGED <<binding, contextVars, reader, answer>>
DartOnly  == Reader("dart") /\ UNCHANGED <<typeScriptVars, csharpStreamVars>>
TSOnly    == Reader("typescript") /\ UNCHANGED <<dartStreamVars, csharpStreamVars>>
CSOnly    == Reader("csharp") /\ UNCHANGED <<dartStreamVars, typeScriptVars>>

HostsNext ==
  \/ DriversOnly /\ StreamNext
  \/ DartOnly /\ DSNext
  \/ TSOnly /\ TSNext
  \/ CSOnly /\ CSNext

(* The threads of the library go on, and each host reads on: what that     *)
(* means for those of StreamDrivers is at HSpec and SSpec.  The isolate    *)
(* takes its turns, and the consumers of the iterators ask or return; the  *)
(* one thread of wasm comes back to the jobs of JavaScript, whatever Rust  *)
(* code they call in between.  Nobody must cancel or dispose.              *)
HostsSpec ==
  /\ HostsInit /\ [][HostsNext]_hostsVars
  /\ LibraryFairness
  /\ WF_hostVars(binding = "none" /\ host = "any" /\ Reads)
  /\ WF_sVars(host # "any" /\ RunChain)
  /\ \A x \in Thread : WF_sVars(host # "any" /\ RunTerm(x))
  /\ WF_dsVars(binding = "dart" /\ DSTurns)
  /\ SF_tsVars(binding = "typescript" /\ TSRuns)
  /\ WF_csVars(binding = "csharp" /\ CSIterates)

-----------------------------------------------------------------------------
(* The user ends the stream.  The code that reads it ends it as well, once *)
(* it was told that the stream is over: that is not a choice of the user.  *)
GivesUp ==
  CASE binding = "dart"       -> ~streamActive /\ res # "Closed"
    [] binding = "typescript" -> \/ unsubscribed /\ iterator # "over"
                                 \/ iterator = "finally" /\ pollResult # "Closed"
    [] binding = "csharp"     -> \/ streamToken = "cancelled"
                                 \/ readAll = "finally" /\ wait.answer # "Unsubscribed"
    [] host # "any"           -> term["canceller"] \notin {"starting", "out"}
    [] OTHER                  -> HostUnsubscribed

(* ReadAll of C# leaves when wait tells it that the stream is over, and    *)
(* does not read again.                                                    *)
LeavesUnread == binding = "csharp" /\ wait.answer = "Unsubscribed"

(* An event accepted while the stream is open is not left in the ring: a   *)
(* batch is taken, unless the user gives the stream up; a producer that    *)
(* completes the stream does not take back what it pushed before.  A       *)
(* notify that falls between the test and the sleep of a wait is lost, and *)
(* then it takes the timeout.  C# is excepted: it does lose what was       *)
(* pushed between its last read and the end.                               *)
EventsAreTaken == (queue # <<>> /\ active) ~> (held # <<>> \/ GivesUp \/ LeavesUnread)
=============================================================================
