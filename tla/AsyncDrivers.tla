---------------------------- MODULE AsyncDrivers ----------------------------
(***************************************************************************)
(* One asynchronous call under a driver chosen in the initial state: that  *)
(* of one of the host languages, or "any", the most general host that      *)
(* keeps to the handshake the Rust side asks for.  The drivers of the      *)
(* languages are compared with the latter.                                 *)
(***************************************************************************)
EXTENDS RustFutureHandshake, KotlinAsyncCall, SwiftAsyncCall, JavaAsyncCall,
        CSharpAsyncCall, DartAsyncCall, PythonAsyncCall

CONSTANT Drivers  \* the drivers to look at

VARIABLE driver

languageVars == <<kotlinVars, swiftVars, javaVars, csharpVars, dartVars, pythonVars>>
dVars == <<vars, languageVars, driver>>

DInit ==
  /\ driver \in Drivers
  /\ KInit /\ SInit /\ JInit /\ CInit /\ DTInit /\ PyInit

Only(d) == driver = d /\ UNCHANGED driver

AnyOnly    == Only("any") /\ UNCHANGED languageVars
KotlinOnly == Only("kotlin") /\ UNCHANGED <<swiftVars, javaVars, csharpVars, dartVars, pythonVars>>
SwiftOnly  == Only("swift") /\ UNCHANGED <<kotlinVars, javaVars, csharpVars, dartVars, pythonVars>>
JavaOnly   == Only("java") /\ UNCHANGED <<kotlinVars, swiftVars, csharpVars, dartVars, pythonVars>>
CSharpOnly == Only("csharp") /\ UNCHANGED <<kotlinVars, swiftVars, javaVars, dartVars, pythonVars>>
DartOnly   == Only("dart") /\ UNCHANGED <<kotlinVars, swiftVars, javaVars, csharpVars, pythonVars>>
PythonOnly == Only("python") /\ UNCHANGED <<kotlinVars, swiftVars, javaVars, csharpVars, dartVars>>

DNext ==
  \/ AnyOnly /\ Next
  \/ KotlinOnly /\ KNext
  \/ SwiftOnly /\ SNext
  \/ JavaOnly /\ JNext
  \/ CSharpOnly /\ CNext
  \/ DartOnly /\ DTNext
  \/ PythonOnly /\ PyNext

(* The threads that run the library go on, and so does each driver; what   *)
(* that means is at the specification of each.  The Rust future need never *)
(* become ready, and nobody must cancel or, as "any", give the call up.    *)
DSpec ==
  /\ DInit /\ [][DNext]_dVars
  /\ WF_dVars(~touched /\ Library /\ UNCHANGED <<languageVars, driver>>)
  /\ WF_dVars(AnyOnly /\ \E p \in Poll : HostPolls(p))
  /\ WF_dVars(AnyOnly /\ HostCompletes)
  /\ WF_dVars(KotlinOnly /\ Coroutine)
  /\ WF_dVars(~touched /\ SwiftOnly /\ Driver)
  /\ WF_dVars(~touched /\ SwiftOnly /\ OnCancel)
  /\ WF_dVars(JavaOnly /\ Callbacks)
  /\ WF_dVars(JavaOnly /\ DriveLoop)
  /\ \A c \in Canceller : WF_dVars(JavaOnly /\ RunCancel(c))
  /\ WF_dVars(CSharpOnly /\ \E p \in Poll : CCallback(p))
  /\ WF_dVars(CSharpOnly /\ Method)
  /\ WF_dVars(CSharpOnly /\ Source)
  /\ WF_dVars(DartOnly /\ Turn)
  /\ WF_dVars(PythonOnly /\ PyLoop)

-----------------------------------------------------------------------------
(* The drivers keep to the handshake the Rust side relies on: one poll at  *)
(* a time, each made from MaybeReady, Ready before complete, complete      *)
(* before free, and, but for a Swift call that onCancel frees, no free     *)
(* under a call.  Init and Next are those of RustFutureHandshake.          *)
KeepsHandshake ==
  /\ Init
  /\ [][HastyNext]_vars
  /\ [][(driver = "swift" => InTurn) => Next]_vars

(* The caller gets its answer, and the handle is freed, once the Rust      *)
(* future is ready or the call was cancelled, whatever the spurious wakes  *)
(* in between.  A Swift call may have used the freed handle by then; a     *)
(* Java call that was cancelled may never end (JavaCallEnds), so that only *)
(* one that is left alone is asked to.                                     *)
HasCause ==
  \/ inner = "ready" /\ (driver = "java" => ~CancelCalled)
  \/ driver = "any" /\ isCancelled
  \/ driver = "kotlin" /\ job = "cancelled"
  \/ driver = "swift" /\ onCancel # "no"
  \/ driver = "csharp" /\ token = "cancelled"
  \/ driver = "dart" /\ dartToken = "cancelled"
  \/ driver = "python" /\ task = "cancelled"

HasEnded ==
  \/ driver = "any" /\ (taking = "done" \/ freed # "no")
  \/ driver = "kotlin" /\ co \in {"returned", "thrown"}
  \/ driver = "swift" /\ (resumes > 0 \/ touched)
  \/ driver = "java" /\ ((outcome # "none" /\ freed = "dropped") \/ CancelCalled)
  \/ driver = "csharp" /\ COver
  \/ driver = "dart" /\ isolate = "over" /\ completer # "none"
  \/ driver = "python" /\ wait \in {"returned", "raised"}

CallEnds == HasCause ~> HasEnded

(* A call that is over has left nothing behind that its continuation could *)
(* still find: no entry in the process-wide maps of Kotlin and C#, which   *)
(* the callback and the cancellation both remove from, and no closed       *)
(* listener of Dart that a thread may run.                                 *)
NothingLeftBehind ==
  MapEmptied /\ DictionaryEmptied /\ (driver = "dart" => ListenerQuiet)
=============================================================================
