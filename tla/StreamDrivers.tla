----------------------------- MODULE StreamDrivers -----------------------------
(***************************************************************************)
(* One subscription under a host chosen in the initial state: the context  *)
(* of one of the languages, or "any", the most general reader, which polls *)
(* or waits as it likes and frees outside of its calls only.               *)
(***************************************************************************)
EXTENDS StreamContext, EventSubscriptionHost

streamVars == <<sVars, reader, answer>>

AnyOnly     == host = "any" /\ UNCHANGED contextVars
ContextOnly == host # "any" /\ UNCHANGED <<reader, answer>>

StreamInit == SInit /\ HInit

StreamNext ==
  \/ AnyOnly /\ HNext
  \/ ContextOnly /\ SNext

-----------------------------------------------------------------------------
(* The reader that frees outside of its calls only, and the bindings that  *)
(* StreamHosts puts in its place, never use what they freed, whoever drops *)
(* the last reference.  The contexts do not keep to that.                  *)
HandleIsHeld == host = "any" => NoUseAfterFree

(* Under every host: no continuation parks over events or over the end,    *)
(* and Closed is told of a closed stream only, before the memory goes.     *)
NobodyIsStranded == touched \/ NoSilentPark
CloseIsTold == touched \/ ClosedIsSound

(* Once the stream is closed, from either side and whatever call of its    *)
(* reader that races, the reader is told or unsubscribes, as a binding     *)
(* does that was told, and a context frees and finishes, also when nothing *)
(* but a cancel of its own ended it.                                       *)
StreamEnds ==
  (~active \/ lifecycle # 0) ~>
    (finished \/ (host = "any" /\ (answer = "Closed" \/ HostUnsubscribed)))
=============================================================================
