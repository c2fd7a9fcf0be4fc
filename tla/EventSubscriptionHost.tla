------------------------ MODULE EventSubscriptionHost ------------------------
(***************************************************************************)
(* The most general host that reads one subscription as its generated      *)
(* bindings are meant to be used: it polls with a continuation or blocks   *)
(* in wait_for_events, one call at a time, a poll being made when the one  *)
(* before was heard; what Ready or Closed announces is popped until a      *)
(* batch comes back empty.  Another thread may unsubscribe at any time,    *)
(* and the reader frees once it is outside every call, with a continuation *)
(* parked or not.                                                          *)
(***************************************************************************)
EXTENDS EventSubscription

VARIABLES reader,   \* what the host's reading thread is doing
          answer    \* the last answer it got

hostVars == <<vars, reader, answer>>

HTypeOK ==
  /\ TypeOK
  /\ reader \in {"idle", "polling", "waiting", "draining", "popping", "finished", "freed"}
  /\ answer \in {"none", "Ready", "Closed"}

HInit == Init /\ reader = "idle" /\ answer = "none"

HostPolls(p) ==
  /\ reader = "idle"
  /\ PollCall(p)
  /\ reader' = "polling"
  /\ UNCHANGED answer

HostHears(p) ==
  /\ reader = "polling"
  /\ Heard(p) # "none"
  /\ answer' = Heard(p)
  /\ reader' = "draining"
  /\ Forget(p)
  /\ UNCHANGED <<ringVars, active, push, wait, closing, refVars, touched>>

HostWaits ==
  /\ reader = "idle"
  /\ WaitCall
  /\ reader' = "waiting"
  /\ UNCHANGED answer

HostHearsWait ==
  /\ reader = "waiting"
  /\ wait.at = "idle"
  /\ reader' = IF wait.answer = "Timeout" THEN "idle" ELSE "draining"
  /\ answer' = CASE wait.answer = "EventsAvailable" -> "Ready"
               [] wait.answer = "Unsubscribed"    -> "Closed"
               [] OTHER                           -> answer
  /\ UNCHANGED vars

HostPops ==
  /\ reader = "draining"
  /\ PopTakes
  /\ reader' = IF held' # <<>> THEN "popping"
               ELSE IF answer = "Closed" THEN "finished" ELSE "idle"
  /\ UNCHANGED answer

HostHasBatch ==
  /\ reader = "popping"
  /\ PopReturns
  /\ reader' = "draining"
  /\ UNCHANGED answer

HostUnsubscribes ==
  /\ reader # "freed"
  /\ UnsubscribeMarks("host")
  /\ UNCHANGED <<reader, answer>>

HostFrees ==
  /\ reader \in {"idle", "polling", "finished"}
  /\ \A p \in Poll : ~InsidePoll(p)
  /\ closing["host"] \in {"no", "done"}
  /\ Free
  /\ reader' = "freed"
  /\ UNCHANGED answer

Reads ==
  \/ \E p \in Poll : HostPolls(p) \/ HostHears(p)
  \/ HostWaits \/ HostHearsWait
  \/ HostPops \/ HostHasBatch

HNext ==
  \/ Reads
  \/ HostUnsubscribes
  \/ HostFrees
  \/ RustSide /\ UNCHANGED <<reader, answer>>

(* The reader goes on until it is told Closed or gives the stream up, and  *)
(* polls or waits as it likes.                                             *)
HSpec == HInit /\ [][HNext]_hostVars /\ LibraryFairness /\ WF_hostVars(Reads)

-----------------------------------------------------------------------------
HostUnsubscribed == closing["host"] # "no" \/ reader = "freed"

(* EventsAvailable is not a guess: nobody but the reader takes events, so  *)
(* the pop that follows finds some.                                        *)
AvailableIsThere ==
  reader = "waiting" /\ wait.at = "idle" /\ wait.answer = "EventsAvailable" => queue # <<>>
=============================================================================
