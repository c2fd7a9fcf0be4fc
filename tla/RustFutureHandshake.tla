------------------------- MODULE RustFutureHandshake -------------------------
(***************************************************************************)
(* The most general host of a RustFuture that keeps to the callback        *)
(* handshake: entry, poll, MaybeReady or Ready, complete, free.  It is     *)
(* what the Rust side relies on, and what the drivers of the host          *)
(* languages are compared with.                                            *)
(***************************************************************************)
EXTENDS RustFuture

(* The next poll is made from a continuation told MaybeReady, so one poll  *)
(* is outstanding at a time.                                               *)
HostPolls(p) ==
  /\ freed = "no" /\ ~ToldReady
  /\ \A q \in Poll : ~Outstanding(q)
  /\ PollCall(p)

(* Ready ends polling before complete.                                     *)
HostCompletes == freed = "no" /\ ToldReady /\ CompleteLocks

HostCancels == freed = "no" /\ Cancel

(* A host that gives the call up frees without completing; never from      *)
(* under a poll, a complete or a cancel that is still running.             *)
HostFrees ==
  \/ /\ taking \in {"no", "done"} /\ CancelReturned
     /\ \A p \in Poll : ~InsidePoll(p)
     /\ FreeMarks
  \/ FreeDrops

Next ==
  \/ Library
  \/ InnerReady
  \/ SpuriousWake
  \/ \E p \in Poll : HostPolls(p)
  \/ HostCompletes
  \/ HostCancels
  \/ HostFrees

Spec == Init /\ [][Next]_vars

-----------------------------------------------------------------------------
(* A host that keeps to the order of the calls, but may free under a poll  *)
(* and poll or cancel after that.                                          *)
HastyPolls(p) == ~ToldReady /\ (\A q \in Poll : ~Outstanding(q)) /\ PollCall(p)
HastyFrees == (taking \in {"no", "done"} /\ FreeMarks) \/ FreeDrops

HastyNext ==
  \/ Library \/ InnerReady \/ SpuriousWake
  \/ \E p \in Poll : HastyPolls(p)
  \/ HostCompletes \/ Cancel \/ HastyFrees
=============================================================================
