---------------------------- MODULE BridgeStatus ----------------------------
(***************************************************************************)
(* What the rest of the system sees of one run of djmt1-bridge: the        *)
(* plugin sees the name of the segment and its status flags, other users   *)
(* of the USB interface see whether it is claimed, launchd sees the exit.  *)
(***************************************************************************)
EXTENDS Naturals

VARIABLES
  segment,  \* what the shared-memory name stands for: "none", "stale" or "ours"
  flags,    \* the DJMT1_SHM_FLAG_* bits of our segment
  claimed,  \* is the USB interface claimed?
  exit      \* "alive", or the exit status

statusVars == <<segment, flags, claimed, exit>>

Online == {"RUNNING", "DEVICE_OK"}
Streaming == Online \cup {"STREAMING"}

Init ==
  /\ segment \in {"none", "stale"}
  /\ flags = {}
  /\ claimed = FALSE
  /\ exit = "alive"

\* The segment is there before the interface is claimed ...
Publish ==
  /\ segment \in {"none", "stale"}
  /\ ~claimed /\ flags = {} /\ exit = "alive"
  /\ segment' = "ours"
  /\ UNCHANGED <<flags, claimed, exit>>

ClaimInterface ==
  /\ segment = "ours" /\ flags = {} /\ ~claimed
  /\ claimed' = TRUE
  /\ UNCHANGED <<segment, flags, exit>>

\* ... and the flags speak of a claimed device only, in this order.
Announce ==
  /\ segment = "ours" /\ claimed
  /\ \/ flags = {} /\ flags' = Online
     \/ flags = Online /\ flags' = Streaming
     \/ flags = Streaming /\ flags' = Online
  /\ UNCHANGED <<segment, claimed, exit>>

\* The interface is never given up while the flags say STREAMING.
ReleaseInterface ==
  /\ claimed /\ flags # Streaming
  /\ claimed' = FALSE
  /\ UNCHANGED <<segment, flags, exit>>

\* The flags are cleared before the name goes, for those who keep it mapped.
Withdraw ==
  /\ segment = "ours" /\ flags # Streaming
  /\ segment' = "none"
  /\ flags' = {}
  /\ UNCHANGED <<claimed, exit>>

\* Nothing is left at exit.
Exit ==
  /\ exit = "alive"
  /\ ~claimed /\ flags = {}
  /\ segment # "ours"
  /\ segment' = "none"
  /\ exit' \in {"success", "failure"}
  /\ UNCHANGED <<flags, claimed>>

Next ==
  \/ Publish
  \/ ClaimInterface
  \/ Announce
  \/ ReleaseInterface
  \/ Withdraw
  \/ Exit

Spec == Init /\ [][Next]_statusVars

=============================================================================
