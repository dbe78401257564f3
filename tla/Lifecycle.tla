------------------------------ MODULE Lifecycle ------------------------------
(***************************************************************************)
(* Runs of djmt1-bridge one after the other and beside each other, the     *)
(* shared-memory name they fight for, and the plugin that connects through *)
(* it.  launchd keeps one bridge going (Job); others are started by hand.  *)
(* A bridge can be killed, and coreaudiod restarted, between any two       *)
(* steps.                                                                  *)
(*                                                                         *)
(* The name and the segment are different things: shm_unlink takes the     *)
(* name away, and whoever has the segment mapped keeps it.  A segment is   *)
(* called by the number of the run that created it.  Its IN ring stands    *)
(* for both: the plugin connects to the segment as a whole, and ShmRing    *)
(* has the steps of the accesses.                                          *)
(***************************************************************************)
EXTENDS Integers

CONSTANTS
  Bridges,      \* the bridge processes that may exist at the same time
  Job,          \* the one that launchd runs
  MaxRuns,      \* bound on the runs of all of them
  MaxPos,       \* bound on the position of a ring
  MaxRestarts   \* bound on the restarts of coreaudiod

ASSUME JobAssumption == Job \in Bridges
ASSUME BoundAssumption == MaxRuns \in Nat /\ MaxPos \in Nat /\ MaxRestarts \in Nat

VARIABLES
  name,      \* the segment that DJMT1_SHM_NAME stands for, or None
  \* what the segments hold
  sized,         \* those that have been given their size
  valid,         \* those whose header shm_validate accepts
  in_write_pos, in_read_pos, flags,
  runs,      \* how many runs there were
  pc,        \* where main() of each bridge is
  shm,       \* the segment it is going to create, or has opened
  exit,      \* the status it ends or ended with
  alone,     \* history: the bridges of which no other was alive in this run
  owner,     \* the bridge that has claimed the USB interface, or None
  ppc,       \* where ConnectToShm of the plugin is
  fd,        \* the segment it has opened
  m_shm,     \* the segment the plugin is connected to
  in_wp,     \* the position it has loaded
  io,        \* Core Audio's IO
  restarts   \* how often coreaudiod was restarted

bridgeVars == <<runs, pc, shm, exit, alone, owner>>
pluginVars == <<ppc, fd, m_shm, in_wp, io, restarts>>
segVars == <<sized, valid, in_write_pos, in_read_pos, flags>>
vars == <<name, segVars, bridgeVars, pluginVars>>

None == 0
Segments == 1 .. MaxRuns

ASSUME NoneAssumption == None \notin Bridges

Online == {"RUNNING", "DEVICE_OK"}

\* The bridges that are past ftruncate and mmap.
Mapped == {"zero", "header", "reset", "open", "start", "streaming", "close", "clear", "unlink"}

\* coreaudiod loads the plugin, whose factory first tries to connect, and
\* launchd is about to run its bridge.
Init ==
  /\ name = None
  /\ sized = {} /\ valid = {}
  /\ in_write_pos = [s \in Segments |-> 0]
  /\ in_read_pos = [s \in Segments |-> 0]
  /\ flags = [s \in Segments |-> {}]
  /\ runs = 0
  /\ pc = [b \in Bridges |-> "off"]
  /\ shm = [b \in Bridges |-> None]
  /\ exit = [b \in Bridges |-> "none"]
  /\ alone = {}
  /\ owner = None
  /\ ppc = "connect"
  /\ fd = None
  /\ m_shm = None
  /\ in_wp = 0
  /\ io = "stopped"
  /\ restarts = 0

-----------------------------------------------------------------------------
(***************************************************************************)
(* Faulty variants of the steps below, one plausible slip each.            *)
(***************************************************************************)
\* Ignores the result of ftruncate.
SizeUnchecked(b) ==
  /\ pc[b] = "size"
  /\ sized' = sized \cup {shm[b]}
  /\ pc' = [pc EXCEPT ![b] = "zero"]
  /\ UNCHANGED <<name, valid, in_write_pos, in_read_pos, flags, runs, shm, exit, alone,
                 owner, pluginVars>>

\* Removes the name first, and unmaps the segment with its flags set.
UnlinkFirst(b) ==
  /\ pc[b] = "clear"
  /\ name' = None
  /\ pc' = [pc EXCEPT ![b] = "unlink"]
  /\ UNCHANGED <<segVars, runs, shm, exit, alone, owner, pluginVars>>

\* Leaves STREAMING set while it closes the device.
LeaveLoopKeepsFlag(b) ==
  /\ pc[b] = "streaming"
  /\ pc' = [pc EXCEPT ![b] = "close"]
  /\ exit' = [exit EXCEPT ![b] = "success"]
  /\ UNCHANGED <<name, segVars, runs, shm, alone, owner, pluginVars>>

\* Goes on without a descriptor when shm_open fails.
OpenNameUnchecked ==
  /\ ppc = "connect" /\ m_shm = None
  /\ fd' = name
  /\ ppc' = "map"
  /\ UNCHANGED <<name, segVars, bridgeVars, m_shm, in_wp, io, restarts>>

\* Maps the segment without looking at its header.
MapUnvalidated ==
  /\ ppc = "map"
  /\ m_shm' = fd
  /\ in_wp' = in_write_pos[fd]
  /\ ppc' = "sync"
  /\ UNCHANGED <<name, segVars, bridgeVars, fd, io, restarts>>

\* Starts reading at the beginning of the ring.
SyncAtZero ==
  /\ ppc = "sync"
  /\ in_read_pos' = [in_read_pos EXCEPT ![m_shm] = 0]
  /\ ppc' = "idle"
  /\ io' = IF io = "starting" THEN "running" ELSE io
  /\ UNCHANGED <<name, sized, valid, in_write_pos, flags, bridgeVars, fd, m_shm, in_wp, restarts>>

\* Connects from the factory only.
StartIOUnconnected ==
  /\ ppc = "idle" /\ io = "stopped"
  /\ io' = "running"
  /\ UNCHANGED <<name, segVars, bridgeVars, ppc, fd, m_shm, in_wp, restarts>>

-----------------------------------------------------------------------------
(***************************************************************************)
(* create_shared_memory of bridge b.                                       *)
(***************************************************************************)

\* launchd runs its job at load and after every exit that was not successful.
\* Anybody may run another one by hand.
Run(b) ==
  /\ pc[b] = "off"
  /\ b = Job => exit[b] # "success"
  /\ runs < MaxRuns
  /\ runs' = runs + 1
  /\ shm' = [shm EXCEPT ![b] = runs + 1]
  /\ pc' = [pc EXCEPT ![b] = "begin"]
  /\ alone' = IF \A c \in Bridges : pc[c] = "off" THEN {b} ELSE {}
  /\ exit' = [exit EXCEPT ![b] = "none"]
  /\ UNCHANGED <<name, segVars, owner, pluginVars>>

\* "Remove stale segment if it exists": whatever has the name, the segment of a
\* bridge that streams included.
UnlinkStale(b) ==
  /\ pc[b] = "begin"
  /\ name' = None
  /\ pc' = [pc EXCEPT ![b] = "create"]
  /\ UNCHANGED <<segVars, runs, shm, exit, alone, owner, pluginVars>>

\* shm_open with O_CREAT and without O_EXCL: a segment that another bridge has
\* created since the unlink is opened as it is.
OpenSegment(b) ==
  /\ pc[b] = "create"
  /\ name' = IF name = None THEN shm[b] ELSE name
  /\ shm' = [shm EXCEPT ![b] = name']
  /\ pc' = [pc EXCEPT ![b] = "size"]
  /\ UNCHANGED <<segVars, runs, exit, alone, owner, pluginVars>>

\* ftruncate.  macOS gives a segment its size once: on one that has a size
\* already the call fails.
SizeSegment(b) ==
  /\ pc[b] = "size"
  /\ shm[b] \notin sized
  /\ sized' = sized \cup {shm[b]}
  /\ pc' = [pc EXCEPT ![b] = "zero"]
  /\ UNCHANGED <<name, valid, in_write_pos, in_read_pos, flags, runs, shm, exit, alone,
                 owner, pluginVars>>

\* The system takes back what the process had, the USB interface included.
Ended(b, status) ==
  /\ pc' = [pc EXCEPT ![b] = "off"]
  /\ exit' = [exit EXCEPT ![b] = status]
  /\ shm' = [shm EXCEPT ![b] = None]
  /\ owner' = IF owner = b THEN None ELSE owner
  /\ alone' = alone \ {b}
  /\ UNCHANGED runs

\* shm_open, ftruncate or mmap fails.  After shm_open the name is removed again.
CreateFails(b) ==
  /\ pc[b] \in {"create", "size", "zero"}
  /\ name' = IF pc[b] = "create" THEN name ELSE None
  /\ Ended(b, "failure")
  /\ UNCHANGED <<segVars, pluginVars>>

\* shm_init: memset, the header, the atomic counters and flags.
Reset(s) ==
  /\ in_write_pos' = [in_write_pos EXCEPT ![s] = 0]
  /\ in_read_pos' = [in_read_pos EXCEPT ![s] = 0]
  /\ flags' = [flags EXCEPT ![s] = {}]

Zero(b) ==
  /\ pc[b] = "zero"
  /\ valid' = valid \ {shm[b]}
  /\ Reset(shm[b])
  /\ pc' = [pc EXCEPT ![b] = "header"]
  /\ UNCHANGED <<name, sized, runs, shm, exit, alone, owner, pluginVars>>

WriteHeader(b) ==
  /\ pc[b] = "header"
  /\ valid' = valid \cup {shm[b]}
  /\ pc' = [pc EXCEPT ![b] = "reset"]
  /\ UNCHANGED <<name, sized, in_write_pos, in_read_pos, flags, runs, shm, exit, alone,
                 owner, pluginVars>>

ResetCounters(b) ==
  /\ pc[b] = "reset"
  /\ Reset(shm[b])
  /\ pc' = [pc EXCEPT ![b] = "open"]
  /\ UNCHANGED <<name, sized, valid, runs, shm, exit, alone, owner, pluginVars>>

-----------------------------------------------------------------------------
(***************************************************************************)
(* The rest of main(), as far as others see it (Bridge has the details).   *)
(***************************************************************************)
\* Only one process can claim the interface; the claim and the store of the flags are
\* one step.
OpenDevice(b) ==
  /\ pc[b] = "open"
  /\ owner = None
  /\ owner' = b
  /\ flags' = [flags EXCEPT ![shm[b]] = @ \cup Online]
  /\ pc' = [pc EXCEPT ![b] = "start"]
  /\ UNCHANGED <<name, sized, valid, in_write_pos, in_read_pos, runs, shm, exit, alone, pluginVars>>

StartEngine(b) ==
  /\ pc[b] = "start"
  /\ flags' = [flags EXCEPT ![shm[b]] = @ \cup {"STREAMING"}]
  /\ pc' = [pc EXCEPT ![b] = "streaming"]
  /\ UNCHANGED <<name, sized, valid, in_write_pos, in_read_pos, runs, shm, exit, alone,
                 owner, pluginVars>>

\* No device, or no engine: main() returns 1.
StartupFails(b) ==
  /\ pc[b] \in {"open", "start"}
  /\ pc' = [pc EXCEPT ![b] = "clear"]
  /\ exit' = [exit EXCEPT ![b] = "failure"]
  /\ UNCHANGED <<name, segVars, runs, shm, alone, owner, pluginVars>>

\* The callback of an IN transfer writes to the ring, in a round of the loop or in
\* one of the two that drain the transfers after STREAMING is cleared.
Produce(b) ==
  /\ pc[b] \in {"streaming", "close"}
  /\ in_write_pos[shm[b]] < MaxPos
  /\ in_write_pos' = [in_write_pos EXCEPT ![shm[b]] = @ + 1]
  /\ UNCHANGED <<name, sized, valid, in_read_pos, flags, bridgeVars, pluginVars>>

\* A signal, a disconnect or an error ends the loop.
LeaveLoop(b) ==
  /\ pc[b] = "streaming"
  /\ flags' = [flags EXCEPT ![shm[b]] = @ \ {"STREAMING"}]
  /\ pc' = [pc EXCEPT ![b] = "close"]
  /\ exit' = [exit EXCEPT ![b] = "success"]
  /\ UNCHANGED <<name, sized, valid, in_write_pos, in_read_pos, runs, shm, alone, owner,
                 pluginVars>>

CloseDevice(b) ==
  /\ pc[b] = "close"
  /\ owner' = None
  /\ pc' = [pc EXCEPT ![b] = "clear"]
  /\ UNCHANGED <<name, segVars, runs, shm, exit, alone, pluginVars>>

\* destroy_shared_memory clears the flags, then removes the name, whatever it
\* stands for.  On the way out of a failed start the device is closed last.
ClearFlags(b) ==
  /\ pc[b] = "clear"
  /\ flags' = [flags EXCEPT ![shm[b]] = {}]
  /\ pc' = [pc EXCEPT ![b] = "unlink"]
  /\ UNCHANGED <<name, sized, valid, in_write_pos, in_read_pos, runs, shm, exit, alone,
                 owner, pluginVars>>

UnlinkAndExit(b) ==
  /\ pc[b] = "unlink"
  /\ name' = None
  /\ Ended(b, exit[b])
  /\ UNCHANGED <<segVars, pluginVars>>

\* SIGKILL or a crash: the name and the segment stay as they are.
Kill(b) ==
  /\ pc[b] # "off"
  /\ Ended(b, "killed")
  /\ UNCHANGED <<name, segVars, pluginVars>>

BridgeStep(b) ==
  \/ UnlinkStale(b) \/ OpenSegment(b) \/ SizeSegment(b) \/ CreateFails(b)
  \/ Zero(b) \/ WriteHeader(b) \/ ResetCounters(b)
  \/ OpenDevice(b) \/ StartEngine(b) \/ StartupFails(b)
  \/ CloseDevice(b) \/ ClearFlags(b) \/ UnlinkAndExit(b)

-----------------------------------------------------------------------------
(***************************************************************************)
(* The plugin.  ConnectToShm is called by the factory and by OnStartIO,    *)
(* never while IO runs; io is "starting" in the latter case.               *)
(***************************************************************************)
Returned ==
  /\ ppc' = "idle"
  /\ in_wp' = 0
  /\ io' = IF io = "starting" THEN "running" ELSE io

\* shm_open.
OpenName ==
  /\ ppc = "connect"
  /\ name # None
  /\ fd' = name
  /\ ppc' = "map"
  /\ UNCHANGED <<name, segVars, bridgeVars, m_shm, in_wp, io, restarts>>

NameNotFound ==
  /\ ppc = "connect"
  /\ name = None
  /\ Returned
  /\ UNCHANGED <<name, segVars, bridgeVars, fd, m_shm, restarts>>

\* mmap and shm_validate succeed: m_shm is set, and in_write_pos loaded, in one step.
MapSegment ==
  /\ ppc = "map"
  /\ fd \in sized /\ fd \in valid
  /\ m_shm' = fd
  /\ in_wp' = in_write_pos[fd]
  /\ ppc' = "sync"
  /\ UNCHANGED <<name, segVars, bridgeVars, fd, io, restarts>>

\* The segment has no size yet, or its header is not written yet.
SegmentInvalid ==
  /\ ppc = "map"
  /\ ~(fd \in sized /\ fd \in valid)
  /\ fd' = None
  /\ Returned
  /\ UNCHANGED <<name, segVars, bridgeVars, m_shm, restarts>>

SyncReadPos ==
  /\ ppc = "sync"
  /\ in_read_pos' = [in_read_pos EXCEPT ![m_shm] = in_wp]
  /\ Returned
  /\ UNCHANGED <<name, sized, valid, in_write_pos, flags, bridgeVars, fd, m_shm, restarts>>

ConnectStep == OpenName \/ NameNotFound \/ MapSegment \/ SegmentInvalid \/ SyncReadPos

\* libASPL calls it for the first client that starts IO.
OnStartIO ==
  /\ ppc = "idle" /\ io = "stopped"
  /\ IF m_shm = None
       THEN ppc' = "connect" /\ io' = "starting"
       ELSE io' = "running" /\ UNCHANGED ppc
  /\ UNCHANGED <<name, segVars, bridgeVars, fd, m_shm, in_wp, restarts>>

\* "Keep shm connected - bridge may still be running for next start".
OnStopIO ==
  /\ io = "running"
  /\ io' = "stopped"
  /\ UNCHANGED <<name, segVars, bridgeVars, ppc, fd, m_shm, in_wp, restarts>>

\* A read consumes part of what is there, or skips all of it.
OnReadClientInput ==
  /\ io = "running" /\ m_shm # None
  /\ \E pos \in in_read_pos[m_shm] + 1 .. in_write_pos[m_shm] :
       in_read_pos' = [in_read_pos EXCEPT ![m_shm] = pos]
  /\ UNCHANGED <<name, sized, valid, in_write_pos, flags, bridgeVars, pluginVars>>

\* coreaudiod ends at any point, and its successor loads the plugin anew.
RestartCoreaudiod ==
  /\ restarts < MaxRestarts
  /\ restarts' = restarts + 1
  /\ ppc' = "connect"
  /\ fd' = None
  /\ m_shm' = None
  /\ in_wp' = 0
  /\ io' = "stopped"
  /\ UNCHANGED <<name, segVars, bridgeVars>>

Next ==
  \/ \E b \in Bridges : Run(b) \/ BridgeStep(b) \/ Produce(b) \/ LeaveLoop(b) \/ Kill(b)
  \/ ConnectStep \/ OnStartIO \/ OnStopIO \/ OnReadClientInput
  \/ RestartCoreaudiod

Spec == Init /\ [][Next]_vars

\* A call of ConnectToShm goes on until it returns.  Nothing else is assumed: the
\* clients of the plugin need not start or stop IO, nor the bridges run.
FairSpec == Spec /\ WF_vars(ConnectStep)

-----------------------------------------------------------------------------
(***************************************************************************)
(* Properties.                                                             *)
(***************************************************************************)
\* The state has its types: nothing is mapped without a descriptor, and nothing
\* is connected without a segment.
TypeOK ==
  /\ name \in Segments \cup {None}
  /\ sized \subseteq Segments
  /\ valid \subseteq Segments
  /\ in_write_pos \in [Segments -> 0 .. MaxPos]
  /\ in_read_pos \in [Segments -> 0 .. MaxPos]
  /\ flags \in [Segments -> SUBSET {"RUNNING", "DEVICE_OK", "STREAMING"}]
  /\ runs \in 0 .. MaxRuns
  /\ pc \in [Bridges -> {"off", "begin", "create", "size"} \cup Mapped]
  /\ shm \in [Bridges -> Segments \cup {None}]
  /\ exit \in [Bridges -> {"none", "success", "failure", "killed"}]
  /\ alone \subseteq Bridges
  /\ owner \in Bridges \cup {None}
  /\ ppc \in {"connect", "map", "sync", "idle"}
  /\ fd \in Segments \cup {None} /\ (ppc = "map" => fd # None)
  /\ m_shm \in Segments \cup {None} /\ (ppc = "sync" => m_shm # None)
  /\ in_wp \in 0 .. MaxPos
  /\ io \in {"stopped", "starting", "running"}
  /\ restarts \in 0 .. MaxRestarts

\* However two bridges that start at the same time interleave their unlink, open
\* and ftruncate, they never initialise and write the same segment: the rings
\* have a single producer.
OneProducer ==
  \A b, c \in Bridges : pc[b] \in Mapped /\ pc[c] \in Mapped /\ shm[b] = shm[c] => b = c

\* The segment the plugin is connected to, orphaned or not, keeps a valid header
\* and positions that never cross, even if the plugin connected in the middle of
\* shm_init or of a restart.
ConnectedIsSound ==
  /\ m_shm # None => m_shm \in sized /\ m_shm \in valid
  /\ ppc = "sync" => in_wp <= in_write_pos[m_shm]
  /\ \A s \in Segments : in_read_pos[s] <= in_write_pos[s]

\* A segment says STREAMING only while its bridge has the device, or after that
\* bridge was killed: two live bridges never both stream.
StreamingHasDevice ==
  \A b \in Bridges :
    pc[b] \in Mapped /\ "STREAMING" \in flags[shm[b]] => owner = b

\* A bridge that ran without a rival keeps its name: whoever opens the name while
\* it streams gets its segment.
LoneBridgeHasName ==
  \A b \in Bridges : b \in alone /\ pc[b] \in Mapped => name = shm[b]

\* "Fixed header (initialized once by bridge)", "position counters are
\* monotonically increasing": no restart ever resets a segment that is in use.
NeverReset ==
  [][\A s \in Segments :
       /\ s \in valid => s \in valid'
       /\ in_write_pos'[s] >= in_write_pos[s]
       /\ in_read_pos'[s] >= in_read_pos[s]]_vars

\* A bridge that ends by itself leaves no flags behind for those who still have
\* its segment mapped, on whatever path it ends; only a kill does.
NoFlagsLeft ==
  [][\A b \in Bridges :
       pc[b] \in Mapped /\ pc'[b] = "off" /\ exit'[b] # "killed" =>
         flags'[shm[b]] = {}]_vars

\* Bridge b streams on the segment that the name stands for.
Live(s) == s = name /\ \E b \in Bridges : pc[b] = "streaming" /\ shm[b] = s

\* A plugin that is not connected and whose IO is stopped while a bridge streams
\* gets connected to it by the next start of IO, unless its clients never start IO
\* again, or the bridge stops or loses its name first.  A plugin whose IO already
\* runs is promised nothing: it plays silence until its clients stop IO.
Connects ==
  \A s \in Segments :
    io = "stopped" /\ ppc \in {"idle", "connect"} /\ m_shm = None /\ Live(s)
      ~> m_shm = s \/ ~Live(s) \/ [](io = "stopped")

-----------------------------------------------------------------------------
(***************************************************************************)
(* The inductive strengthening of the safety properties.                   *)
(***************************************************************************)

\* A live bridge has a segment, and one that is past ftruncate has given it its
\* size; a segment without a size is as shm_open left it.
SizedInv ==
  /\ \A b \in Bridges : pc[b] # "off" => shm[b] # None
  /\ \A b \in Bridges : pc[b] \in Mapped => shm[b] \in sized
  /\ \A s \in Segments \ sized :
       s \notin valid /\ in_write_pos[s] = 0 /\ in_read_pos[s] = 0 /\ flags[s] = {}

\* How far a segment is initialised, and what its bridge has announced in it.
StageInv ==
  \A b \in Bridges :
    /\ pc[b] \in {"zero", "header"} => shm[b] \notin valid
    /\ pc[b] \in {"zero", "header", "reset", "open", "start"} =>
         in_write_pos[shm[b]] = 0 /\ in_read_pos[shm[b]] = 0
    /\ pc[b] \in {"zero", "header", "reset", "open", "unlink"} => flags[shm[b]] = {}
    /\ pc[b] \in Mapped \ {"streaming"} => "STREAMING" \notin flags[shm[b]]
    /\ pc[b] \in {"start", "streaming", "close"} => owner = b

\* The position the plugin is about to store is not behind the one it replaces,
\* and nobody reads before it is stored.
SyncInv ==
  /\ io = "running" => ppc = "idle"
  /\ ppc = "sync" => in_read_pos[m_shm] <= in_wp

\* Without a rival nobody else creates or removes the name.
AloneInv ==
  \A b \in Bridges : b \in alone =>
    /\ pc[b] # "off"
    /\ \A c \in Bridges \ {b} : pc[c] = "off"
    /\ pc[b] = "create" => name = None
    /\ pc[b] \in Mapped \cup {"size"} => name = shm[b]

IInv ==
  TypeOK /\ OneProducer /\ ConnectedIsSound /\ SizedInv /\ StageInv /\ SyncInv /\ AloneInv

-----------------------------------------------------------------------------
(***************************************************************************)
(* Claims of the documentation that the code does not keep.                *)
(***************************************************************************)
\* "connects/disconnects shared memory on IO start/stop": a plugin that starts IO
\* while a bridge streams is not connected to anything else than that bridge.
StartsOnLiveBridge ==
  [][io = "stopped" /\ io' # "stopped" /\ Live(name) => m_shm \in {None, name}]_vars

=============================================================================
