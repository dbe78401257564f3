-------------------------- MODULE Lifecycle_proofs --------------------------
(***************************************************************************)
(* Proofs about Lifecycle, for any number of bridges, runs, positions and  *)
(* restarts of coreaudiod: IInv is inductive, and implies the safety       *)
(* properties.  Each lemma is about one part of it and says which other    *)
(* parts it rests on; it has one step per action, or one for all actions   *)
(* of the plugin where these leave alone what the part is about.           *)
(***************************************************************************)
EXTENDS Lifecycle, TLAPS

\* The steps of the bridges, and of the plugin.
BridgeAction(b) == Run(b) \/ BridgeStep(b) \/ Produce(b) \/ LeaveLoop(b) \/ Kill(b)
PluginAction ==
  ConnectStep \/ OnStartIO \/ OnStopIO \/ OnReadClientInput \/ RestartCoreaudiod

LEMMA NextIsAnAction == Next <=> (\E b \in Bridges : BridgeAction(b)) \/ PluginAction
  BY DEF Next, BridgeAction, PluginAction

\* The plugin writes nothing but in_read_pos, and nothing of the bridges'.
LEMMA PluginChanges ==
  ASSUME PluginAction
  PROVE  UNCHANGED <<name, sized, valid, in_write_pos, flags, bridgeVars>>
  BY DEF PluginAction, ConnectStep, OpenName, NameNotFound, MapSegment, SegmentInvalid,
         SyncReadPos, OnStartIO, OnStopIO, OnReadClientInput, RestartCoreaudiod, segVars, bridgeVars

\* Initially nothing is created, announced or connected.
LEMMA InvInit == Init => IInv
  <1> SUFFICES ASSUME Init PROVE IInv
    OBVIOUS
  <1>1. TypeOK
    BY BoundAssumption DEF Init, TypeOK, Segments, None, Mapped
  <1>2. OneProducer /\ ConnectedIsSound /\ AloneInv
    BY DEF Init, OneProducer, ConnectedIsSound, AloneInv, Mapped
  <1>3. SizedInv /\ StageInv /\ SyncInv
    BY DEF Init, SizedInv, StageInv, SyncInv, Mapped
  <1>4. QED
    BY <1>1, <1>2, <1>3 DEF IInv

\* The types: nothing is created past the bound on runs, mapped without a
\* descriptor, or announced that is not a flag.
LEMMA TypeStep ==
  ASSUME TypeOK, SizedInv, [Next]_vars
  PROVE  TypeOK'
  <1> USE BoundAssumption DEF TypeOK, SizedInv, Segments, None, Mapped, segVars, bridgeVars,
          pluginVars
  <1>1. ASSUME NEW b \in Bridges, Run(b) PROVE TypeOK'
    <2>1. runs' \in Segments
      BY <1>1 DEF Run
    <2>2. shm' \in [Bridges -> Segments \cup {None}]
      BY <1>1, <2>1 DEF Run
    <2>3. pc' \in [Bridges -> {"off", "begin", "create", "size"} \cup Mapped]
      BY <1>1 DEF Run
    <2>4. exit' \in [Bridges -> {"none", "success", "failure", "killed"}]
      BY <1>1 DEF Run
    <2>5. alone' \subseteq Bridges /\ runs' \in 0 .. MaxRuns
      BY <1>1 DEF Run
    <2>6. UNCHANGED <<name, segVars, owner, pluginVars>>
      BY <1>1 DEF Run
    <2>7. QED
      BY <2>2, <2>3, <2>4, <2>5, <2>6
  <1>2. ASSUME NEW b \in Bridges, UnlinkStale(b) PROVE TypeOK'
    BY <1>2 DEF UnlinkStale
  <1>3. ASSUME NEW b \in Bridges, OpenSegment(b) PROVE TypeOK'
    BY <1>3 DEF OpenSegment
  <1>4. ASSUME NEW b \in Bridges, SizeSegment(b) PROVE TypeOK'
    BY <1>4 DEF SizeSegment
  <1>5. ASSUME NEW b \in Bridges, CreateFails(b) PROVE TypeOK'
    BY <1>5 DEF CreateFails, Ended
  <1>6. ASSUME NEW b \in Bridges, Zero(b) PROVE TypeOK'
    <2>1. shm[b] \in Segments
      BY <1>6 DEF Zero
    <2>2. in_write_pos' \in [Segments -> 0 .. MaxPos] /\ in_read_pos' \in [Segments -> 0 .. MaxPos]
      BY <1>6, <2>1 DEF Zero, Reset
    <2>3. flags' \in [Segments -> SUBSET {"RUNNING", "DEVICE_OK", "STREAMING"}]
      BY <1>6, <2>1 DEF Zero, Reset
    <2>4. pc' \in [Bridges -> {"off", "begin", "create", "size"} \cup Mapped]
      BY <1>6 DEF Zero
    <2>5. valid' \subseteq Segments
      BY <1>6 DEF Zero
    <2>6. UNCHANGED <<name, sized, runs, shm, exit, alone, owner, pluginVars>>
      BY <1>6 DEF Zero
    <2>7. QED
      BY <2>2, <2>3, <2>4, <2>5, <2>6
  <1>7. ASSUME NEW b \in Bridges, WriteHeader(b) PROVE TypeOK'
    BY <1>7 DEF WriteHeader
  <1>8. ASSUME NEW b \in Bridges, ResetCounters(b) PROVE TypeOK'
    BY <1>8 DEF ResetCounters, Reset
  <1>9. ASSUME NEW b \in Bridges, OpenDevice(b) PROVE TypeOK'
    BY <1>9 DEF OpenDevice, Online
  <1>10. ASSUME NEW b \in Bridges, StartEngine(b) PROVE TypeOK'
    BY <1>10 DEF StartEngine
  <1>11. ASSUME NEW b \in Bridges, StartupFails(b) PROVE TypeOK'
    BY <1>11 DEF StartupFails
  <1>12. ASSUME NEW b \in Bridges, Produce(b) PROVE TypeOK'
    <2>1. shm[b] \in Segments
      BY <1>12 DEF Produce
    <2>2. in_write_pos[shm[b]] + 1 \in 0 .. MaxPos
      BY <1>12, <2>1 DEF Produce
    <2>3. in_write_pos' \in [Segments -> 0 .. MaxPos]
      BY <1>12, <2>2 DEF Produce
    <2>4. UNCHANGED <<name, sized, valid, in_read_pos, flags, bridgeVars, pluginVars>>
      BY <1>12 DEF Produce
    <2>5. QED
      BY <2>3, <2>4
  <1>13. ASSUME NEW b \in Bridges, LeaveLoop(b) PROVE TypeOK'
    BY <1>13 DEF LeaveLoop
  <1>14. ASSUME NEW b \in Bridges, CloseDevice(b) PROVE TypeOK'
    BY <1>14 DEF CloseDevice
  <1>15. ASSUME NEW b \in Bridges, ClearFlags(b) PROVE TypeOK'
    BY <1>15 DEF ClearFlags
  <1>16. ASSUME NEW b \in Bridges, UnlinkAndExit(b) PROVE TypeOK'
    BY <1>16 DEF UnlinkAndExit, Ended
  <1>17. ASSUME NEW b \in Bridges, Kill(b) PROVE TypeOK'
    BY <1>17 DEF Kill, Ended
  <1>18. CASE OpenName
    BY <1>18 DEF OpenName
  <1>19. CASE NameNotFound
    BY <1>19 DEF NameNotFound, Returned
  <1>20. CASE MapSegment
    BY <1>20 DEF MapSegment
  <1>21. CASE SegmentInvalid
    BY <1>21 DEF SegmentInvalid, Returned
  <1>22. CASE SyncReadPos
    <2>1. in_read_pos' \in [Segments -> 0 .. MaxPos]
      BY <1>22 DEF SyncReadPos
    <2>2. ppc' = "idle" /\ in_wp' = 0 /\ io' \in {"stopped", "starting", "running"}
      BY <1>22 DEF SyncReadPos, Returned
    <2>3. UNCHANGED <<name, sized, valid, in_write_pos, flags, bridgeVars, fd, m_shm, restarts>>
      BY <1>22 DEF SyncReadPos
    <2>4. in_wp' \in 0 .. MaxPos /\ ppc' \in {"connect", "map", "sync", "idle"}
      BY <2>2
    <2>5. (ppc' = "map" => fd' # None) /\ (ppc' = "sync" => m_shm' # None)
      BY <2>2
    <2>6. QED
      BY <2>1, <2>2, <2>3, <2>4, <2>5
  <1>23. CASE OnStartIO
    BY <1>23 DEF OnStartIO
  <1>24. CASE OnStopIO
    BY <1>24 DEF OnStopIO
  <1>25. CASE OnReadClientInput
    <2>1. PICK pos \in in_read_pos[m_shm] + 1 .. in_write_pos[m_shm] :
            in_read_pos' = [in_read_pos EXCEPT ![m_shm] = pos]
      BY <1>25 DEF OnReadClientInput
    <2>2. m_shm \in Segments /\ pos \in 0 .. MaxPos
      BY <1>25 DEF OnReadClientInput
    <2>3. in_read_pos' \in [Segments -> 0 .. MaxPos]
      BY <2>1, <2>2
    <2>4. UNCHANGED <<name, sized, valid, in_write_pos, flags, bridgeVars, pluginVars>>
      BY <1>25 DEF OnReadClientInput
    <2>5. QED
      BY <2>3, <2>4
  <1>26. CASE RestartCoreaudiod
    BY <1>26 DEF RestartCoreaudiod
  <1>27. CASE UNCHANGED vars
    BY <1>27 DEF vars
  <1>28. QED
    BY <1>1, <1>2, <1>3, <1>4, <1>5, <1>6, <1>7, <1>8, <1>9, <1>10, <1>11, <1>12,
       <1>13, <1>14, <1>15, <1>16, <1>17, <1>18, <1>19, <1>20, <1>21, <1>22, <1>23,
       <1>24, <1>25, <1>26, <1>27, NextIsAnAction DEF BridgeAction, BridgeStep,
       PluginAction, ConnectStep

\* A segment gets its size before anything else, and only once.
LEMMA SizedStep ==
  ASSUME TypeOK, SizedInv, ConnectedIsSound, [Next]_vars
  PROVE  SizedInv'
  <1> USE DEF TypeOK, SizedInv, ConnectedIsSound, Segments, None, Mapped, segVars, bridgeVars,
          pluginVars
  <1>1. ASSUME NEW b \in Bridges, Run(b) PROVE SizedInv'
    BY <1>1 DEF Run
  <1>2. ASSUME NEW b \in Bridges, UnlinkStale(b) PROVE SizedInv'
    BY <1>2 DEF UnlinkStale
  <1>3. ASSUME NEW b \in Bridges, OpenSegment(b) PROVE SizedInv'
    BY <1>3 DEF OpenSegment
  <1>4. ASSUME NEW b \in Bridges, SizeSegment(b) PROVE SizedInv'
    BY <1>4 DEF SizeSegment
  <1>5. ASSUME NEW b \in Bridges, CreateFails(b) PROVE SizedInv'
    BY <1>5 DEF CreateFails, Ended
  <1>6. ASSUME NEW b \in Bridges, Zero(b) PROVE SizedInv'
    BY <1>6 DEF Zero, Reset
  <1>7. ASSUME NEW b \in Bridges, WriteHeader(b) PROVE SizedInv'
    BY <1>7 DEF WriteHeader
  <1>8. ASSUME NEW b \in Bridges, ResetCounters(b) PROVE SizedInv'
    BY <1>8 DEF ResetCounters, Reset
  <1>9. ASSUME NEW b \in Bridges, OpenDevice(b) PROVE SizedInv'
    BY <1>9 DEF OpenDevice, Online
  <1>10. ASSUME NEW b \in Bridges, StartEngine(b) PROVE SizedInv'
    BY <1>10 DEF StartEngine
  <1>11. ASSUME NEW b \in Bridges, StartupFails(b) PROVE SizedInv'
    BY <1>11 DEF StartupFails
  <1>12. ASSUME NEW b \in Bridges, Produce(b) PROVE SizedInv'
    BY <1>12 DEF Produce
  <1>13. ASSUME NEW b \in Bridges, LeaveLoop(b) PROVE SizedInv'
    BY <1>13 DEF LeaveLoop
  <1>14. ASSUME NEW b \in Bridges, CloseDevice(b) PROVE SizedInv'
    BY <1>14 DEF CloseDevice
  <1>15. ASSUME NEW b \in Bridges, ClearFlags(b) PROVE SizedInv'
    BY <1>15 DEF ClearFlags
  <1>16. ASSUME NEW b \in Bridges, UnlinkAndExit(b) PROVE SizedInv'
    BY <1>16 DEF UnlinkAndExit, Ended
  <1>17. ASSUME NEW b \in Bridges, Kill(b) PROVE SizedInv'
    BY <1>17 DEF Kill, Ended
  <1>18. CASE OpenName
    BY <1>18 DEF OpenName
  <1>19. CASE NameNotFound
    BY <1>19 DEF NameNotFound, Returned
  <1>20. CASE MapSegment
    BY <1>20 DEF MapSegment
  <1>21. CASE SegmentInvalid
    BY <1>21 DEF SegmentInvalid, Returned
  <1>22. CASE SyncReadPos
    BY <1>22 DEF SyncReadPos, Returned
  <1>23. CASE OnStartIO
    BY <1>23 DEF OnStartIO
  <1>24. CASE OnStopIO
    BY <1>24 DEF OnStopIO
  <1>25. CASE OnReadClientInput
    BY <1>25 DEF OnReadClientInput
  <1>26. CASE RestartCoreaudiod
    BY <1>26 DEF RestartCoreaudiod
  <1>27. CASE UNCHANGED vars
    BY <1>27 DEF vars
  <1>28. QED
    BY <1>1, <1>2, <1>3, <1>4, <1>5, <1>6, <1>7, <1>8, <1>9, <1>10, <1>11, <1>12,
       <1>13, <1>14, <1>15, <1>16, <1>17, <1>18, <1>19, <1>20, <1>21, <1>22, <1>23,
       <1>24, <1>25, <1>26, <1>27, NextIsAnAction DEF BridgeAction, BridgeStep,
       PluginAction, ConnectStep

\* Whoever passes ftruncate found a segment without a size, which nobody else
\* can have mapped.
LEMMA OneProducerStep ==
  ASSUME TypeOK, SizedInv, OneProducer, [Next]_vars
  PROVE  OneProducer'
  <1> USE DEF TypeOK, SizedInv, OneProducer, Segments, None, Mapped, segVars, bridgeVars,
          pluginVars
  <1>1. ASSUME NEW b \in Bridges, Run(b) PROVE OneProducer'
    BY <1>1 DEF Run
  <1>2. ASSUME NEW b \in Bridges, UnlinkStale(b) PROVE OneProducer'
    BY <1>2 DEF UnlinkStale
  <1>3. ASSUME NEW b \in Bridges, OpenSegment(b) PROVE OneProducer'
    BY <1>3 DEF OpenSegment
  <1>4. ASSUME NEW b \in Bridges, SizeSegment(b) PROVE OneProducer'
    BY <1>4 DEF SizeSegment
  <1>5. ASSUME NEW b \in Bridges, CreateFails(b) PROVE OneProducer'
    BY <1>5 DEF CreateFails, Ended
  <1>6. ASSUME NEW b \in Bridges, Zero(b) PROVE OneProducer'
    BY <1>6 DEF Zero, Reset
  <1>7. ASSUME NEW b \in Bridges, WriteHeader(b) PROVE OneProducer'
    BY <1>7 DEF WriteHeader
  <1>8. ASSUME NEW b \in Bridges, ResetCounters(b) PROVE OneProducer'
    BY <1>8 DEF ResetCounters, Reset
  <1>9. ASSUME NEW b \in Bridges, OpenDevice(b) PROVE OneProducer'
    BY <1>9 DEF OpenDevice, Online
  <1>10. ASSUME NEW b \in Bridges, StartEngine(b) PROVE OneProducer'
    BY <1>10 DEF StartEngine
  <1>11. ASSUME NEW b \in Bridges, StartupFails(b) PROVE OneProducer'
    BY <1>11 DEF StartupFails
  <1>12. ASSUME NEW b \in Bridges, Produce(b) PROVE OneProducer'
    BY <1>12 DEF Produce
  <1>13. ASSUME NEW b \in Bridges, LeaveLoop(b) PROVE OneProducer'
    BY <1>13 DEF LeaveLoop
  <1>14. ASSUME NEW b \in Bridges, CloseDevice(b) PROVE OneProducer'
    BY <1>14 DEF CloseDevice
  <1>15. ASSUME NEW b \in Bridges, ClearFlags(b) PROVE OneProducer'
    BY <1>15 DEF ClearFlags
  <1>16. ASSUME NEW b \in Bridges, UnlinkAndExit(b) PROVE OneProducer'
    BY <1>16 DEF UnlinkAndExit, Ended
  <1>17. ASSUME NEW b \in Bridges, Kill(b) PROVE OneProducer'
    BY <1>17 DEF Kill, Ended
  <1>18. CASE PluginAction
    BY <1>18, PluginChanges
  <1>19. CASE UNCHANGED vars
    BY <1>19 DEF vars
  <1>20. QED
    BY <1>1, <1>2, <1>3, <1>4, <1>5, <1>6, <1>7, <1>8, <1>9, <1>10, <1>11, <1>12,
       <1>13, <1>14, <1>15, <1>16, <1>17, <1>18, <1>19, NextIsAnAction DEF
       BridgeAction, BridgeStep

\* As a bridge has its segment for itself, what it is about to find there is what
\* it left there.
LEMMA StageStep ==
  ASSUME TypeOK, SizedInv, OneProducer, ConnectedIsSound, StageInv, [Next]_vars
  PROVE  StageInv'
  <1> USE NoneAssumption DEF TypeOK, SizedInv, OneProducer, ConnectedIsSound, StageInv,
          Segments, None, Mapped, segVars, bridgeVars, pluginVars
  <1>1. ASSUME NEW b \in Bridges, Run(b) PROVE StageInv'
    BY <1>1 DEF Run
  <1>2. ASSUME NEW b \in Bridges, UnlinkStale(b) PROVE StageInv'
    BY <1>2 DEF UnlinkStale
  <1>3. ASSUME NEW b \in Bridges, OpenSegment(b) PROVE StageInv'
    BY <1>3 DEF OpenSegment
  <1>4. ASSUME NEW b \in Bridges, SizeSegment(b) PROVE StageInv'
    BY <1>4 DEF SizeSegment
  <1>5. ASSUME NEW b \in Bridges, CreateFails(b) PROVE StageInv'
    BY <1>5 DEF CreateFails, Ended
  <1>6. ASSUME NEW b \in Bridges, Zero(b) PROVE StageInv'
    BY <1>6 DEF Zero, Reset
  <1>7. ASSUME NEW b \in Bridges, WriteHeader(b) PROVE StageInv'
    BY <1>7 DEF WriteHeader
  <1>8. ASSUME NEW b \in Bridges, ResetCounters(b) PROVE StageInv'
    BY <1>8 DEF ResetCounters, Reset
  <1>9. ASSUME NEW b \in Bridges, OpenDevice(b) PROVE StageInv'
    BY <1>9 DEF OpenDevice, Online
  <1>10. ASSUME NEW b \in Bridges, StartEngine(b) PROVE StageInv'
    BY <1>10 DEF StartEngine
  <1>11. ASSUME NEW b \in Bridges, StartupFails(b) PROVE StageInv'
    BY <1>11 DEF StartupFails
  <1>12. ASSUME NEW b \in Bridges, Produce(b) PROVE StageInv'
    BY <1>12 DEF Produce
  <1>13. ASSUME NEW b \in Bridges, LeaveLoop(b) PROVE StageInv'
    BY <1>13 DEF LeaveLoop
  <1>14. ASSUME NEW b \in Bridges, CloseDevice(b) PROVE StageInv'
    BY <1>14 DEF CloseDevice
  <1>15. ASSUME NEW b \in Bridges, ClearFlags(b) PROVE StageInv'
    BY <1>15 DEF ClearFlags
  <1>16. ASSUME NEW b \in Bridges, UnlinkAndExit(b) PROVE StageInv'
    BY <1>16 DEF UnlinkAndExit, Ended
  <1>17. ASSUME NEW b \in Bridges, Kill(b) PROVE StageInv'
    BY <1>17 DEF Kill, Ended
  <1>18. CASE OpenName
    BY <1>18 DEF OpenName
  <1>19. CASE NameNotFound
    BY <1>19 DEF NameNotFound, Returned
  <1>20. CASE MapSegment
    BY <1>20 DEF MapSegment
  <1>21. CASE SegmentInvalid
    BY <1>21 DEF SegmentInvalid, Returned
  <1>22. CASE SyncReadPos
    BY <1>22 DEF SyncReadPos, Returned
  <1>23. CASE OnStartIO
    BY <1>23 DEF OnStartIO
  <1>24. CASE OnStopIO
    BY <1>24 DEF OnStopIO
  <1>25. CASE OnReadClientInput
    BY <1>25 DEF OnReadClientInput
  <1>26. CASE RestartCoreaudiod
    BY <1>26 DEF RestartCoreaudiod
  <1>27. CASE UNCHANGED vars
    BY <1>27 DEF vars
  <1>28. QED
    BY <1>1, <1>2, <1>3, <1>4, <1>5, <1>6, <1>7, <1>8, <1>9, <1>10, <1>11, <1>12,
       <1>13, <1>14, <1>15, <1>16, <1>17, <1>18, <1>19, <1>20, <1>21, <1>22, <1>23,
       <1>24, <1>25, <1>26, <1>27, NextIsAnAction DEF BridgeAction, BridgeStep,
       PluginAction, ConnectStep

\* Only a segment that is not valid yet, so that nobody is connected to it, is
\* zeroed; the counters are reset when they are 0.
LEMMA ConnectedStep ==
  ASSUME TypeOK, SizedInv, OneProducer, StageInv, ConnectedIsSound, [Next]_vars
  PROVE  ConnectedIsSound'
  <1> USE DEF TypeOK, SizedInv, OneProducer, StageInv, ConnectedIsSound, Segments, None,
          Mapped, segVars, bridgeVars, pluginVars
  <1>1. ASSUME NEW b \in Bridges, Run(b) PROVE ConnectedIsSound'
    BY <1>1 DEF Run
  <1>2. ASSUME NEW b \in Bridges, UnlinkStale(b) PROVE ConnectedIsSound'
    BY <1>2 DEF UnlinkStale
  <1>3. ASSUME NEW b \in Bridges, OpenSegment(b) PROVE ConnectedIsSound'
    BY <1>3 DEF OpenSegment
  <1>4. ASSUME NEW b \in Bridges, SizeSegment(b) PROVE ConnectedIsSound'
    BY <1>4 DEF SizeSegment
  <1>5. ASSUME NEW b \in Bridges, CreateFails(b) PROVE ConnectedIsSound'
    BY <1>5 DEF CreateFails, Ended
  <1>6. ASSUME NEW b \in Bridges, Zero(b) PROVE ConnectedIsSound'
    BY <1>6 DEF Zero, Reset
  <1>7. ASSUME NEW b \in Bridges, WriteHeader(b) PROVE ConnectedIsSound'
    BY <1>7 DEF WriteHeader
  <1>8. ASSUME NEW b \in Bridges, ResetCounters(b) PROVE ConnectedIsSound'
    BY <1>8 DEF ResetCounters, Reset
  <1>9. ASSUME NEW b \in Bridges, OpenDevice(b) PROVE ConnectedIsSound'
    BY <1>9 DEF OpenDevice, Online
  <1>10. ASSUME NEW b \in Bridges, StartEngine(b) PROVE ConnectedIsSound'
    BY <1>10 DEF StartEngine
  <1>11. ASSUME NEW b \in Bridges, StartupFails(b) PROVE ConnectedIsSound'
    BY <1>11 DEF StartupFails
  <1>12. ASSUME NEW b \in Bridges, Produce(b) PROVE ConnectedIsSound'
    BY <1>12 DEF Produce
  <1>13. ASSUME NEW b \in Bridges, LeaveLoop(b) PROVE ConnectedIsSound'
    BY <1>13 DEF LeaveLoop
  <1>14. ASSUME NEW b \in Bridges, CloseDevice(b) PROVE ConnectedIsSound'
    BY <1>14 DEF CloseDevice
  <1>15. ASSUME NEW b \in Bridges, ClearFlags(b) PROVE ConnectedIsSound'
    BY <1>15 DEF ClearFlags
  <1>16. ASSUME NEW b \in Bridges, UnlinkAndExit(b) PROVE ConnectedIsSound'
    BY <1>16 DEF UnlinkAndExit, Ended
  <1>17. ASSUME NEW b \in Bridges, Kill(b) PROVE ConnectedIsSound'
    BY <1>17 DEF Kill, Ended
  <1>18. CASE OpenName
    BY <1>18 DEF OpenName
  <1>19. CASE NameNotFound
    BY <1>19 DEF NameNotFound, Returned
  <1>20. CASE MapSegment
    BY <1>20 DEF MapSegment
  <1>21. CASE SegmentInvalid
    BY <1>21 DEF SegmentInvalid, Returned
  <1>22. CASE SyncReadPos
    BY <1>22 DEF SyncReadPos, Returned
  <1>23. CASE OnStartIO
    BY <1>23 DEF OnStartIO
  <1>24. CASE OnStopIO
    BY <1>24 DEF OnStopIO
  <1>25. CASE OnReadClientInput
    BY <1>25 DEF OnReadClientInput
  <1>26. CASE RestartCoreaudiod
    BY <1>26 DEF RestartCoreaudiod
  <1>27. CASE UNCHANGED vars
    BY <1>27 DEF vars
  <1>28. QED
    BY <1>1, <1>2, <1>3, <1>4, <1>5, <1>6, <1>7, <1>8, <1>9, <1>10, <1>11, <1>12,
       <1>13, <1>14, <1>15, <1>16, <1>17, <1>18, <1>19, <1>20, <1>21, <1>22, <1>23,
       <1>24, <1>25, <1>26, <1>27, NextIsAnAction DEF BridgeAction, BridgeStep,
       PluginAction, ConnectStep

\* The position that the plugin loaded stays between those of its segment.
LEMMA SyncStep ==
  ASSUME TypeOK, SizedInv, StageInv, ConnectedIsSound, SyncInv, [Next]_vars
  PROVE  SyncInv'
  <1> USE DEF TypeOK, SizedInv, StageInv, ConnectedIsSound, SyncInv, Segments, None, Mapped,
          segVars, bridgeVars, pluginVars
  <1>1. ASSUME NEW b \in Bridges, Run(b) PROVE SyncInv'
    BY <1>1 DEF Run
  <1>2. ASSUME NEW b \in Bridges, UnlinkStale(b) PROVE SyncInv'
    BY <1>2 DEF UnlinkStale
  <1>3. ASSUME NEW b \in Bridges, OpenSegment(b) PROVE SyncInv'
    BY <1>3 DEF OpenSegment
  <1>4. ASSUME NEW b \in Bridges, SizeSegment(b) PROVE SyncInv'
    BY <1>4 DEF SizeSegment
  <1>5. ASSUME NEW b \in Bridges, CreateFails(b) PROVE SyncInv'
    BY <1>5 DEF CreateFails, Ended
  <1>6. ASSUME NEW b \in Bridges, Zero(b) PROVE SyncInv'
    BY <1>6 DEF Zero, Reset
  <1>7. ASSUME NEW b \in Bridges, WriteHeader(b) PROVE SyncInv'
    BY <1>7 DEF WriteHeader
  <1>8. ASSUME NEW b \in Bridges, ResetCounters(b) PROVE SyncInv'
    BY <1>8 DEF ResetCounters, Reset
  <1>9. ASSUME NEW b \in Bridges, OpenDevice(b) PROVE SyncInv'
    BY <1>9 DEF OpenDevice, Online
  <1>10. ASSUME NEW b \in Bridges, StartEngine(b) PROVE SyncInv'
    BY <1>10 DEF StartEngine
  <1>11. ASSUME NEW b \in Bridges, StartupFails(b) PROVE SyncInv'
    BY <1>11 DEF StartupFails
  <1>12. ASSUME NEW b \in Bridges, Produce(b) PROVE SyncInv'
    BY <1>12 DEF Produce
  <1>13. ASSUME NEW b \in Bridges, LeaveLoop(b) PROVE SyncInv'
    BY <1>13 DEF LeaveLoop
  <1>14. ASSUME NEW b \in Bridges, CloseDevice(b) PROVE SyncInv'
    BY <1>14 DEF CloseDevice
  <1>15. ASSUME NEW b \in Bridges, ClearFlags(b) PROVE SyncInv'
    BY <1>15 DEF ClearFlags
  <1>16. ASSUME NEW b \in Bridges, UnlinkAndExit(b) PROVE SyncInv'
    BY <1>16 DEF UnlinkAndExit, Ended
  <1>17. ASSUME NEW b \in Bridges, Kill(b) PROVE SyncInv'
    BY <1>17 DEF Kill, Ended
  <1>18. CASE OpenName
    BY <1>18 DEF OpenName
  <1>19. CASE NameNotFound
    BY <1>19 DEF NameNotFound, Returned
  <1>20. CASE MapSegment
    BY <1>20 DEF MapSegment
  <1>21. CASE SegmentInvalid
    BY <1>21 DEF SegmentInvalid, Returned
  <1>22. CASE SyncReadPos
    BY <1>22 DEF SyncReadPos, Returned
  <1>23. CASE OnStartIO
    BY <1>23 DEF OnStartIO
  <1>24. CASE OnStopIO
    BY <1>24 DEF OnStopIO
  <1>25. CASE OnReadClientInput
    BY <1>25 DEF OnReadClientInput
  <1>26. CASE RestartCoreaudiod
    BY <1>26 DEF RestartCoreaudiod
  <1>27. CASE UNCHANGED vars
    BY <1>27 DEF vars
  <1>28. QED
    BY <1>1, <1>2, <1>3, <1>4, <1>5, <1>6, <1>7, <1>8, <1>9, <1>10, <1>11, <1>12,
       <1>13, <1>14, <1>15, <1>16, <1>17, <1>18, <1>19, <1>20, <1>21, <1>22, <1>23,
       <1>24, <1>25, <1>26, <1>27, NextIsAnAction DEF BridgeAction, BridgeStep,
       PluginAction, ConnectStep

\* A bridge without a rival finds no name after its unlink, and keeps the one it
\* creates.
LEMMA AloneStep ==
  ASSUME TypeOK, SizedInv, AloneInv, [Next]_vars
  PROVE  AloneInv'
  <1> USE DEF TypeOK, SizedInv, AloneInv, Segments, None, Mapped, segVars, bridgeVars,
          pluginVars
  <1>1. ASSUME NEW b \in Bridges, Run(b) PROVE AloneInv'
    BY <1>1 DEF Run
  <1>2. ASSUME NEW b \in Bridges, UnlinkStale(b) PROVE AloneInv'
    BY <1>2 DEF UnlinkStale
  <1>3. ASSUME NEW b \in Bridges, OpenSegment(b) PROVE AloneInv'
    BY <1>3 DEF OpenSegment
  <1>4. ASSUME NEW b \in Bridges, SizeSegment(b) PROVE AloneInv'
    BY <1>4 DEF SizeSegment
  <1>5. ASSUME NEW b \in Bridges, CreateFails(b) PROVE AloneInv'
    BY <1>5 DEF CreateFails, Ended
  <1>6. ASSUME NEW b \in Bridges, Zero(b) PROVE AloneInv'
    BY <1>6 DEF Zero, Reset
  <1>7. ASSUME NEW b \in Bridges, WriteHeader(b) PROVE AloneInv'
    BY <1>7 DEF WriteHeader
  <1>8. ASSUME NEW b \in Bridges, ResetCounters(b) PROVE AloneInv'
    BY <1>8 DEF ResetCounters, Reset
  <1>9. ASSUME NEW b \in Bridges, OpenDevice(b) PROVE AloneInv'
    BY <1>9 DEF OpenDevice, Online
  <1>10. ASSUME NEW b \in Bridges, StartEngine(b) PROVE AloneInv'
    BY <1>10 DEF StartEngine
  <1>11. ASSUME NEW b \in Bridges, StartupFails(b) PROVE AloneInv'
    BY <1>11 DEF StartupFails
  <1>12. ASSUME NEW b \in Bridges, Produce(b) PROVE AloneInv'
    BY <1>12 DEF Produce
  <1>13. ASSUME NEW b \in Bridges, LeaveLoop(b) PROVE AloneInv'
    BY <1>13 DEF LeaveLoop
  <1>14. ASSUME NEW b \in Bridges, CloseDevice(b) PROVE AloneInv'
    BY <1>14 DEF CloseDevice
  <1>15. ASSUME NEW b \in Bridges, ClearFlags(b) PROVE AloneInv'
    BY <1>15 DEF ClearFlags
  <1>16. ASSUME NEW b \in Bridges, UnlinkAndExit(b) PROVE AloneInv'
    BY <1>16 DEF UnlinkAndExit, Ended
  <1>17. ASSUME NEW b \in Bridges, Kill(b) PROVE AloneInv'
    BY <1>17 DEF Kill, Ended
  <1>18. CASE PluginAction
    BY <1>18, PluginChanges
  <1>19. CASE UNCHANGED vars
    BY <1>19 DEF vars
  <1>20. QED
    BY <1>1, <1>2, <1>3, <1>4, <1>5, <1>6, <1>7, <1>8, <1>9, <1>10, <1>11, <1>12,
       <1>13, <1>14, <1>15, <1>16, <1>17, <1>18, <1>19, NextIsAnAction DEF
       BridgeAction, BridgeStep

\* The parts together.
LEMMA InvStep == IInv /\ [Next]_vars => IInv'
  BY TypeStep, SizedStep, OneProducerStep, StageStep, ConnectedStep, SyncStep, AloneStep DEF IInv

\* The invariant holds in every reachable state.
THEOREM LifecycleInvariant == Spec => []IInv
  BY InvInit, InvStep, PTL DEF Spec

\* The types of Lifecycle: no step of a bridge or of the plugin ever works on a
\* segment that it does not have.
THEOREM LifecycleTypeCorrect == Spec => []TypeOK
  <1>1. IInv => TypeOK
    BY DEF IInv
  <1>2. QED
    BY <1>1, LifecycleInvariant, PTL

\* However many bridges start together, unlink, open without O_EXCL and ftruncate
\* of create_shared_memory leave each segment to one of them.
THEOREM SegmentsHaveOneProducer == Spec => []OneProducer
  <1>1. IInv => OneProducer
    BY DEF IInv
  <1>2. QED
    BY <1>1, LifecycleInvariant, PTL

\* What ConnectToShm connected to stays valid, and positions never cross.
THEOREM ConnectionsAreSound == Spec => []ConnectedIsSound
  <1>1. IInv => ConnectedIsSound
    BY DEF IInv
  <1>2. QED
    BY <1>1, LifecycleInvariant, PTL

\* STREAMING in a live segment means that its bridge has the interface.
THEOREM StreamersHaveDevice == Spec => []StreamingHasDevice
  <1>1. IInv => StreamingHasDevice
    BY DEF IInv, StageInv, StreamingHasDevice, Mapped
  <1>2. QED
    BY <1>1, LifecycleInvariant, PTL

\* The unlink of create_shared_memory and that of destroy_shared_memory take the
\* name from nobody, as long as there is one bridge at a time.
THEOREM LoneBridgesHaveNames == Spec => []LoneBridgeHasName
  <1>1. IInv => LoneBridgeHasName
    BY DEF IInv, AloneInv, LoneBridgeHasName
  <1>2. QED
    BY <1>1, LifecycleInvariant, PTL

\* No restart of a bridge invalidates a segment or sets its positions back: only
\* shm_init could, and it runs on segments that nobody is connected to.
THEOREM SegmentsNeverReset == Spec => NeverReset
  <1>1. ASSUME IInv, [Next]_vars
        PROVE  \A s \in Segments :
                 /\ s \in valid => s \in valid'
                 /\ in_write_pos'[s] >= in_write_pos[s]
                 /\ in_read_pos'[s] >= in_read_pos[s]
    <2> USE <1>1, BoundAssumption DEF IInv, TypeOK, SizedInv, StageInv, SyncInv, ConnectedIsSound,
              Segments, None, Mapped, segVars, bridgeVars, pluginVars
    <2> DEFINE Grows == \A s \in Segments :
                 /\ s \in valid => s \in valid'
                 /\ in_write_pos'[s] >= in_write_pos[s]
                 /\ in_read_pos'[s] >= in_read_pos[s]
    <2>1. ASSUME NEW b \in Bridges, WriteHeader(b) PROVE Grows
      BY <2>1 DEF WriteHeader
    <2>2. ASSUME NEW b \in Bridges, Zero(b) PROVE Grows
      BY <2>2 DEF Zero, Reset
    <2>3. ASSUME NEW b \in Bridges, ResetCounters(b) PROVE Grows
      BY <2>3 DEF ResetCounters, Reset
    <2>4. ASSUME NEW b \in Bridges, Produce(b) PROVE Grows
      BY <2>4 DEF Produce
    <2>5. CASE SyncReadPos
      BY <2>5 DEF SyncReadPos
    <2>6. CASE OnReadClientInput
      BY <2>6 DEF OnReadClientInput
    <2>7. CASE UNCHANGED <<valid, in_write_pos, in_read_pos>>
      BY <2>7
    <2>8. ASSUME NEW b \in Bridges,
               Run(b) \/ UnlinkStale(b) \/ OpenSegment(b) \/ SizeSegment(b) \/ CreateFails(b)
                 \/ OpenDevice(b) \/ StartEngine(b) \/ StartupFails(b) \/ LeaveLoop(b)
                 \/ CloseDevice(b) \/ ClearFlags(b) \/ UnlinkAndExit(b) \/ Kill(b)
          PROVE  UNCHANGED <<valid, in_write_pos, in_read_pos>>
      BY <2>8 DEF Run, UnlinkStale, OpenSegment, SizeSegment, CreateFails, OpenDevice, StartEngine,
             StartupFails, LeaveLoop, CloseDevice, ClearFlags, UnlinkAndExit, Kill
    <2>9. ASSUME OpenName \/ NameNotFound \/ MapSegment \/ SegmentInvalid \/ OnStartIO \/ OnStopIO
                 \/ RestartCoreaudiod
          PROVE  UNCHANGED <<valid, in_write_pos, in_read_pos>>
      BY <2>9 DEF OpenName, NameNotFound, MapSegment, SegmentInvalid, OnStartIO, OnStopIO,
             RestartCoreaudiod
    <2>10. QED
      BY <2>1, <2>2, <2>3, <2>4, <2>5, <2>6, <2>7, <2>8, <2>9, NextIsAnAction
         DEF BridgeAction, BridgeStep, PluginAction, ConnectStep, vars
  <1>2. QED
    BY <1>1, LifecycleInvariant, PTL DEF Spec, NeverReset

\* Every way out of main() past ftruncate clears the flags first.
THEOREM NoFlagsAreLeft == Spec => NoFlagsLeft
  <1>1. ASSUME IInv, [Next]_vars
        PROVE  \A b \in Bridges :
                 pc[b] \in Mapped /\ pc'[b] = "off" /\ exit'[b] # "killed" =>
                   flags'[shm[b]] = {}
    <2> USE <1>1 DEF IInv, TypeOK, SizedInv, OneProducer, StageInv, Segments, None, Mapped,
              segVars, bridgeVars, pluginVars
    <2> SUFFICES ASSUME NEW b \in Bridges, pc[b] \in Mapped, pc'[b] = "off", exit'[b] # "killed"
                 PROVE  flags'[shm[b]] = {}
      OBVIOUS
    <2>1. PICK c \in Bridges : BridgeAction(c)
      BY PluginChanges, NextIsAnAction DEF vars
    <2>2. c = b
      BY <2>1 DEF BridgeAction, BridgeStep, Run, UnlinkStale, OpenSegment, SizeSegment,
           CreateFails, Ended, Zero, WriteHeader, ResetCounters, OpenDevice, StartEngine,
           StartupFails, Produce, LeaveLoop, CloseDevice, ClearFlags, UnlinkAndExit, Kill
    <2>3. CreateFails(b) \/ UnlinkAndExit(b)
      BY <2>1, <2>2 DEF BridgeAction, BridgeStep, Run, UnlinkStale, OpenSegment, SizeSegment, Ended,
           Zero, WriteHeader, ResetCounters, OpenDevice, StartEngine, StartupFails, Produce,
           LeaveLoop, CloseDevice, ClearFlags, Kill
    <2>4. flags[shm[b]] = {} /\ UNCHANGED flags
      BY <2>3 DEF CreateFails, UnlinkAndExit
    <2>5. QED
      BY <2>4
  <1>2. QED
    BY <1>1, LifecycleInvariant, PTL DEF Spec, NoFlagsLeft

=============================================================================
