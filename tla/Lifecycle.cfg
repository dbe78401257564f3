\* launchd's bridge and one started by hand, two runs in all, and a plugin that
\* is loaded twice.
CONSTANTS
  job = job
  manual = manual
  Bridges = {job, manual}
  Job = job
  MaxRuns = 2
  MaxPos = 2
  MaxRestarts = 1
SPECIFICATION FairSpec
INVARIANT TypeOK
INVARIANT OneProducer
INVARIANT ConnectedIsSound
INVARIANT StreamingHasDevice
INVARIANT LoneBridgeHasName
 
PROPERTY NoFlagsLeft
PROPERTY Connects
