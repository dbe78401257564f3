\* Is a plugin that starts IO connected to the bridge that streams?
CONSTANTS
  job = job
  Bridges = {job}
  Job = job
  MaxRuns = 2
  MaxPos = 2
  MaxRestarts = 1
SPECIFICATION FairSpec
PROPERTY StartsOnLiveBridge
