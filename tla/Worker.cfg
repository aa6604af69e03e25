SPECIFICATION WorkerFairSpec
CONSTANTS
  Versions = {1, 2}
  First = 1
  Queues = {"business", "control"}
  Business = "business"
  MaxTasks = 1
INVARIANTS ReadyMeansServing ClientsOutliveActivities
PROPERTIES StopEnds MaterialFollows
