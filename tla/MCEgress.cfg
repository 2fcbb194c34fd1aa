SPECIFICATION EgressSpec
CONSTANTS
  o1 = o1
  o2 = o2
  o3 = o3
  Outputs = {o1, o2, o3}
  QueueCapacity <- MCQueueCapacity
  Threshold <- MCThreshold
  Sizes = {"short", "long"}
  Cost <- MCCost
  Serialization <- MCSerialization
  TravelTime = 1
  EndTime = 5
  MaxOffered = 4
INVARIANTS
  QueuesAreSound
  BudgetWaitIsTrue
PROPERTIES
  StartsInTurn
CHECK_DEADLOCK FALSE
