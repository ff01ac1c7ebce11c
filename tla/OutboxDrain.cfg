SPECIFICATION FairSpec
CONSTANTS
  Rows = {1, 2}
  Replicas = {r1, r2}
  NoReplica = NoReplica
  DrainBatch = 2
  MaxAttempts = 2
  MaxDisturbances = 1
INVARIANTS Durable QuarantineEarned OneDrain
PROPERTY EveryRowSettles
