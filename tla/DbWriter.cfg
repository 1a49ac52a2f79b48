CONSTANTS
  Stream <- MCStream
  TableOf <- MCTableOf
  TABLE_MODELS = {"vol", "pca"}
  IDEMPOTENT_TABLES = {"vol", "pca"}
  Poison = {"p"}
  BATCH_SIZE_MAX = 3
  QUEUE_MAX_SIZE = 2
  RETRY_ATTEMPTS = 2
  MaxFaults = 2
  MaxCrashes = 1
SPECIFICATION Spec
INVARIANTS RetriesLoseNothing LossIsReported
PROPERTIES ImplementsSink StopTerminates
