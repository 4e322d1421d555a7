\* The API and the worker process, three calls, two restarts of the broker.
CONSTANTS
  Process = {api, worker}
  Worker = worker
  MaxCalls = 3
  Tenant = {t1, t2}
  Limit = 1
  MaxRestarts = 2
SPECIFICATION CachesSpec
INVARIANTS CachesTypeOK OneChannelPerLoss PublishedToAQueue EnsuredExists
           RefusedOnlyInRace IndexedIsFound
PROPERTIES EveryCallEnds
CHECK_DEADLOCK FALSE
