SPECIFICATION ProtocolSpec
CONSTANTS
  Chunks = 3
  NoWorker = NoWorker
  Worker = {v, w}
  Errors = {e}
  LogLimit = 9
  MaxFault = 1
INVARIANTS LogInOrder SuccessHasWholeLog ConfirmedResultStands
PROPERTIES LostBuildStops BuildEnds
