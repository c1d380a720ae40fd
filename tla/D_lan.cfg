CONSTANTS
  bobId = bobId
  bobAddr = bobAddr
  bobC = bobC
  carolId = carolId
  carolAddr = carolAddr
  carolC = carolC
  None = None
  Self = "alice"
  Swarm = "swarm"
  Callers <- MCCallers
  Reports <- MCReports
  Reporter <- MCReporter
  Hosts = {carolId}
SPECIFICATION Spec
INVARIANTS TypeOK OneEntryPerNickname LostHasId NoDuplicateRows EveryoneShown
