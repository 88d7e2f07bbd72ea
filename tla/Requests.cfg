SPECIFICATION FairSpec
CONSTANTS
  Commands = {c1, c2}
  Clients = {k1, k2, k3}
  MaxOutages = 1
  MaxSaves = 1
  Frame = 5
  Window = 2
  MaxParts = 7
  Steps = 4
  Packets = 3
  Lookalikes = {2}
  PartSizes = {1, 4, 5}
  OtherSizes = {0, 4}
  MaxSends = 3
  MaxBuffer = 16
  MaxChunk = 6
  MaxEdits = 2
  Refused = {1}
  MaxRevoked = 2
  Lan = {home}
  Typed = {typed}
  ServesOnvif = TRUE
  HasMask = TRUE
  MaxRestarts = 1
  Devices = {d1, d2}
  Values = {v1}
  Calls = {s1, s2}
  MaxEntrySaves = 2
  MaxForms = 1
  MaxFailures = 1
  None = None
INVARIANTS StreamReassembled NoGhost EntriesKept SavedAccountUsed
PROPERTIES Recovers DiscoveryMemoized CleansUp AccountListed OutageKeeps
CHECK_DEADLOCK FALSE
