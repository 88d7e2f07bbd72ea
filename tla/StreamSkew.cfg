SPECIFICATION Spec
CONSTANTS
  Packets = 3
  Lookalikes = {1}
  PartSizes = {1, 4, 5}
  OtherSizes = {0, 4}
  MaxSends = 3
  MaxBuffer = 16
  MaxChunk = 6
INVARIANT PacketsWhole
