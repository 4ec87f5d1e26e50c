CONSTANTS
  OPEN = OPEN  CLOSE = CLOSE  a = a  b = b  R1 = R1  R2 = R2  R3 = R3
  Gone = Gone  Bad = Bad  MaxLen = 6
  Char <- MCChar  Wide <- Sentinels  Opaque <- MCOpaque  Lone <- MCLone
  Rev <- MCRev  Value <- MCValue  Streams <- MCStreams
SPECIFICATION FairSpec
CHECK_DEADLOCK FALSE
INVARIANTS TypeOK ChunkIndependence FlushedIsWhole OnlyUnclosedIsHeld OnlyBadTextFails
PROPERTIES EverythingArrives
