\* All streams of up to four bytes, one more than the limit, in reads of two
\* bytes and less.  A connection that has ended stops.
SPECIFICATION FairSpec
CHECK_DEADLOCK FALSE
INVARIANTS
  TypeOK
  SplitsDoNotMatter
  CancelledOnlyByClose
PROPERTIES
  DecidedIsRead
  ClosedIsNoticed
CONSTANTS
  MaxLength = 4
  MaxQuery = 3
  ChunkSize = 2
  WaitBuffer = 2
