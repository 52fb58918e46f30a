SPECIFICATION FairSpec
CONSTANTS
  Calls = {c1, c2, c3}
  Delays = {0, 1}
  Intervals = {2}
  MaxTime = 4
  Half = 8
  Modulus = 32771
  Limit = 4096
  Usdc = 1234
  Levels = 3
  Precision = 5
  Hash <- SmallHash
  OldHash <- SmallOldHash
  KeyOf <- SmallKeyOf
  Digest <- SmallDigest
  Rest <- SmallRest
  UtxoProves <- SmallUtxoProves
  AggUtxoProves <- SmallAggUtxoProves
  ParseFrame <- SmallFrame
CHECK_DEADLOCK FALSE
INVARIANTS
  TypeOK
  OneTask
  NoItemStranded
  SenderIsKept
  AnswersAreOwn
PROPERTIES
  CalledBatchesArePaced
  CallsAreAnswered
