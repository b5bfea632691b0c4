CONSTANTS
  p1 = p1 p2 = p2 c1 = c1 c2 = c2 work = work own = own
  Producers = {p1, p2}
  Consumers = {c1, c2}
  Tokens = {work, own}
  TokenOf <- SearchTokens
  RequestedCapacity = 2
  MaxItems = 2
SPECIFICATION FairSpec
INVARIANTS TypeOK InOrderExactlyOnce DrainedBeforeEnd NoLostProducer NoLostConsumer
PROPERTIES CloseReleasesAll StopReleasesItsCalls
CHECK_DEADLOCK FALSE
