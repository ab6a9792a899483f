SPECIFICATION FairSpec
CONSTANTS
  Call = {c1, c2}
  Unroutable = {c2}
  Consumer = consumer
  PoolSize = 1
  MaxDials = 2
  None = None
INVARIANTS TypeOK ChannelsClosedFirst
PROPERTIES GivenBackByResult ImplementsPublication StuckOnlyAtRabbitMQ CallsReturn
