CONSTANTS
  Clients = {c1, c2, c3}
  MaxSubscribers = 2
  QueueSize = 2
  MaxVersion = 3
  MaxFailures = 1
SPECIFICATION SSESpec
PROPERTY
  SubscribersArePolled
