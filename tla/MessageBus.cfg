SPECIFICATION FairSpec
CONSTANTS
  t1 = t1
  t2 = t2
  c1 = c1
  c2 = c2
  Topics <- MCTopics
  NoTopic = NoTopic
  Consumers <- MCConsumers
  Subscriptions <- MCSubscriptions
  MaxCount = 2
  MaxPublished = 3
INVARIANTS
  ExactlyOnePlace
  InOrder
PROPERTIES
  PublishedIsHandled
  StopReturns
