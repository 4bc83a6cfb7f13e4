CONSTANTS
  low = low
  mid1 = mid1
  mid2 = mid2
  high = high
  Capacity = 6
  Item <- MCItem
  Priority <- MCPriority
  StackCapacity = 3
  StackItem = {s1, s2, s3}
  QueueCapacity = 4
  QueueData = {q1, q2}
  Modes = {"tasks", "producer", "consumer"}
  W = 3
  NumBits = 8
  BusCapacity = 3
  Events = {e1, e2}
  Handlers = {h1, h2, h3}
  NoHandler = NoHandler
  NoEvent = NoEvent
  HandlerMay = {"subscribe", "unsubscribe", "reset", "publish"}
  MaxDepth = 2
  Node = {n1, n2, n3, n4}
  HEAD = head
  NULL = null
  CallbackMay = {"insert", "remove", "self"}
SPECIFICATION ComponentsSpec
INVARIANTS
  TypeOK
  HeapOrder
  IndicesMatchCount
  BusTypeOK
  CountMatches
  NoDuplicates
  AtLeastOnce
  RingIntact
PROPERTIES
  ImplementsPriorityBag
  ImplementsLifo
  ImplementsFifo
  ImplementsBitSet
  AtMostOnce
  PublishReturns
  ImplementsSequence
  ActsWhereAsked
  WalkVisitsEachOnce
  WalkReturns
