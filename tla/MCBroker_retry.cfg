\* A node that is retried twice and one that is called with it for two arguments; one
\* worker may die at any time.
CONSTANTS
  a = a  b = b  c = c  f = f  q = q  v = v  w = w
  Nil = Nil  NoTaint = NoTaint  GC = GC  Scheduler = Scheduler
  Instance = {f}
  Node = {a, b}
  Worker = {v, w}
  QueueName = {q}
  TaintName = {}
  InstanceOf <- OneInstance
  Sources <- DoubledChain
  QueueOf <- OneQueue
  TaintOf <- NoTaints
  RetryOf <- TwoRetries
  IncludeQueues <- NoQueueNames
  ExcludeQueues <- NoQueueNames
  Tolerations <- NoQueueNames
  LatePings = {}
  Reliable = {w}
  Horizon = 6
SPECIFICATION FairSpec
INVARIANTS
  NoOrphan
  RootSoleControl
  RetryBudget
  SchedulerRunsForever
PROPERTIES
  RetryNotEarly
  EventuallyDone
