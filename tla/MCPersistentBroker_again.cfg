\* A node is completed before the broker is restarted; another worker connects then.
CONSTANTS
  a = a  b = b  c = c  f = f  g = g  p = p  q = q  r = r  v = v  w = w
  Nil = Nil  NoTaint = NoTaint  GC = GC  Scheduler = Scheduler
  Instance = {f}
  Node = {a}
  Worker = {v, w}
  QueueName = {q}
  TaintName = {}
  InstanceOf <- InstanceOfChain
  Sources <- Chain
  QueueOf <- OneQueue
  TaintOf <- NoTaints
  RetryOf <- OneRetry
  IncludeQueues <- NoQueueNames
  ExcludeQueues <- NoQueueNames
  Tolerations <- NoQueueNames
  LatePings = {}
  Reliable = {}
  Horizon = 1
  Lives = 2
SPECIFICATION PersistentSpec
INVARIANTS
  FinishedNotRepeated
\* After a restart every worker may be gone and no instance be left to add to.
CHECK_DEADLOCK FALSE
