\* A node dispatched twice fails twice before its first retry is due.
CONSTANTS
  a = a  b = b  c = c  f = f  q = q  v = v  w = w
  Nil = Nil  NoTaint = NoTaint  GC = GC  Scheduler = Scheduler
  Instance = {f}
  Node = {a, b, c}
  Worker = {v, w}
  QueueName = {q}
  TaintName = {}
  InstanceOf <- OneInstance
  Sources <- Diamond
  QueueOf <- OneQueue
  TaintOf <- NoTaints
  RetryOf <- DiamondRetries
  IncludeQueues <- NoQueueNames
  ExcludeQueues <- NoQueueNames
  Tolerations <- NoQueueNames
  LatePings = {}
  Reliable = {v, w}
  Horizon = 4
SPECIFICATION Spec
INVARIANTS
  SchedulerRunsForever
SYMMETRY DiamondSymmetry
