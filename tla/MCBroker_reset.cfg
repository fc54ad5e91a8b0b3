\* A worker that is late with its ping polls while it is garbage collected.
CONSTANTS
  a = a  b = b  c = c  f = f  q = q  v = v  w = w
  Nil = Nil  NoTaint = NoTaint  GC = GC  Scheduler = Scheduler
  Instance = {f}
  Node = {a}
  Worker = {v}
  QueueName = {q}
  TaintName = {}
  InstanceOf <- OneInstance
  Sources <- Roots
  QueueOf <- OneQueue
  TaintOf <- NoTaints
  RetryOf <- NoRetries
  IncludeQueues <- NoQueueNames
  ExcludeQueues <- NoQueueNames
  Tolerations <- NoQueueNames
  LatePings = {v}
  Reliable = {}
  Horizon = 0
SPECIFICATION Spec
INVARIANTS
  NoOrphan
