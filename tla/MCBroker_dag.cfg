\* A node that needs two others; workers crash, and one of them may be late with
\* its pings and survive.
CONSTANTS
  a = a  b = b  c = c  f = f  q = q  v = v  w = w
  Nil = Nil  NoTaint = NoTaint  GC = GC  Scheduler = Scheduler
  Instance = {f}
  Node = {a, b, c}
  Worker = {v, w}
  QueueName = {q}
  TaintName = {}
  InstanceOf <- OneInstance
  Sources <- Diamond
  QueueOf <- OneQueue
  TaintOf <- NoTaints
  RetryOf <- NoRetries
  IncludeQueues <- NoQueueNames
  ExcludeQueues <- NoQueueNames
  Tolerations <- NoQueueNames
  LatePings = {v}
  Reliable = {w}
  Horizon = 0
SPECIFICATION Spec
INVARIANTS
  TypeOK
  DependenciesRealized
  NoLostWakeup
PROPERTIES
  MeetsContract
SYMMETRY SourceSymmetry
