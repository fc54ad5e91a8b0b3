\* Two workers complete the two sources of a node at the same time.
CONSTANTS
  a = a  b = b  c = c  f = f  q = q  v = v  w = w
  Nil = Nil  NoTaint = NoTaint  GC = GC  Scheduler = Scheduler
  Instance = {f}
  Node = {a, b, c}
  Worker = {v, w}
  QueueName = {q}
  TaintName = {}
  InstanceOf <- OneInstance
  Sources <- Diamond
  QueueOf <- OneQueue
  TaintOf <- NoTaints
  RetryOf <- NoRetries
  IncludeQueues <- NoQueueNames
  ExcludeQueues <- NoQueueNames
  Tolerations <- NoQueueNames
  LatePings = {}
  Reliable = {v, w}
  Horizon = 0
SPECIFICATION Spec
INVARIANTS
  SoleControl
SYMMETRY DiamondSymmetry
