\* A chain of two nodes and the node of another instance, each with a queue of its own,
\* one of them tainted; the broker is restarted twice.
CONSTANTS
  a = a  b = b  c = c  f = f  g = g  p = p  q = q  r = r  v = v  w = w
  Nil = Nil  NoTaint = NoTaint  GC = GC  Scheduler = Scheduler
  Instance = {f, g}
  Node = {a, b, c}
  Worker = {v, w}
  QueueName = {p, q, r}
  TaintName = {"GPU"}
  InstanceOf <- InstanceOfChain
  Sources <- Chain
  QueueOf <- ThreeQueues
  TaintOf <- TaintedQueue
  RetryOf <- OneRetry
  IncludeQueues <- Includes
  ExcludeQueues <- Excludes
  Tolerations <- Tolerates
  LatePings = {}
  Reliable = {}
  Horizon = 1
  Lives = 3
SPECIFICATION PersistentSpec
INVARIANTS
  PersistentTypeOK
  RecordedBeforeHandedOut
  CompletionRecorded
  LoadedNotLost
  CacheCoherent
  TaintHonoured
PROPERTIES
  PopsFirstAllowed
\* After a restart every worker may be gone and no instance be left to add to.
CHECK_DEADLOCK FALSE
