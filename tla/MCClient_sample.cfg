\* The program of README.md, one of whose results is 0.
CONSTANTS
  e = e  x = x  z = z  y = y  f = f  c = c  v = v  w = w
  Nil = Nil
  NoValue = NoValue
  Node = {1, 2, 3, 4}
  Worker = {v, w}
  Site = {e, x, z, c}
  Entry = e
  CallerOf <- SampleCallers
  Uses <- SampleUses
  Returns <- SampleReturns
  Falsy = {x}
  Async = {}
  Meant <- Evaluated
SPECIFICATION ClientSpec
INVARIANTS
  ResolvesTruly
SYMMETRY WorkerSymmetry
