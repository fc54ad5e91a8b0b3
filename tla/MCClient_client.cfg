\* A program whose promises are passed on and returned; a falsy async result.
CONSTANTS
  e = e  x = x  z = z  y = y  f = f  c = c  v = v  w = w
  Nil = Nil
  NoValue = NoValue
  Node = {1, 2, 3, 4, 5, 6}
  Worker = {v, w}
  Site = {e, x, z, y, f}
  Entry = e
  CallerOf <- ForwardingCallers
  Uses <- ForwardingUses
  Returns <- ForwardingReturns
  Falsy = {z}
  Async = {z}
  Meant <- Evaluated
SPECIFICATION ClientSpec
INVARIANTS
  ClientTypeOK
  DeliversTruly
  ResolvesTruly
SYMMETRY WorkerSymmetry
