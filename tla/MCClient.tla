------------------------------ MODULE MCClient ------------------------------
(***************************************************************************)
(* Two programs for TLC.                                                   *)
(***************************************************************************)
EXTENDS Client, TLC

CONSTANTS e, x, z, y, f, c, v, w

\* entrypoint calls first and second(first) and returns second; first calls third
\* and returns it; second passes what it was given to fourth, and returns that.
ForwardingCallers == (e :> Nil) @@ (x :> e) @@ (z :> x) @@ (y :> e) @@ (f :> y)
ForwardingUses == (e :> {}) @@ (x :> {}) @@ (z :> {}) @@ (y :> {x}) @@ (f :> {x})
ForwardingReturns == (e :> y) @@ (x :> z) @@ (z :> Nil) @@ (y :> f) @@ (f :> Nil)

\* The program of README.md: entrypoint calls perform_work twice, for 0 and 2, and
\* passes the results to rollup_statuses, which it returns.
SampleCallers == (e :> Nil) @@ (x :> e) @@ (z :> e) @@ (c :> e)
SampleUses == (e :> {}) @@ (x :> {}) @@ (z :> {}) @@ (c :> {x, z})
SampleReturns == (e :> c) @@ (x :> Nil) @@ (z :> Nil) @@ (c :> Nil)

\* Direct evaluation.
Evaluated[s \in Site] ==
  IF Returns[s] # Nil THEN Evaluated[Returns[s]]
                      ELSE Computed(s, [u \in Uses[s] |-> Evaluated[u]])

WorkerSymmetry == Permutations({v, w})
=============================================================================
