---------------------------- MODULE ClientProofs ----------------------------
(***************************************************************************)
(* Theorems about programs, for any program, number of nodes and workers.  *)
(***************************************************************************)
EXTENDS Client, TLAPS

\* No function decorated with syncfn has a falsy result in the end: what it computes
\* and what it returns of its arguments is truthy.  A promise always is.
TruthyResults ==
  \A s \in Site \ Async :
    /\ Returns[s] = Nil => s \notin Falsy
    /\ Returns[s] \in Uses[s] => Meant[Returns[s]].site \notin Falsy

\* The arguments of a node stand for the values they belong to; those that are
\* promises are among its sources.
GivenTrue ==
  /\ DOMAIN given = Node
  /\ \A n \in created : \A u \in Uses[site[n]] :
       /\ StandsFor(given[n][u], u)
       /\ \A m \in Node : given[n][u] = Promise(m) => m \in sources[n]

\* The results of nodes stand for the values of their calls.
ValuesTrue ==
  /\ DOMAIN value = Node
  /\ \A n \in done : StandsFor(value[n], site[n])

\* A worker has all the arguments of the function it executes, and each stands for
\* the value it belongs to.
ArgsTrue ==
  /\ DOMAIN args = Worker
  /\ \A w \in Worker : running[w] # Nil =>
       /\ args[w] = [u \in Uses[Function(w)] |-> args[w][u]]
       /\ \A u \in Uses[Function(w)] : StandsFor(args[w][u], u)

\* The promises a function has are those of its own calls.
CallsKnown ==
  \A w \in Worker, s \in Site : made[w][s] # Nil => site[made[w][s]] = s

\* A resolve() call is at the promise of a call that has the value of the entrypoint.
CursorTrue ==
  \A n \in created :
    cursor # Nil /\ cursor = Promise(n) => Meant[site[n]] = Meant[Entry]

TruthInvariant ==
  /\ ClientTypeOK /\ GivenTrue /\ ValuesTrue /\ ArgsTrue /\ CallsKnown
  /\ CursorTrue /\ ResolvesTruly

-----------------------------------------------------------------------------
\* A value the program means is not a promise.
LEMMA MeantIsNoPromise == ASSUME NEW s \in Site PROVE ~IsPromise(Meant[s])
<1> SUFFICES ASSUME NEW n \in Node, Meant[s] = Promise(n) PROVE FALSE
  BY DEF IsPromise
<1>1. DOMAIN Promise(n) = {"promise"} /\ "site" # "promise"
  BY DEF Promise
<1>2. "site" \in DOMAIN Meant[s]
  BY MeantAssumption
<1> QED BY <1>1, <1>2

\* Promises of different nodes are different.
LEMMA PromiseInjective ==
  ASSUME NEW m, NEW n, Promise(m) = Promise(n) PROVE m = n
<1>1. Promise(m).promise = m /\ Promise(n).promise = n
  BY DEF Promise
<1> QED BY <1>1

\* The value of a site whose function returns that of another, and of one that computes.
LEMMA MeantOf ==
  ASSUME NEW s \in Site
  PROVE  /\ Returns[s] # Nil => Meant[s] = Meant[Returns[s]]
         /\ Returns[s] = Nil => Meant[s] = Computed(s, [u \in Uses[s] |-> Meant[u]])
BY MeantAssumption

\* What stands for a value is the value, or the promise of a node with that value.
LEMMA StandingPromise ==
  ASSUME ClientTypeOK, NEW s \in Site, NEW n \in Node, StandsFor(Promise(n), s)
  PROVE  n \in created /\ Meant[site[n]] = Meant[s]
<1>1. Promise(n) # Meant[s]
  BY MeantIsNoPromise DEF IsPromise
<1> QED BY <1>1, PromiseInjective DEF StandsFor

LEMMA StandingValue ==
  ASSUME ClientTypeOK, NEW s \in Site, NEW x, StandsFor(x, s), ~IsPromise(x)
  PROVE  x = Meant[s]
BY DEF StandsFor, IsPromise, ClientTypeOK

\* Creating nodes changes nothing about what stands for what.
LEMMA StandsForKept ==
  ASSUME NEW s, NEW x, StandsFor(x, s), created \subseteq created',
         \A n \in created : site'[n] = site[n]
  PROVE  StandsFor(x, s)'
BY DEF StandsFor
-----------------------------------------------------------------------------
\* A call of a decorated function creates a node like those there are.
LEMMA CreatedTruly ==
  ASSUME TruthInvariant, NEW s \in Site, NEW arguments,
         DOMAIN arguments = Uses[s],
         \A u \in Uses[s] : StandsFor(arguments[u], u),
         CommonWrapper(s, arguments), UNCHANGED value
  PROVE  /\ Fresh \in Node \ created /\ created' = created \cup {Fresh}
         /\ site'[Fresh] = s /\ \A n \in created : site'[n] = site[n]
         /\ GivenTrue' /\ ValuesTrue'
<1> USE DEF CommonWrapper, Create, TruthInvariant
<1>1. Fresh \in Node \ created /\ created' = created \cup {Fresh}
  OBVIOUS
<1>2. site'[Fresh] = s /\ \A n \in created : site'[n] = site[n]
  BY <1>1 DEF ClientTypeOK
<1>3. GivenTrue'
  <2>0. PICK f \in Node : f = Fresh
    BY <1>1
  <2>1. DOMAIN given' = Node
    BY DEF GivenTrue
  <2>2. ASSUME NEW n \in created, NEW u \in Uses[site[n]]
        PROVE  /\ StandsFor(given[n][u], u)'
               /\ \A m \in Node : given'[n][u] = Promise(m) => m \in sources'[n]
    <3>1. given'[n] = given[n] /\ sources'[n] = sources[n]
      BY <1>1 DEF ClientTypeOK, GivenTrue
    <3>2. StandsFor(given[n][u], u)
      BY DEF GivenTrue
    <3>3. StandsFor(given[n][u], u)'
      BY <1>1, <1>2, <3>1, <3>2 DEF StandsFor
    <3> QED BY <3>1, <3>3 DEF GivenTrue
  <2>3. ASSUME NEW u \in Uses[s]
        PROVE  /\ StandsFor(given[f][u], u)'
               /\ \A m \in Node : given'[f][u] = Promise(m) => m \in sources'[f]
    <3>1. given'[f] = arguments /\ sources'[f] = FindPromises(arguments)
      BY <1>1, <2>0 DEF ClientTypeOK, GivenTrue
    <3>2. StandsFor(given[f][u], u)'
      BY <1>1, <1>2, <3>1 DEF StandsFor
    <3> QED BY <3>1, <3>2 DEF FindPromises
  <2> QED BY <1>1, <1>2, <2>0, <2>1, <2>2, <2>3 DEF GivenTrue
<1>4. ValuesTrue'
  <2> SUFFICES ASSUME NEW n \in done PROVE StandsFor(value[n], site[n])'
    BY DEF ValuesTrue
  <2>1. n \in created /\ StandsFor(value[n], site[n])
    BY DEF ValuesTrue, ClientTypeOK
  <2> QED BY <1>1, <1>2, <2>1 DEF StandsFor
<1> QED BY <1>1, <1>2, <1>3, <1>4

\* What else a call leaves as it was, or makes known to the function.
LEMMA CallKeepsTypes ==
  ASSUME ClientTypeOK, NEW s \in Site, NEW arguments,
         DOMAIN arguments = Uses[s], GivenTrue,
         CommonWrapper(s, arguments), UNCHANGED <<value, cursor>>,
         made' \in [Worker -> [Site -> created' \cup {Nil}]]
  PROVE  ClientTypeOK'
<1> USE DEF CommonWrapper, Create
<1>1. Fresh \in Node \ created /\ created' = created \cup {Fresh} /\ UNCHANGED <<done, running>>
  OBVIOUS
<1>2. site' \in [Node -> Site \cup {Nil}] /\ sources' \in [Node -> SUBSET created']
  BY <1>1 DEF ClientTypeOK
<1>3. \A n \in created' : site'[n] \in Site /\ DOMAIN given'[n] = Uses[site'[n]]
  BY <1>1 DEF ClientTypeOK, GivenTrue
<1>4. \A n \in Node \ done' : value'[n] = Nil
  BY <1>1 DEF ClientTypeOK
<1> QED BY <1>1, <1>2, <1>3, <1>4 DEF ClientTypeOK
-----------------------------------------------------------------------------
\* Every step keeps the invariant; one lemma per kind of step.
LEMMA LaunchTruth == ASSUME TruthInvariant, Launch PROVE TruthInvariant'
<1> USE DEF Launch, TruthInvariant
<1>1. DOMAIN NoArguments = Uses[Entry] /\ Entry \in Site
  BY ProgramAssumption DEF NoArguments
<1>2. /\ Fresh \in Node \ created /\ created' = created \cup {Fresh}
      /\ site'[Fresh] = Entry /\ GivenTrue' /\ ValuesTrue'
  BY <1>1, CreatedTruly, ProgramAssumption
<1>3. ClientTypeOK'
  BY <1>1, <1>2, CallKeepsTypes DEF ClientTypeOK
<1>4. \A w \in Worker : running'[w] = Nil /\ \A s \in Site : made'[w][s] = Nil
  BY DEF CommonWrapper, Create, ClientTypeOK
<1>5. ArgsTrue' /\ CallsKnown'
  BY <1>4 DEF ArgsTrue, CallsKnown
<1>6. CursorTrue'
  BY <1>2 DEF CursorTrue, ClientTypeOK
<1> QED BY <1>2, <1>3, <1>5, <1>6 DEF ResolvesTruly

LEMMA ExecuteTruth ==
  ASSUME TruthInvariant, NEW w \in Worker, NEW n \in Node, Execute(w, n)
  PROVE  TruthInvariant'
<1> USE DEF Execute, Start, TruthInvariant
<1>1. ClientTypeOK' /\ GivenTrue' /\ ValuesTrue' /\ CallsKnown' /\ CursorTrue' /\ ResolvesTruly'
  BY DEF ClientTypeOK, GivenTrue, ValuesTrue, CallsKnown, CursorTrue, ResolvesTruly, StandsFor
<1>2. /\ args'[w] = ResolvePromises(given[n])
      /\ DOMAIN given[n] = Uses[site[n]] /\ site[n] \in Site
  BY DEF ArgsTrue, ClientTypeOK
<1>3. ASSUME NEW u \in Uses[site[n]] PROVE StandsFor(ResolvePromises(given[n])[u], u)
  <2>1. u \in Site
    BY <1>2, ProgramAssumption
  <2>2. StandsFor(given[n][u], u)
    BY DEF GivenTrue
  <2>3. CASE ~IsPromise(given[n][u])
    BY <1>2, <2>2, <2>3 DEF ResolvePromises
  <2>4. ASSUME NEW m \in Node, given[n][u] = Promise(m)
        PROVE  StandsFor(ResolvePromises(given[n])[u], u)
    <3>1. m \in created /\ Meant[site[m]] = Meant[u]
      BY <2>1, <2>2, <2>4, StandingPromise
    <3>2. m \in done
      BY <2>4 DEF GivenTrue
    <3>3. StandsFor(value[m], u)
      BY <3>1, <3>2 DEF ValuesTrue, StandsFor
    <3>4. ResolvePromises(given[n])[u] = value[m]
      <4>1. given[n][u].promise = m
        BY <2>4 DEF Promise
      <4> QED BY <1>2, <2>4, <4>1 DEF ResolvePromises, IsPromise, ResolvedValue
    <3> QED BY <3>3, <3>4
  <2> QED BY <2>3, <2>4 DEF IsPromise
<1>4. ArgsTrue'
  <2>1. ASSUME NEW v \in Worker, running'[v] # Nil
        PROVE  /\ args'[v] = [u \in Uses[Function(v)'] |-> args'[v][u]]
               /\ \A u \in Uses[Function(v)'] : StandsFor(args[v][u], u)'
    <3>1. CASE v = w
      <4>1. Function(v)' = site[n]
        BY <3>1 DEF Function, ClientTypeOK
      <4>2. args'[v] = [u \in Uses[site[n]] |-> args'[v][u]]
        BY <1>2, <3>1 DEF ResolvePromises
      <4>3. \A u \in Uses[site[n]] : StandsFor(args[v][u], u)'
        BY <1>2, <1>3, <3>1 DEF StandsFor
      <4> QED BY <4>1, <4>2, <4>3
    <3>2. CASE v # w
      <4>1. Function(v)' = Function(v) /\ args'[v] = args[v] /\ running[v] # Nil
        BY <2>1, <3>2 DEF Function, ClientTypeOK, ArgsTrue
      <4> QED BY <4>1 DEF ArgsTrue, StandsFor
    <3> QED BY <3>1, <3>2
  <2> QED BY <2>1 DEF ArgsTrue
<1> QED BY <1>1, <1>4
\* What a function has for a site stands for the value of that site.
LEMMA ReferenceStands ==
  ASSUME TruthInvariant, NEW w \in Worker, running[w] # Nil, NEW u \in Site, Has(w, u)
  PROVE  StandsFor(Reference(w, u), u)
<1> USE DEF TruthInvariant
<1>1. CASE u \in DOMAIN args[w]
  BY <1>1 DEF Reference, ArgsTrue
<1>2. CASE u \notin DOMAIN args[w]
  <2>1. made[w][u] \in created /\ site[made[w][u]] = u
    BY <1>2 DEF Has, ClientTypeOK, CallsKnown
  <2> QED BY <1>2, <2>1 DEF Reference, StandsFor
<1> QED BY <1>1, <1>2

LEMMA CallTruth ==
  ASSUME TruthInvariant, NEW w \in Worker, NEW s \in Site, CallFunction(w, s)
  PROVE  TruthInvariant'
<1> USE DEF CallFunction, TruthInvariant
<1> DEFINE arguments == [u \in Uses[s] |-> Reference(w, u)]
<1>1. \A u \in Uses[s] : StandsFor(arguments[u], u)
  BY ReferenceStands, ProgramAssumption
<1>2. /\ Fresh \in Node \ created /\ created' = created \cup {Fresh}
      /\ site'[Fresh] = s /\ \A n \in created : site'[n] = site[n]
      /\ GivenTrue' /\ ValuesTrue'
  BY <1>1, CreatedTruly
<1>3. made' \in [Worker -> [Site -> created' \cup {Nil}]]
  BY <1>2 DEF ClientTypeOK
<1>4. ClientTypeOK'
  BY <1>3, CallKeepsTypes
<1>5. CallsKnown'
  <2> SUFFICES ASSUME NEW v \in Worker, NEW t \in Site, made'[v][t] # Nil
               PROVE  site'[made'[v][t]] = t
    BY DEF CallsKnown
  <2>1. CASE v = w /\ t = s
    BY <1>2, <2>1 DEF ClientTypeOK
  <2>2. CASE ~(v = w /\ t = s)
    <3>1. made'[v][t] = made[v][t]
      BY <2>2 DEF ClientTypeOK
    <3> QED BY <1>2, <3>1 DEF ClientTypeOK, CallsKnown
  <2> QED BY <2>1, <2>2
<1>6. ArgsTrue'
  <2> SUFFICES ASSUME NEW v \in Worker, running'[v] # Nil
               PROVE  /\ args'[v] = [u \in Uses[Function(v)'] |-> args'[v][u]]
                      /\ \A u \in Uses[Function(v)'] : StandsFor(args[v][u], u)'
    BY DEF ArgsTrue
  <2>1. Function(v)' = Function(v) /\ running[v] # Nil
    BY <1>2 DEF CommonWrapper, Create, Function, ClientTypeOK
  <2> QED BY <1>2, <2>1 DEF ArgsTrue, StandsFor
<1>7. CursorTrue'
  BY <1>2, PromiseInjective DEF CursorTrue, ClientTypeOK
<1> QED BY <1>2, <1>4, <1>5, <1>6, <1>7 DEF ResolvesTruly

\* What a function returns stands for the value of its site.
LEMMA OutcomeStands ==
  ASSUME TruthInvariant, NEW w \in Worker, running[w] # Nil,
         \A s \in Children(Function(w)) : made[w][s] # Nil,
         Returns[Function(w)] = Nil => \A u \in DOMAIN args[w] : ~IsPromise(args[w][u])
  PROVE  StandsFor(Outcome(w), Function(w))
<1> USE DEF TruthInvariant
<1>0. Function(w) \in Site
  BY DEF Function, ClientTypeOK
<1>1. CASE Returns[Function(w)] = Nil
  <2>1. \A u \in Uses[Function(w)] : args[w][u] = Meant[u]
    BY <1>0, <1>1, StandingValue, ProgramAssumption DEF ArgsTrue
  <2>2. args[w] = [u \in Uses[Function(w)] |-> Meant[u]]
    BY <2>1 DEF ArgsTrue
  <2> QED BY <1>0, <1>1, <2>2, MeantOf DEF Outcome, StandsFor
<1>2. CASE Returns[Function(w)] # Nil
  <2> DEFINE t == Returns[Function(w)]
  <2>1. t \in Site /\ t \in Uses[Function(w)] \cup Children(Function(w))
    BY <1>0, <1>2, ProgramAssumption
  <2>2. Has(w, t)
    BY <2>1 DEF Has, ArgsTrue
  <2>3. StandsFor(Reference(w, t), t) /\ Meant[t] = Meant[Function(w)]
    BY <1>0, <1>2, <2>1, <2>2, ReferenceStands, MeantOf
  <2> QED BY <1>2, <2>3 DEF Outcome, StandsFor
<1> QED BY <1>1, <1>2

\* If no result is falsy, the wrapper returns the result.
LEMMA ResultKept ==
  ASSUME TruthyResults, TruthInvariant, NEW w \in Worker, running[w] # Nil,
         \A s \in Children(Function(w)) : made[w][s] # Nil
  PROVE  WrapperResult(Function(w), Outcome(w)) = Outcome(w)
<1> USE DEF TruthInvariant
<1> DEFINE s == Function(w)
<1>0. s \in Site
  BY DEF Function, ClientTypeOK
<1>1. CASE s \in Async
  BY <1>1 DEF WrapperResult
<1>2. CASE s \notin Async /\ Returns[s] = Nil
  <2>1. Outcome(w).site = s
    BY <1>2 DEF Outcome, Computed
  <2> QED BY <1>0, <1>2, <2>1 DEF WrapperResult, Truthy, TruthyResults
<1>3. CASE s \notin Async /\ Returns[s] # Nil
  <2> DEFINE t == Returns[s]
  <2>1. t \in Site /\ t \in Uses[s] \cup Children(s) /\ Outcome(w) = Reference(w, t)
    BY <1>0, <1>3, ProgramAssumption DEF Outcome
  <2>2. CASE IsPromise(Outcome(w))
    BY <2>2 DEF WrapperResult, Truthy
  <2>3. CASE ~IsPromise(Outcome(w))
    <3>1. t \in Uses[s]
      <4> SUFFICES ASSUME t \notin Uses[s] PROVE FALSE
        OBVIOUS
      <4>1. t \notin DOMAIN args[w]
        BY DEF ArgsTrue
      <4>2. made[w][t] \in Node
        BY <2>1, <4>1 DEF ClientTypeOK
      <4> QED BY <2>1, <2>3, <4>1, <4>2 DEF Reference, IsPromise
    <3>2. Outcome(w) = Meant[t]
      BY <2>1, <2>3, <3>1, ReferenceStands, StandingValue DEF Has, ArgsTrue
    <3> QED BY <1>0, <1>3, <3>1, <3>2 DEF WrapperResult, Truthy, TruthyResults
  <2> QED BY <2>2, <2>3
<1> QED BY <1>1, <1>2, <1>3
LEMMA SubmitTruth ==
  ASSUME TruthyResults, TruthInvariant, NEW w \in Worker, Submit(w)
  PROVE  TruthInvariant'
<1> USE DEF Submit, Finish, Leave, TruthInvariant
<1>1. /\ running[w] \in created /\ running[w] # Nil
      /\ running' = [running EXCEPT ![w] = Nil] /\ done' = done \cup {running[w]}
      /\ UNCHANGED <<created, sources, site, given>>
  BY DEF ClientTypeOK
<1>2. StandsFor(value'[running[w]], site[running[w]])
  <2>1. value'[running[w]] = Outcome(w)
    BY <1>1, ResultKept DEF ValuesTrue, ClientTypeOK
  <2> QED BY <2>1, OutcomeStands DEF Function
<1>3. ClientTypeOK'
  BY <1>1 DEF ClientTypeOK, NoCalls, ValuesTrue
<1>4. ValuesTrue'
  <2> SUFFICES ASSUME NEW n \in done' PROVE StandsFor(value[n], site[n])'
    BY DEF ValuesTrue
  <2>1. CASE n = running[w]
    BY <1>1, <1>2, <2>1 DEF StandsFor
  <2>2. CASE n # running[w]
    BY <1>1, <2>2 DEF ValuesTrue, StandsFor, ClientTypeOK
  <2> QED BY <2>1, <2>2
<1>5. ArgsTrue'
  <2> SUFFICES ASSUME NEW v \in Worker, running'[v] # Nil
               PROVE  /\ args'[v] = [u \in Uses[Function(v)'] |-> args'[v][u]]
                      /\ \A u \in Uses[Function(v)'] : StandsFor(args[v][u], u)'
    BY DEF ArgsTrue
  <2>1. running'[v] = running[v] /\ args'[v] = args[v]
    BY <1>1 DEF ArgsTrue, ClientTypeOK
  <2> QED BY <1>1, <2>1 DEF ArgsTrue, StandsFor, Function
<1>6. CallsKnown'
  BY <1>1 DEF CallsKnown, ClientTypeOK, NoCalls
<1> QED BY <1>1, <1>3, <1>4, <1>5, <1>6 DEF GivenTrue, CursorTrue, ResolvesTruly, StandsFor

LEMMA FailTruth ==
  ASSUME TruthInvariant, NEW w \in Worker, Fail(w)
  PROVE  TruthInvariant'
<1> USE DEF Fail, Abandon, Leave, TruthInvariant
<1>1. ClientTypeOK'
  BY DEF ClientTypeOK, NoCalls
<1>2. ArgsTrue'
  <2> SUFFICES ASSUME NEW v \in Worker, running'[v] # Nil
               PROVE  /\ args'[v] = [u \in Uses[Function(v)'] |-> args'[v][u]]
                      /\ \A u \in Uses[Function(v)'] : StandsFor(args[v][u], u)'
    BY DEF ArgsTrue
  <2>1. running'[v] = running[v] /\ args'[v] = args[v]
    BY DEF ArgsTrue, ClientTypeOK
  <2> QED BY <2>1 DEF ArgsTrue, StandsFor, Function
<1>3. CallsKnown'
  BY DEF CallsKnown, ClientTypeOK, NoCalls
<1> QED BY <1>1, <1>2, <1>3
        DEF GivenTrue, ValuesTrue, CursorTrue, ResolvesTruly, StandsFor

LEMMA ResolveTruth ==
  ASSUME TruthInvariant, Resolve \/ ResolveStep
  PROVE  TruthInvariant'
<1> USE DEF TruthInvariant
<1>1. UNCHANGED <<created, sources, done, running, site, given, value, args, made>>
  BY DEF Resolve, ResolveStep, contractVars
<1>2. GivenTrue' /\ ValuesTrue' /\ ArgsTrue' /\ CallsKnown'
  BY <1>1 DEF GivenTrue, ValuesTrue, ArgsTrue, CallsKnown, StandsFor, Function
<1>3. CASE Resolve
  <2>1. PICK n \in created : site[n] = Entry /\ cursor' = Promise(n)
    BY <1>3 DEF Resolve
  <2>2. ClientTypeOK'
    BY <1>1, <2>1 DEF ClientTypeOK
  <2>3. CursorTrue'
    BY <1>1, <2>1, PromiseInjective DEF CursorTrue
  <2> QED BY <1>2, <1>3, <2>2, <2>3 DEF Resolve, ResolvesTruly
<1>4. CASE ResolveStep
  <2>1. PICK n \in created : cursor = Promise(n) /\ cursor # Nil
    BY <1>4 DEF ResolveStep, ClientTypeOK
  <2>2. ResolvedValue(cursor.promise) = value[n]
    BY <2>1 DEF Promise, ResolvedValue
  <2>3. Meant[site[n]] = Meant[Entry] /\ site[n] \in Site
    BY <2>1 DEF CursorTrue, ClientTypeOK
  <2>4. CASE cursor' = Nil /\ answer' = NoValue
    BY <1>1, <1>2, <2>4 DEF ClientTypeOK, CursorTrue, ResolvesTruly
  <2>5. ASSUME value[n] \notin {Nil, NoValue} PROVE StandsFor(value[n], site[n])
    BY <2>5 DEF ValuesTrue, ClientTypeOK
  <2>6. CASE value[n] \notin {Nil, NoValue} /\ IsPromise(value[n]) /\ cursor' = value[n] /\ UNCHANGED answer
    <3>1. PICK m \in Node : value[n] = Promise(m)
      BY <2>6 DEF IsPromise
    <3>2. m \in created /\ Meant[site[m]] = Meant[Entry]
      BY <2>3, <2>5, <2>6, <3>1, StandingPromise
    <3>3. ClientTypeOK'
      BY <1>1, <2>6, <3>1, <3>2 DEF ClientTypeOK
    <3>4. CursorTrue'
      BY <1>1, <2>6, <3>1, <3>2, PromiseInjective DEF CursorTrue
    <3> QED BY <1>2, <2>6, <3>3, <3>4 DEF ResolvesTruly
  <2>7. CASE value[n] \notin {Nil, NoValue} /\ ~IsPromise(value[n]) /\ cursor' = Nil /\ answer' = value[n]
    <3>1. answer' = Meant[Entry]
      BY <2>3, <2>5, <2>7, StandingValue
    <3> QED BY <1>1, <1>2, <2>7, <3>1 DEF ClientTypeOK, CursorTrue, ResolvesTruly
  <2> QED BY <1>4, <2>2, <2>4, <2>6, <2>7 DEF ResolveStep, Follow
<1> QED BY <1>3, <1>4

\* The invariant, for every program without falsy results of sync functions.
LEMMA TruthPreserved ==
  ASSUME TruthyResults
  PROVE  ClientSpec => []TruthInvariant
<1>1. ClientInit => TruthInvariant
  BY ProgramAssumption
     DEF ClientInit, ContractInit, TruthInvariant, ClientTypeOK, GivenTrue, ValuesTrue,
         ArgsTrue, CallsKnown, CursorTrue, ResolvesTruly, NoCalls
<1>2. TruthInvariant /\ [ClientNext]_clientVars => TruthInvariant'
  <2> SUFFICES ASSUME TruthInvariant, [ClientNext]_clientVars PROVE TruthInvariant'
    OBVIOUS
  <2>1. CASE UNCHANGED clientVars
    BY <2>1 DEF clientVars, contractVars, TruthInvariant, ClientTypeOK, GivenTrue,
                ValuesTrue, ArgsTrue, CallsKnown, CursorTrue, ResolvesTruly,
                StandsFor, Function
  <2> QED
    BY <2>1, LaunchTruth, ExecuteTruth, CallTruth, SubmitTruth, FailTruth, ResolveTruth
       DEF ClientNext
<1> QED BY <1>1, <1>2, PTL DEF ClientSpec

-----------------------------------------------------------------------------
\* A worker is never given the result of another call than the one whose promise the
\* program passed, however often nodes are executed and fail.
THEOREM DeliveriesAreTrue ==
  ASSUME TruthyResults
  PROVE  ClientSpec => []DeliversTruly
<1>1. TruthInvariant => DeliversTruly
  BY DEF TruthInvariant, ArgsTrue, DeliversTruly
<1> QED BY <1>1, TruthPreserved, PTL

\* resolve() answers nothing, or the value of the program run in one process.
THEOREM AnswersAreTrue ==
  ASSUME TruthyResults
  PROVE  ClientSpec => []ResolvesTruly
BY TruthPreserved, PTL DEF TruthInvariant
-----------------------------------------------------------------------------
(***************************************************************************)
(* Types, of any program: a promise is of a node that has been created.    *)
(* Falsy results are allowed, so that nothing need be what it stands for.  *)
(***************************************************************************)
\* A value that a function or resolve() may follow as a promise can be followed.
Known(x) ==
  x \in {Nil, NoValue} \/ \A m \in Node : x = Promise(m) => m \in created

PromisesKnown ==
  /\ DOMAIN given = Node
  /\ DOMAIN value = Node /\ \A n \in Node : Known(value[n])
  /\ DOMAIN args = Worker
  /\ \A n \in Node : \A u \in DOMAIN given[n] : Known(given[n][u])
  /\ \A w \in Worker : \A u \in DOMAIN args[w] : Known(args[w][u])

KnownInvariant == ClientTypeOK /\ PromisesKnown

LEMMA ComputedIsKnown == ASSUME NEW s, NEW a PROVE Known(Computed(s, a))
<1> SUFFICES ASSUME NEW m \in Node, Computed(s, a) = Promise(m) PROVE FALSE
  BY DEF Known
<1>1. DOMAIN Promise(m) = {"promise"} /\ DOMAIN Computed(s, a) = {"site", "given"}
  BY DEF Promise, Computed
<1> QED BY <1>1

LEMMA ReferenceIsKnown ==
  ASSUME KnownInvariant, NEW w \in Worker, NEW u \in Site
  PROVE  Known(Reference(w, u))
<1> USE DEF KnownInvariant
<1>1. CASE u \in DOMAIN args[w]
  BY <1>1 DEF Reference, PromisesKnown
<1>2. CASE u \notin DOMAIN args[w]
  <2>1. made[w][u] \in created \/ made[w][u] \notin Node
    BY ProgramAssumption DEF ClientTypeOK
  <2>2. \A m \in Node : Promise(made[w][u]) = Promise(m) => m = made[w][u]
    BY PromiseInjective
  <2> QED BY <1>2, <2>1, <2>2 DEF Reference, Known
<1> QED BY <1>1, <1>2

\* A call of a decorated function with promises that are known.
LEMMA CreatedKnown ==
  ASSUME KnownInvariant, NEW s \in Site, NEW arguments,
         DOMAIN arguments = Uses[s], \A u \in Uses[s] : Known(arguments[u]),
         CommonWrapper(s, arguments), UNCHANGED <<value, args, cursor>>,
         made' \in [Worker -> [Site -> created' \cup {Nil}]]
  PROVE  KnownInvariant'
<1> USE DEF CommonWrapper, Create, KnownInvariant
<1>1. Fresh \in Node \ created /\ created' = created \cup {Fresh} /\ UNCHANGED <<done, running>>
  OBVIOUS
<1>2. ClientTypeOK'
  <2>1. site' \in [Node -> Site \cup {Nil}] /\ sources' \in [Node -> SUBSET created']
    BY <1>1 DEF ClientTypeOK
  <2>2. \A n \in created' : site'[n] \in Site /\ DOMAIN given'[n] = Uses[site'[n]]
    BY <1>1 DEF ClientTypeOK, PromisesKnown
  <2>3. \A n \in Node \ done' : value'[n] = Nil
    BY <1>1 DEF ClientTypeOK
  <2> QED BY <1>1, <2>1, <2>2, <2>3 DEF ClientTypeOK
<1>3. \A n \in Node : \A u \in DOMAIN given'[n] : Known(given'[n][u])
  BY DEF PromisesKnown
<1>4. DOMAIN given' = Node /\ \A x : Known(x) => Known(x)'
  BY <1>1 DEF PromisesKnown, Known
<1>5. PromisesKnown'
  BY <1>1, <1>3, <1>4 DEF PromisesKnown, Known
<1> QED BY <1>2, <1>5

LEMMA LaunchKnown == ASSUME KnownInvariant, Launch PROVE KnownInvariant'
<1> USE DEF Launch
<1>1. DOMAIN NoArguments = Uses[Entry] /\ Entry \in Site
  BY ProgramAssumption DEF NoArguments
<1>2. made' \in [Worker -> [Site -> created' \cup {Nil}]]
  BY DEF CommonWrapper, Create, KnownInvariant, ClientTypeOK
<1> QED BY <1>1, <1>2, CreatedKnown, ProgramAssumption

LEMMA CallKnown ==
  ASSUME KnownInvariant, NEW w \in Worker, NEW s \in Site, CallFunction(w, s)
  PROVE  KnownInvariant'
<1> USE DEF CallFunction
<1> DEFINE arguments == [u \in Uses[s] |-> Reference(w, u)]
<1>1. \A u \in Uses[s] : Known(arguments[u])
  BY ReferenceIsKnown, ProgramAssumption
<1>2. made' \in [Worker -> [Site -> created' \cup {Nil}]]
  BY DEF CommonWrapper, Create, KnownInvariant, ClientTypeOK
<1> QED BY <1>1, <1>2, CreatedKnown

LEMMA ExecuteKnown ==
  ASSUME KnownInvariant, NEW w \in Worker, NEW n \in Node, Execute(w, n)
  PROVE  KnownInvariant'
<1> USE DEF Execute, Start, KnownInvariant
<1>1. ClientTypeOK'
  BY DEF ClientTypeOK
<1>2. \A u \in DOMAIN given[n] : Known(ResolvePromises(given[n])[u])
  <2> SUFFICES ASSUME NEW u \in DOMAIN given[n]
               PROVE  Known(ResolvePromises(given[n])[u])
    OBVIOUS
  <2>1. CASE ~IsPromise(given[n][u])
    BY <2>1 DEF ResolvePromises, PromisesKnown
  <2>2. ASSUME NEW m \in Node, given[n][u] = Promise(m)
        PROVE  Known(ResolvePromises(given[n])[u])
    <3>1. given[n][u].promise = m
      BY <2>2 DEF Promise
    <3>2. ResolvePromises(given[n])[u] = value[m]
      BY <2>2, <3>1 DEF ResolvePromises, IsPromise, ResolvedValue
    <3> QED BY <3>2 DEF PromisesKnown
  <2> QED BY <2>1, <2>2 DEF IsPromise
<1>3. DOMAIN ResolvePromises(given[n]) = DOMAIN given[n]
  BY DEF ResolvePromises
<1>4. PromisesKnown'
  BY <1>2, <1>3 DEF PromisesKnown, Known
<1> QED BY <1>1, <1>4

LEMMA SubmitKnown ==
  ASSUME KnownInvariant, NEW w \in Worker, Submit(w)
  PROVE  KnownInvariant'
<1> USE DEF Submit, Finish, Leave, KnownInvariant
<1>1. /\ running[w] \in created /\ running[w] \in Node
      /\ running' = [running EXCEPT ![w] = Nil] /\ done' = done \cup {running[w]}
      /\ UNCHANGED <<created, sources, site, given, cursor>>
  BY DEF ClientTypeOK
<1>2. ClientTypeOK'
  BY <1>1 DEF ClientTypeOK, NoCalls, PromisesKnown
<1>3. Known(WrapperResult(Function(w), Outcome(w)))
  <2>1. Known(NoValue)
    BY DEF Known
  <2>2. Function(w) \in Site
    BY <1>1 DEF Function, ClientTypeOK
  <2>3. Known(Outcome(w))
    BY <2>2, ProgramAssumption, ComputedIsKnown, ReferenceIsKnown DEF Outcome
  <2> QED BY <2>1, <2>3 DEF WrapperResult
<1>4. \A n \in Node : Known(value'[n])
  BY <1>1, <1>3 DEF PromisesKnown
<1>5. \A v \in Worker : \A u \in DOMAIN args'[v] : Known(args'[v][u])
  BY DEF PromisesKnown, NoArguments
<1>6. PromisesKnown'
  BY <1>1, <1>4, <1>5 DEF PromisesKnown, Known
<1> QED BY <1>2, <1>6

LEMMA FailKnown ==
  ASSUME KnownInvariant, NEW w \in Worker, Fail(w)
  PROVE  KnownInvariant'
<1> USE DEF Fail, Abandon, Leave, KnownInvariant
<1>1. ClientTypeOK'
  BY DEF ClientTypeOK, NoCalls
<1>2. PromisesKnown'
  BY DEF PromisesKnown, Known, NoArguments
<1> QED BY <1>1, <1>2

\* What resolve() follows is a promise, which is known.
LEMMA ResolveKnown ==
  ASSUME KnownInvariant, Resolve \/ ResolveStep
  PROVE  KnownInvariant'
<1> USE DEF KnownInvariant
<1>1. UNCHANGED <<created, sources, done, running, site, given, value, args, made>>
  BY DEF Resolve, ResolveStep, contractVars
<1>2. PromisesKnown'
  BY <1>1 DEF PromisesKnown, Known
<1>3. cursor' = Nil \/ \E n \in created' : cursor' = Promise(n)
  <2>1. CASE Resolve
    BY <1>1, <2>1 DEF Resolve
  <2>2. CASE ResolveStep
    <3>1. PICK n \in created : cursor = Promise(n) /\ cursor # Nil
      BY <2>2 DEF ResolveStep, ClientTypeOK
    <3>2. ResolvedValue(cursor.promise) = value[n]
      BY <3>1 DEF Promise, ResolvedValue
    <3>3. ASSUME value[n] \notin {Nil, NoValue}, IsPromise(value[n])
          PROVE  \E m \in created : value[n] = Promise(m)
      BY <3>3 DEF IsPromise, PromisesKnown, Known, ClientTypeOK
    <3> QED BY <1>1, <2>2, <3>2, <3>3 DEF ResolveStep, Follow
  <2> QED BY <2>1, <2>2
<1>4. ClientTypeOK'
  BY <1>1, <1>3 DEF ClientTypeOK
<1> QED BY <1>2, <1>4

\* Nodes, values and calls have their types in every program, and resolve() follows
\* promises of nodes there are only, so that GetNode finds what it is asked for.
THEOREM ClientIsTyped == ClientSpec => []ClientTypeOK
<1>1. ClientInit => KnownInvariant
  BY ProgramAssumption
     DEF ClientInit, ContractInit, KnownInvariant, ClientTypeOK, PromisesKnown, Known,
         NoCalls, NoArguments
<1>2. KnownInvariant /\ [ClientNext]_clientVars => KnownInvariant'
  <2> SUFFICES ASSUME KnownInvariant, [ClientNext]_clientVars PROVE KnownInvariant'
    OBVIOUS
  <2>1. CASE UNCHANGED clientVars
    BY <2>1 DEF clientVars, contractVars, KnownInvariant, ClientTypeOK, PromisesKnown, Known
  <2> QED
    BY <2>1, LaunchKnown, ExecuteKnown, CallKnown, SubmitKnown, FailKnown, ResolveKnown
       DEF ClientNext
<1>3. KnownInvariant => ClientTypeOK
  BY DEF KnownInvariant
<1> QED BY <1>1, <1>2, <1>3, PTL DEF ClientSpec
=============================================================================
