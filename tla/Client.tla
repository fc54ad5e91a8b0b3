------------------------------- MODULE Client -------------------------------
(***************************************************************************)
(* The Python side: a program of decorated functions, executed by workers  *)
(* through the broker's contract.  Where the program calls a decorated     *)
(* function, the wrapper creates a node and returns a promise; the worker  *)
(* that executes the node replaces the promises among its arguments by the *)
(* results of those nodes, and resolve() follows promises to a value.      *)
(*                                                                         *)
(* A program is given by its call sites.  The value a function computes is *)
(* the record of the call site and of what the function was given, so that *)
(* different computations have different values.                           *)
(***************************************************************************)
EXTENDS DagContract, Integers, FiniteSets

CONSTANTS
  Site,     \* the calls of decorated functions in the program
  Entry,    \* the entrypoint, called by the client
  CallerOf, \* the site whose function makes the call; Nil: the client
  Uses,     \* the sites whose values are passed to the call
  Returns,  \* the site whose value the function returns; Nil: it computes one
  Falsy,    \* the sites whose functions compute a falsy value
  Async,    \* the sites of functions decorated with asyncfn
  Meant,    \* the value of each site if promises were fulfilled at once
  NoValue   \* Python's None

Children(s) == {t \in Site : CallerOf[t] = s}

\* A call is passed values of earlier calls of the same function or values the
\* function was given itself; a function returns one of these or its own.
ASSUME ProgramAssumption ==
  /\ Nil \notin Node \cup Site
  /\ Node \subseteq Nat
  /\ Entry \in Site
  /\ CallerOf \in [Site -> Site \cup {Nil}]
  /\ Uses \in [Site -> SUBSET Site]
  /\ Returns \in [Site -> Site \cup {Nil}]
  /\ Uses[Entry] = {}
  /\ \A s \in Site :
       /\ Returns[s] # Nil => Returns[s] \in Uses[s] \cup Children(s)
       /\ CallerOf[s] # Nil =>
            Uses[s] \subseteq Uses[CallerOf[s]] \cup Children(CallerOf[s])

Promise(n) == [promise |-> n]

Computed(s, arguments) == [site |-> s, given |-> arguments]

\* In the end something is computed, which is not a promise.
ASSUME MeantAssumption ==
  /\ Meant = [s \in Site |-> IF Returns[s] # Nil
                               THEN Meant[Returns[s]]
                               ELSE Computed(s, [u \in Uses[s] |-> Meant[u]])]
  /\ \A s \in Site : DOMAIN Meant[s] = {"site", "given"}

VARIABLES
  site,   \* the call that created the node
  given,  \* the arguments of that call, promises among them
  value,  \* the node's resolvedValue; Nil: empty
  args,   \* the arguments of the function each worker executes
  made,   \* the nodes its calls have created
  cursor, \* the promise a resolve() call has come to; Nil: no call
  answer  \* what the last resolve() call returned

clientVars == <<contractVars, site, given, value, args, made, cursor, answer>>

NoCalls == [s \in Site |-> Nil]
NoArguments == [u \in {} |-> Nil]

IsPromise(x) == \E n \in Node : x = Promise(n)

ClientInit ==
  /\ sources = [n \in Node |-> {}] /\ ContractInit
  /\ site = [n \in Node |-> Nil]
  /\ given = [n \in Node |-> NoArguments]
  /\ value = [n \in Node |-> Nil]
  /\ args = [w \in Worker |-> NoArguments]
  /\ made = [w \in Worker |-> NoCalls]
  /\ cursor = Nil
  /\ answer = Nil

-----------------------------------------------------------------------------
FindPromises(arguments) ==
  {n \in Node : \E u \in DOMAIN arguments : arguments[u] = Promise(n)}

Fresh == Cardinality(created) + 1

\* The wrapper of a decorated function, called by the program: common_wrapper
\* creates a node under a new identifier.
CommonWrapper(s, arguments) ==
  /\ Create(Fresh, FindPromises(arguments))
  /\ site' = [site EXCEPT ![Fresh] = s]
  /\ given' = [given EXCEPT ![Fresh] = arguments]

\* DAGDefinition.__call__ for the one instance there is.
Launch ==
  /\ created = {}
  /\ CommonWrapper(Entry, NoArguments)
  /\ UNCHANGED <<value, args, made, cursor, answer>>

\* What the broker's messages say of a node, as a source or as itself.
ResolvedValue(n) == value[n]

-----------------------------------------------------------------------------
(***************************************************************************)
(* execute_worker_async.  A promise that is the result of a source is      *)
(* passed on as it is.                                                     *)
(***************************************************************************)
ResolvePromises(arguments) ==
  [u \in DOMAIN arguments |->
     IF IsPromise(arguments[u]) THEN ResolvedValue(arguments[u].promise)
                                ELSE arguments[u]]

Execute(w, n) ==
  /\ Start(w, n)
  /\ args' = [args EXCEPT ![w] = ResolvePromises(given[n])]
  /\ UNCHANGED <<site, given, value, made, cursor, answer>>

Function(w) == site[running[w]]

\* What the executing function has for a site: an argument or a promise.
Has(w, u) == u \in DOMAIN args[w] \/ made[w][u] # Nil
Reference(w, u) == IF u \in DOMAIN args[w] THEN args[w][u] ELSE Promise(made[w][u])

\* The executing function calls another decorated function.
CallFunction(w, s) ==
  /\ running[w] # Nil
  /\ CallerOf[s] = Function(w)
  /\ made[w][s] = Nil
  /\ \A u \in Uses[s] : Has(w, u)
  /\ CommonWrapper(s, [u \in Uses[s] |-> Reference(w, u)])
  /\ made' = [made EXCEPT ![w][s] = Fresh]
  /\ UNCHANGED <<value, args, cursor, answer>>

\* The local variables of the function end with it.
Leave(w) ==
  /\ args' = [args EXCEPT ![w] = NoArguments]
  /\ made' = [made EXCEPT ![w] = NoCalls]

Outcome(w) ==
  LET s == Function(w)
  IN  IF Returns[s] = Nil THEN Computed(s, args[w]) ELSE Reference(w, Returns[s])

Truthy(x) == x # NoValue /\ (IsPromise(x) \/ x.site \notin Falsy)

\* Mistake: asyncfn tests the result as syncfn does.
SyncResult(s, x) == IF Truthy(x) THEN x ELSE NoValue

\* syncfn tests the result itself, asyncfn the coroutine that is yet to return it.
\* The promise that is returned otherwise is None under greedy_execution.
WrapperResult(s, x) == IF s \in Async \/ Truthy(x) THEN x ELSE NoValue

\* The function returns, and the worker submits the result.  A function that
\* computes with a promise raises an exception instead.
Submit(w) ==
  /\ running[w] # Nil
  /\ \A s \in Children(Function(w)) : made[w][s] # Nil
  /\ Returns[Function(w)] = Nil => \A u \in DOMAIN args[w] : ~IsPromise(args[w][u])
  /\ value' = [value EXCEPT ![running[w]] = WrapperResult(Function(w), Outcome(w))]
  /\ Finish(w)
  /\ Leave(w)
  /\ UNCHANGED <<site, given, cursor, answer>>

\* The function raises an exception, or the worker dies or is refused.
Fail(w) ==
  /\ Abandon(w)
  /\ Leave(w)
  /\ UNCHANGED <<site, given, value, cursor, answer>>

-----------------------------------------------------------------------------
(***************************************************************************)
(* resolve(instance, promise), for the promise of the entrypoint.          *)
(***************************************************************************)
Resolve ==
  /\ cursor = Nil
  /\ \E n \in created : site[n] = Entry /\ cursor' = Promise(n)
  /\ UNCHANGED <<contractVars, site, given, value, args, made, answer>>

\* Mistake: a promise is returned like any other value.
FollowNothing(x) == FALSE
\* Mistake: every value is taken for a promise.
FollowAnything(x) == TRUE

Follow(x) == IsPromise(x)

\* GetNode, and what the loop does with the node's resolvedValue.
ResolveStep ==
  LET result == ResolvedValue(cursor.promise)
  IN  /\ cursor # Nil
      /\ \/ /\ result \in {Nil, NoValue}
            /\ answer' = NoValue
            /\ cursor' = Nil
         \/ /\ result \notin {Nil, NoValue} /\ Follow(result)
            /\ cursor' = result
            /\ UNCHANGED answer
         \/ /\ result \notin {Nil, NoValue} /\ ~Follow(result)
            /\ answer' = result
            /\ cursor' = Nil
      /\ UNCHANGED <<contractVars, site, given, value, args, made>>

ClientNext ==
  \/ Launch
  \/ \E w \in Worker :
       \/ \E n \in Node : Execute(w, n)
       \/ \E s \in Site : CallFunction(w, s)
       \/ Submit(w) \/ Fail(w)
  \/ Resolve \/ ResolveStep

ClientSpec == ClientInit /\ [][ClientNext]_clientVars

-----------------------------------------------------------------------------
\* The value stands for that of the site: it is that value, or the promise of a
\* call that has that value.
StandsFor(x, s) ==
  \/ x = Meant[s]
  \/ \E n \in created : x = Promise(n) /\ Meant[site[n]] = Meant[s]

ClientTypeOK ==
  /\ created \subseteq Node /\ done \subseteq created
  /\ sources \in [Node -> SUBSET created]
  /\ running \in [Worker -> created \cup {Nil}]
  /\ site \in [Node -> Site \cup {Nil}]
  /\ \A n \in created : site[n] \in Site /\ DOMAIN given[n] = Uses[site[n]]
  /\ \A n \in Node \ done : value[n] = Nil
  /\ made \in [Worker -> [Site -> created \cup {Nil}]]
  /\ cursor = Nil \/ \E n \in created : cursor = Promise(n)

\* Whatever a worker is given, when nodes are executed more than once, fail and are
\* abandoned, stands for the value that the program means: each argument is the result
\* of the call it belongs to, and of no other.  That result may still be a promise, of a
\* call that has the same value: see DeliversValues.
DeliversTruly ==
  \A w \in Worker : running[w] # Nil =>
    \A u \in DOMAIN args[w] : StandsFor(args[w][u], u)

\* What a worker is given is never a promise: promises are "fully realized before the
\* DAG function is called" (models/promise.py).
DeliversValues ==
  \A w \in Worker : running[w] # Nil =>
    \A u \in DOMAIN args[w] : ~IsPromise(args[w][u])

\* resolve() returns nothing, or the value the program would have if all promises
\* were fulfilled instantly and the values passed downstream (decorators.py), at
\* any time and whatever is executed again meanwhile.
ResolvesTruly == answer \in {Nil, NoValue, Meant[Entry]}
=============================================================================
