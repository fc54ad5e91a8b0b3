--------------------------- MODULE RetryPolicies ---------------------------
(***************************************************************************)
(* The retry policy of a DAG node (broker/retry.go) and how CreateNode     *)
(* obtains it from the RetryMessage of the client (broker/server.go).      *)
(*                                                                         *)
(* One unit of time stands for one second.  The jitter of the exponential  *)
(* policy, a random fraction of a second that the code adds before it      *)
(* rounds to milliseconds, is 0 or 1.                                      *)
(***************************************************************************)
EXTENDS Integers

(***************************************************************************)
(* The RetryMessage that the client may attach to a node: all fields are   *)
(* int32, an unset field reads 0.  NoMessage is an absent message.         *)
(***************************************************************************)
RetryMessage == [maxAttempts : Int, staticInterval : Int, exponentialBase : Int]
NoMessage == [maxAttempts |-> 0, staticInterval |-> 0, exponentialBase |-> 0]

RetryPolicy ==
  [enabled : BOOLEAN, maxAttempts : Int, staticInterval : Nat,
   exponentialBackoffBase : Nat]

\* The nil policy: a failed node is never retried.
NoPolicy ==
  [enabled |-> FALSE, maxAttempts |-> 0, staticInterval |-> 0,
   exponentialBackoffBase |-> 0]

NewStaticRetryPolicy(interval, max) ==
  [enabled |-> TRUE, maxAttempts |-> max, staticInterval |-> interval,
   exponentialBackoffBase |-> 0]

NewExponentialRetryPolicy(base, max) ==
  [enabled |-> TRUE, maxAttempts |-> max, staticInterval |-> 0,
   exponentialBackoffBase |-> base]

\* A message with neither a positive interval nor a positive base yields no
\* policy at all, whatever its maxAttempts.
PolicyOfMessage(m) ==
  IF m.staticInterval > 0
    THEN NewStaticRetryPolicy(m.staticInterval, m.maxAttempts)
    ELSE IF m.exponentialBase > 0
           THEN NewExponentialRetryPolicy(m.exponentialBase, m.maxAttempts)
           ELSE NoPolicy

Jitter == 0 .. 1

\* -1 when the attempts are used up, or when no wait is configured.
GetWaitInterval(policy, currentAttempt, jitter) ==
  IF currentAttempt >= policy.maxAttempts
    THEN -1
    ELSE IF policy.staticInterval > 0
           THEN policy.staticInterval
           ELSE IF policy.exponentialBackoffBase > 0
                  THEN policy.exponentialBackoffBase ^ currentAttempt + jitter
                  ELSE -1

\* Mistake: the attempts are not counted.
NextAttemptKept(policy, currentAttempt) == currentAttempt

\* The attempt counter after the call: an exhausted policy is left alone.
NextAttempt(policy, currentAttempt) ==
  IF currentAttempt >= policy.maxAttempts THEN currentAttempt
                                          ELSE currentAttempt + 1
=============================================================================
