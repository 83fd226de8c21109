----------------------------- MODULE HttpClient -----------------------------
(***************************************************************************)
(* The client that carries every call of a process: one token bucket that  *)
(* all callers share, and a request that is retried while it may be.       *)
(***************************************************************************)
EXTENDS Integers

CONSTANTS
  Callers,    \* the tool calls and the supervisor that run concurrently
  Burst,      \* the capacity of the bucket
  GetRetries  \* how often a read is tried again

ASSUME HttpClientAssumption == Burst \in Nat \ {0} /\ GetRetries \in Nat

VARIABLES
  tokens,  \* what the bucket holds
  req      \* the request each caller awaits

Stages == {"idle", "queued", "flying", "backoff", "answered", "failed"}

NoRequest == [stage |-> "idle", left |-> 0]
Get       == [stage |-> "queued", left |-> GetRetries]
Post      == [stage |-> "queued", left |-> 0]

HttpInit == tokens = Burst /\ req = [c \in Callers |-> NoRequest]

Becomes(c, from, to) ==
  req[c].stage = from /\ req' = [req EXCEPT ![c].stage = to]

\* Wrong: one wait is taken for one token.
WokenUp == TRUE

\* A caller that has slept looks again: another may have taken the token.
HasToken == tokens >= 1

TakeToken(c) ==
  /\ HasToken
  /\ Becomes(c, "queued", "flying")
  /\ tokens' = tokens - 1

\* The bucket is filled when somebody looks into it: here, token by token.
Refill == tokens < Burst /\ tokens' = tokens + 1 /\ UNCHANGED req

Ends(c, how) == req[c].stage = "flying" /\ req' = [req EXCEPT ![c] = [stage |-> how, left |-> 0]]

Answer(c) == Ends(c, "answered")

\* A 4xx, a body that is not JSON, or the last of the attempts.
Fail(c) == Ends(c, "failed")

\* Wrong: an attempt that failed is not counted.
SameAttempt(left) == left

NextAttempt(left) == left - 1

\* A 429, a 5xx, a timeout or a broken connection.
Retry(c) ==
  /\ req[c].stage = "flying"
  /\ req[c].left > 0
  /\ req' = [req EXCEPT ![c] = [stage |-> "backoff", left |-> NextAttempt(req[c].left)]]

Wake(c) == Becomes(c, "backoff", "queued")
=============================================================================
