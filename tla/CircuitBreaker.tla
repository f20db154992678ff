--------------------------- MODULE CircuitBreaker ---------------------------
(***************************************************************************)
(* The breaker of one domain: a hash in Redis that callers read, decide on *)
(* and write back in separate calls.  The operators below are the          *)
(* decisions; each is given the hash its caller has seen and the time it   *)
(* has read, both of which may be old when the write arrives.              *)
(***************************************************************************)
EXTENDS Integers

CONSTANTS
    FailureThreshold,  \* failures before the circuit opens
    SuccessThreshold,  \* successes in HALF_OPEN before it closes
    OpenDuration,      \* ticks it stays OPEN before a probe
    HalfOpenTimeout    \* ticks it stays HALF_OPEN before it opens again

VARIABLE circuit  \* the hash lycan:cb:{domain}

CircuitState == {"CLOSED", "OPEN", "HALF_OPEN"}

\* "since" is opened_at or half_opened_at, whichever the state is read with.
Hash == [state : CircuitState, failures : Nat, successes : Nat, since : Nat]

\* What a missing key, a failed read and a breaker without Redis all look like.
NoHash == [state |-> "CLOSED", failures |-> 0, successes |-> 0, since |-> 0]

\* A transition resets both counters.
To(state, now) == [NoHash EXCEPT !.state = state, !.since = now]

Opened(now)     == To("OPEN", now)
HalfOpened(now) == To("HALF_OPEN", now)
Closed          == To("CLOSED", 0)

ProbeDue(seen, now) == seen.state = "OPEN" /\ now - seen.since >= OpenDuration
ProbeOver(seen, now) == seen.state = "HALF_OPEN" /\ now - seen.since >= HalfOpenTimeout

\* is_open: whether the caller is refused, and what it writes.
Blocks(seen, now) ==
    \/ seen.state = "OPEN" /\ ~ProbeDue(seen, now)
    \/ ProbeOver(seen, now)

\* Mutant: the probe is allowed without a transition.
AfterCheck_NoHalf(seen, now) ==
    IF ProbeOver(seen, now) THEN Opened(now) ELSE circuit

AfterCheck(seen, now) ==
    CASE ProbeDue(seen, now)  -> HalfOpened(now)
      [] ProbeOver(seen, now) -> Opened(now)
      [] OTHER                -> circuit

AfterSuccess(seen) ==
    CASE seen.state # "HALF_OPEN"                 -> [circuit EXCEPT !.failures = 0]
      [] seen.successes + 1 >= SuccessThreshold   -> Closed
      [] OTHER -> [circuit EXCEPT !.successes = seen.successes + 1]

AfterFailure(seen, now) ==
    IF seen.state = "HALF_OPEN" THEN Opened(now)
    ELSE [circuit EXCEPT !.failures = seen.failures + 1]

\* Whether a second write follows that opens the circuit.
Trips(seen) == seen.state = "CLOSED" /\ seen.failures + 1 >= FailureThreshold
=============================================================================
