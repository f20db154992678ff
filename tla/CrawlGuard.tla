----------------------------- MODULE CrawlGuard -----------------------------
(***************************************************************************)
(* The requests that crawlers send to one domain, HttpxCrawler.get/post:   *)
(* the breaker is asked, a token is waited for, the request is sent and    *)
(* its outcome reported.  Every call of Redis is a step of its own, so any *)
(* number of callers may be between the read and the write of the same     *)
(* hash.                                                                   *)
(*                                                                         *)
(* A caller outside Wired lives in a process that never handed Redis to    *)
(* the breaker and the limiter: there both let everything through.         *)
(***************************************************************************)
EXTENDS RateLimiter, CircuitBreaker

CONSTANTS
    Callers,    \* tasks that request from the domain
    Wired,      \* those in a process that ran init_circuit_breaker/_rate_limiter
    MaxWait,    \* ticks a caller waits for a token altogether
    MaxFaults,  \* bound of the model: calls of Redis that fail
    MaxForced   \* bound of the model: times an operator closes the circuit

ASSUME CallersAssumption ==
    Wired \subseteq Callers /\ MaxWait \in Nat /\ MaxFaults \in Nat /\ MaxForced \in Nat

VARIABLES
    call,    \* call[c]: where the caller is and what it holds
    faults,  \* history: failed calls of Redis
    forced   \* history: closures by the operator

guardVars == <<limiterVars, circuit, call, faults, forced>>

Pc == {"idle", "check", "acquire", "take", "sleep", "send", "record", "trip"}

\* "at" is the last time the caller read, or the time it wakes up; "unaware"
\* notes that the circuit opened after it asked, or that Redis failed it.
Call == [pc : Pc, seen : Hash, at : Int, waited : Int, ok : BOOLEAN, unaware : BOOLEAN]
Idle == [pc |-> "idle", seen |-> NoHash, at |-> 0, waited |-> 0, ok |-> FALSE, unaware |-> FALSE]

GuardInit ==
    /\ LimiterInit
    /\ circuit = NoHash
    /\ call = [c \in Callers |-> Idle]
    /\ faults = 0 /\ forced = 0

-----------------------------------------------------------------------------
(* Calls of Redis.                                                          *)

Fault(c) == c \in Wired /\ faults < MaxFaults /\ faults' = faults + 1

\* Every caller on its way learns nothing of a circuit that opens now.
WithOpening(calls) ==
    IF circuit.state = "OPEN" \/ circuit'.state # "OPEN" THEN calls
    ELSE [c \in Callers |-> IF calls[c].pc = "idle" THEN Idle
                            ELSE [calls[c] EXCEPT !.unaware = TRUE]]

\* The caller writes the hash and goes on as "next"; an error is swallowed.
Put(c, hash, next) ==
    \/ /\ circuit' = IF c \in Wired THEN hash ELSE circuit
       /\ call' = WithOpening([call EXCEPT ![c] = next])
       /\ UNCHANGED faults
    \/ /\ Fault(c)
       /\ call' = [call EXCEPT ![c] = IF next = Idle THEN Idle ELSE [next EXCEPT !.unaware = TRUE]]
       /\ UNCHANGED circuit

\* The caller reads the hash, or nothing, and goes on as "next".
Get(c, next) ==
    \/ /\ call' = [call EXCEPT ![c] = [next EXCEPT !.seen = IF c \in Wired THEN circuit ELSE NoHash]]
       /\ UNCHANGED faults
    \/ /\ Fault(c)
       /\ call' = [call EXCEPT ![c] = [next EXCEPT !.seen = NoHash, !.unaware = TRUE]]

-----------------------------------------------------------------------------
(* One request.                                                             *)

AskBreaker(c) ==
    /\ call[c].pc = "idle"
    /\ Get(c, [Idle EXCEPT !.pc = "check", !.at = clock])
    /\ UNCHANGED <<limiterVars, circuit, forced>>

CheckBreaker(c) ==
    /\ call[c].pc = "check"
    /\ LET seen == call[c].seen
           now  == call[c].at
       IN Put(c, AfterCheck(seen, now),
              IF Blocks(seen, now) THEN Idle
              ELSE [Idle EXCEPT !.pc = "acquire", !.unaware = call[c].unaware])
    /\ UNCHANGED <<limiterVars, forced>>

Goes(c, pc, at) == call' = [call EXCEPT ![c].pc = pc, ![c].at = at]

StampToken(c) ==
    /\ call[c].pc = "acquire"
    /\ IF c \in Wired THEN Goes(c, "take", clock) ELSE Goes(c, "send", 0)
    /\ UNCHANGED <<limiterVars, circuit, faults, forced>>

\* Ticks after which a refused caller tries again.
RetryAfter(tokens) == (1 - tokens + Rate - 1) \div Rate

\* A caller that would wait too long, or that Redis fails, sends without a token.
TakeToken(c) ==
    /\ call[c].pc = "take"
    /\ \/ /\ Acquire(call[c].at)
          /\ LET wait == RetryAfter(Refilled(call[c].at))
             IN IF Granted(call[c].at) \/ call[c].waited + wait > MaxWait
                THEN Goes(c, "send", 0)
                ELSE call' = [call EXCEPT ![c].pc = "sleep", ![c].at = clock + wait,
                                          ![c].waited = @ + wait]
          /\ UNCHANGED faults
       \/ /\ Fault(c)
          /\ Acquire(call[c].at) \/ UNCHANGED limiterVars
          /\ Goes(c, "send", 0)
    /\ UNCHANGED <<circuit, forced>>

\* Mutant: the time is read once, before the loop.
Wake_OldTime(c) ==
    /\ call[c].pc = "sleep" /\ clock >= call[c].at
    /\ Goes(c, "take", call[c].at - call[c].waited)
    /\ UNCHANGED <<limiterVars, circuit, faults, forced>>

Wake(c) ==
    /\ call[c].pc = "sleep" /\ clock >= call[c].at
    /\ Goes(c, "acquire", 0)
    /\ UNCHANGED <<limiterVars, circuit, faults, forced>>

\* The answer or an exception, after which the hash is read again.
Answer(c) ==
    /\ call[c].pc = "send"
    /\ \E ok \in BOOLEAN :
           Get(c, [call[c] EXCEPT !.pc = "record", !.at = clock, !.ok = ok, !.waited = 0])
    /\ UNCHANGED <<limiterVars, circuit, forced>>

RecordSuccess(c) ==
    /\ call[c].pc = "record" /\ call[c].ok
    /\ Put(c, AfterSuccess(call[c].seen), Idle)
    /\ UNCHANGED <<limiterVars, forced>>

RecordFailure(c) ==
    /\ call[c].pc = "record" /\ ~call[c].ok
    /\ Put(c, AfterFailure(call[c].seen, call[c].at),
           IF Trips(call[c].seen) THEN [call[c] EXCEPT !.pc = "trip"] ELSE Idle)
    /\ UNCHANGED <<limiterVars, forced>>

Trip(c) ==
    /\ call[c].pc = "trip"
    /\ Put(c, Opened(call[c].at), Idle)
    /\ UNCHANGED <<limiterVars, forced>>

-----------------------------------------------------------------------------
(* The rest.                                                                *)

\* POST /system/circuit-breakers/{domain}/reset.
ForceClose ==
    /\ forced < MaxForced /\ forced' = forced + 1
    /\ circuit' = Closed
    /\ UNCHANGED <<limiterVars, call, faults>>

DropBucket == Expire /\ UNCHANGED <<circuit, call, faults, forced>>
Watching   == StartWatch /\ UNCHANGED <<circuit, call, faults, forced>>

\* A call of Redis takes no longer than MaxLag.
Elapse ==
    /\ \A c \in Callers : call[c].pc \in {"check", "take", "record", "trip"}
                              => clock - call[c].at < MaxLag
    /\ Tick /\ UNCHANGED <<circuit, call, faults, forced>>

GuardNext ==
    \/ \E c \in Callers :
           \/ AskBreaker(c) \/ CheckBreaker(c)
           \/ StampToken(c) \/ TakeToken(c) \/ Wake(c)
           \/ Answer(c) \/ RecordSuccess(c) \/ RecordFailure(c) \/ Trip(c)
    \/ ForceClose \/ DropBucket \/ Watching \/ Elapse

GuardSpec == GuardInit /\ [][GuardNext]_guardVars

-----------------------------------------------------------------------------
(* Properties.                                                              *)

\* The types of the guard; a caller that waits has not waited longer than it may.
GuardTypeOK ==
    /\ LimiterTypeOK
    /\ circuit \in Hash
    /\ call \in [Callers -> Call]
    /\ \A c \in Callers : call[c].waited <= MaxWait
    /\ faults \in 0..MaxFaults /\ forced \in 0..MaxForced

InFlight == {"acquire", "take", "sleep", "send"}

\* While the circuit is open, only requests are on their way that asked before
\* it opened or that an error of Redis let through (httpx_base.py:57-63).
RefusedWhileOpen ==
    circuit.state = "OPEN" =>
        \A c \in Callers : call[c].pc \in InFlight => call[c].unaware

\* Whatever the callers and Redis do, the bucket is used as the limiter
\* assumes: with times at most MaxLag old (rate_limiter.py:172-200).
UsesLimiter == LimiterSpec
=============================================================================
