----------------------------- MODULE RateLimiter -----------------------------
(***************************************************************************)
(* The token bucket of one key in Redis.  The script that refills and      *)
(* consumes it is atomic, but the time it works with is the one a client   *)
(* took before it sent the call, so the stamps of several clients may      *)
(* arrive out of order and the bucket's last_refill may go back.           *)
(*                                                                         *)
(* A watch is started at an arbitrary moment and counts the tokens granted *)
(* from then on.  Rates are in tokens per tick of the clock.               *)
(***************************************************************************)
EXTENDS Integers

CONSTANTS
    Rate,     \* tokens that are refilled per tick
    Burst,    \* capacity of the bucket
    KeyTTL,   \* ticks after which Redis drops an idle bucket
    MaxLag,   \* bound of the model: ticks that pass at most during one call
    MaxTime   \* bound of the model: ticks of the clock

ASSUME RateAssumption ==
    /\ Rate \in Nat \ {0} /\ Burst \in Nat \ {0}
    /\ MaxLag \in Nat /\ MaxTime \in Nat /\ KeyTTL \in Nat
    /\ Rate * (KeyTTL - MaxLag) >= Burst

VARIABLES
    clock,   \* the time of the clients' clocks
    bucket,  \* the hash lycan:rl:{key}; "touched" is when EXPIRE was called
    watch    \* history: when the watch began and what was granted since

limiterVars == <<clock, bucket, watch>>

Absent  == [kind |-> "absent"]
Bucket  == [kind : {"hash"}, tokens : Int, last_refill : Int, touched : Nat]
NoWatch == [kind |-> "off"]
Watch   == [kind : {"on"}, since : Nat, granted : Nat]

LimiterInit == clock = 0 /\ bucket = Absent /\ watch = NoWatch

Smaller(a, b) == IF a <= b THEN a ELSE b

\* Mutant: the refill is not capped at the capacity.
Refilled_Uncapped(t) ==
    IF bucket = Absent THEN Burst
    ELSE bucket.tokens + (t - bucket.last_refill) * Rate

\* The tokens the script finds at the client's time t.
Refilled(t) ==
    IF bucket = Absent THEN Burst
    ELSE Smaller(Burst, bucket.tokens + (t - bucket.last_refill) * Rate)

Granted(t) == Refilled(t) >= 1

\* One run of the script, for a client that read its clock at time t.
Acquire(t) ==
    /\ bucket' = [kind |-> "hash", tokens |-> Refilled(t) - (IF Granted(t) THEN 1 ELSE 0),
                  last_refill |-> t, touched |-> clock]
    /\ watch' = IF watch # NoWatch /\ Granted(t)
                THEN [watch EXCEPT !.granted = @ + 1] ELSE watch
    /\ UNCHANGED clock

\* Redis drops a bucket nobody has used for KeyTTL.
Expire ==
    /\ bucket # Absent /\ clock >= bucket.touched + KeyTTL
    /\ bucket' = Absent
    /\ UNCHANGED <<clock, watch>>

StartWatch ==
    /\ watch = NoWatch
    /\ watch' = [kind |-> "on", since |-> clock, granted |-> 0]
    /\ UNCHANGED <<clock, bucket>>

Tick ==
    /\ clock < MaxTime /\ clock' = clock + 1
    /\ UNCHANGED <<bucket, watch>>

LimiterNext ==
    \/ \E t \in (clock - MaxLag)..clock : t >= 0 /\ Acquire(t)
    \/ Expire \/ StartWatch \/ Tick

LimiterSpec == LimiterInit /\ [][LimiterNext]_limiterVars

-----------------------------------------------------------------------------
(* Properties.                                                              *)

LimiterTypeOK ==
    /\ clock \in 0..MaxTime
    /\ bucket \in {Absent} \cup Bucket
    /\ watch \in {NoWatch} \cup Watch

\* Whenever one starts to count, the key grants at most its burst and what the
\* rate refills, plus what it refills during one delayed call, although stamps
\* arrive out of order and the key may be dropped (rate_limiter.py:91-123).
WindowBounded ==
    watch # NoWatch => watch.granted <= Burst + Rate * (clock - watch.since + MaxLag)
=============================================================================
