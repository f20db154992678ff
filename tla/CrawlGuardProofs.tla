-------------------------- MODULE CrawlGuardProofs --------------------------
(***************************************************************************)
(* The limiter's bound for every rate, burst, lag and number of callers:   *)
(* first for the bucket on its own, then for the callers that use it.      *)
(***************************************************************************)
EXTENDS CrawlGuard, TLAPS

LEMMA Monotone == ASSUME NEW a \in Int, NEW b \in Int, a <= b
                  PROVE  Rate * a <= Rate * b
<1>1. Rate \in Nat BY RateAssumption
<1>2. b - a \in Nat OBVIOUS
<1>3. \A r \in Nat, n \in Nat : r * n >= 0 OBVIOUS
<1>4. Rate * (b - a) >= 0 BY <1>1, <1>2, <1>3
<1>5. Rate * (b - a) = Rate * b - Rate * a BY <1>1
<1> QED BY <1>1, <1>4, <1>5

-----------------------------------------------------------------------------
(* The bucket.  While a key exists, what was granted and what is left stay  *)
(* under the line of the refill, and both are tied to the last use; after   *)
(* the key was dropped a whole burst must have been refilled meanwhile.     *)

Line(x) == Burst + Rate * (x - watch.since + MaxLag)

BucketOK == bucket # Absent =>
    /\ bucket.tokens <= Burst
    /\ bucket.last_refill <= bucket.touched /\ bucket.touched <= clock
    /\ bucket.last_refill >= bucket.touched - MaxLag

InUse == bucket # Absent /\ watch # NoWatch =>
    IF bucket.touched >= watch.since
    THEN /\ watch.granted + bucket.tokens <= Line(bucket.last_refill)
         /\ watch.granted <= Line(bucket.touched)
    ELSE watch.granted = 0

Dropped == bucket = Absent /\ watch # NoWatch => watch.granted <= Rate * (clock - watch.since)

Since == watch # NoWatch => watch.since <= clock

Types == /\ clock \in 0..MaxTime
         /\ bucket \in {Absent} \cup Bucket
         /\ bucket # Absent => bucket.last_refill \in Nat
         /\ watch \in {NoWatch} \cup Watch

LimiterInv == Types /\ BucketOK /\ Since /\ InUse /\ Dropped

LEMMA Kinds == /\ \A w \in Watch : w # NoWatch
               /\ \A b \in Bucket : b # Absent
BY DEF Watch, NoWatch, Bucket, Absent

LEMMA Bounded == LimiterInv => WindowBounded
<1> SUFFICES ASSUME LimiterInv, watch # NoWatch
             PROVE  watch.granted <= Line(clock)
    BY DEF WindowBounded, Line
<1> USE DEF LimiterInv
<1>0. /\ clock \in Int /\ watch \in Watch /\ watch.since \in Int /\ watch.granted \in Int
      /\ Rate \in Nat /\ Burst \in Nat /\ MaxLag \in Nat
    BY RateAssumption DEF Types, Watch
<1>1. Rate * 0 = 0 BY <1>0
<1>2. watch.since <= clock BY DEF Since
<1>3. Rate * (clock - watch.since + MaxLag) >= Rate * 0 BY <1>0, <1>2, Monotone
<1>4. CASE bucket = Absent
    <2>1. watch.granted <= Rate * (clock - watch.since) BY <1>4 DEF Dropped
    <2>2. Rate * (clock - watch.since) <= Rate * (clock - watch.since + MaxLag)
        BY <1>0, Monotone
    <2> HIDE DEF LimiterInv
    <2> DEFINE p == Rate * (clock - watch.since)
               q == Rate * (clock - watch.since + MaxLag)
    <2>3. p \in Int /\ q \in Int BY <1>0
    <2> QED BY <1>0, <2>1, <2>2, <2>3 DEF Line
<1>5. CASE bucket # Absent
    <2>0. bucket \in Bucket /\ bucket.touched \in Int BY <1>5 DEF Types, Bucket
    <2>1. CASE bucket.touched >= watch.since
        <3>1. watch.granted <= Line(bucket.touched) BY <1>5, <2>1 DEF InUse
        <3>2. bucket.touched <= clock BY <1>5 DEF BucketOK
        <3>3. Rate * (bucket.touched - watch.since + MaxLag) <= Rate * (clock - watch.since + MaxLag)
            BY <1>0, <2>0, <3>2, Monotone
        <3> HIDE DEF LimiterInv
        <3> DEFINE p == Rate * (bucket.touched - watch.since + MaxLag)
                   q == Rate * (clock - watch.since + MaxLag)
        <3>4. p \in Int /\ q \in Int BY <1>0, <2>0
        <3>5. p <= q BY <3>3
        <3>6. watch.granted <= Burst + p BY <3>1 DEF Line
        <3> HIDE DEF p, q
        <3>7. watch.granted <= Burst + q BY <1>0, <3>4, <3>5, <3>6
        <3> QED BY <3>7 DEF Line, q
    <2>2. CASE ~(bucket.touched >= watch.since)
        <3>1. watch.granted = 0 BY <1>5, <2>2 DEF InUse
        <3> DEFINE q == Rate * (clock - watch.since + MaxLag)
        <3>2. q \in Int /\ q >= 0 BY <1>0, <1>1, <1>3
        <3> HIDE DEF q, LimiterInv
        <3>3. watch.granted <= Burst + q BY <1>0, <3>1, <3>2
        <3> QED BY <3>3 DEF Line, q
    <2> QED BY <2>1, <2>2
<1> QED BY <1>4, <1>5

LEMMA LimiterStarts == LimiterInit => LimiterInv
<1> SUFFICES ASSUME LimiterInit PROVE LimiterInv OBVIOUS
<1>1. clock = 0 /\ bucket = Absent /\ watch = NoWatch BY DEF LimiterInit
<1>2. Types BY <1>1, RateAssumption DEF Types
<1> QED BY <1>1, <1>2 DEF LimiterInv, BucketOK, Since, InUse, Dropped

\* What a run of the script leaves, whether it grants or refuses.
LEMMA AfterScript ==
    ASSUME Types, NEW t \in Nat, Acquire(t)
    PROVE  /\ bucket' \in Bucket /\ bucket'.last_refill = t /\ bucket'.touched = clock
           /\ bucket'.tokens = Refilled(t) - (IF Granted(t) THEN 1 ELSE 0)
           /\ bucket' # Absent /\ Refilled(t) \in Int /\ Refilled(t) <= Burst
           /\ bucket = Absent => Refilled(t) = Burst
           /\ bucket # Absent => Refilled(t) <= bucket.tokens + (t - bucket.last_refill) * Rate
           /\ clock' = clock
<1>0. /\ clock \in Nat /\ Rate \in Int /\ Burst \in Int
      /\ bucket # Absent => bucket \in Bucket /\ bucket.tokens \in Int /\ bucket.last_refill \in Int
    BY RateAssumption DEF Types, Bucket, Absent
<1>1. /\ Refilled(t) \in Int /\ Refilled(t) <= Burst
      /\ bucket = Absent => Refilled(t) = Burst
      /\ bucket # Absent => Refilled(t) <= bucket.tokens + (t - bucket.last_refill) * Rate
    <2>1. CASE bucket = Absent BY <1>0, <2>1 DEF Refilled
    <2>2. CASE bucket # Absent
        <3> DEFINE more == (t - bucket.last_refill) * Rate
        <3>1. more \in Int BY <1>0, <2>2
        <3>2. Refilled(t) = Smaller(Burst, bucket.tokens + more) BY <2>2 DEF Refilled
        <3>3. bucket.tokens \in Int BY <1>0, <2>2
        <3> HIDE DEF more
        <3>4. /\ Refilled(t) \in Int /\ Refilled(t) <= Burst
              /\ Refilled(t) <= bucket.tokens + more
            BY <1>0, <3>1, <3>2, <3>3 DEF Smaller
        <3> QED BY <2>2, <3>4 DEF more
    <2> QED BY <2>1, <2>2
<1>2. bucket' = [kind |-> "hash", tokens |-> Refilled(t) - (IF Granted(t) THEN 1 ELSE 0),
                 last_refill |-> t, touched |-> clock]
    BY DEF Acquire
<1>3. Refilled(t) - (IF Granted(t) THEN 1 ELSE 0) \in Int BY <1>1
<1>4. bucket' \in Bucket BY <1>0, <1>2, <1>3 DEF Bucket
<1> QED BY <1>1, <1>2, <1>4, Kinds DEF Acquire

LEMMA ScriptTypes ==
    ASSUME LimiterInv, NEW t \in Nat, clock - MaxLag <= t, t <= clock, Acquire(t)
    PROVE  Types' /\ BucketOK' /\ Since' /\ Dropped'
<1> USE DEF LimiterInv
<1>1. /\ bucket' \in Bucket /\ bucket'.last_refill = t /\ bucket'.touched = clock
      /\ bucket'.tokens = Refilled(t) - (IF Granted(t) THEN 1 ELSE 0)
      /\ bucket' # Absent /\ Refilled(t) \in Int /\ Refilled(t) <= Burst /\ clock' = clock
    BY AfterScript
<1>2. /\ watch' = watch \/ (watch # NoWatch /\ watch' = [watch EXCEPT !.granted = @ + 1])
    BY DEF Acquire
<1>3. watch' \in {NoWatch} \cup Watch /\ (watch' # NoWatch => watch # NoWatch /\ watch'.since = watch.since)
    BY <1>2 DEF Types, Watch, NoWatch
<1>4. Types' BY <1>1, <1>3 DEF Types
<1>5. BucketOK'
    <2>1. clock \in Nat /\ Burst \in Int /\ MaxLag \in Nat BY RateAssumption DEF Types
    <2>2. bucket'.tokens <= Burst BY <1>1, <2>1
    <2> QED BY <1>1, <2>1, <2>2 DEF BucketOK
<1>6. Since' BY <1>1, <1>3 DEF Since
<1> QED BY <1>1, <1>4, <1>5, <1>6 DEF Dropped

LEMMA ScriptInUse ==
    ASSUME LimiterInv, NEW t \in Nat, clock - MaxLag <= t, t <= clock, Acquire(t)
    PROVE  InUse'
<1> SUFFICES ASSUME watch' # NoWatch
             PROVE  /\ bucket'.touched >= watch'.since
                    /\ watch'.granted + bucket'.tokens <= Line(bucket.last_refill)'
                    /\ watch'.granted <= Line(bucket.touched)'
    BY DEF InUse
<1>1. /\ bucket' \in Bucket /\ bucket'.last_refill = t /\ bucket'.touched = clock
      /\ bucket'.tokens = Refilled(t) - (IF Granted(t) THEN 1 ELSE 0)
      /\ Refilled(t) \in Int /\ Refilled(t) <= Burst
      /\ bucket = Absent => Refilled(t) = Burst
      /\ bucket # Absent => Refilled(t) <= bucket.tokens + (t - bucket.last_refill) * Rate
    BY AfterScript DEF LimiterInv
<1>2. watch \in Watch /\ watch # NoWatch /\ watch'.since = watch.since
      /\ watch'.granted = watch.granted + (IF Granted(t) THEN 1 ELSE 0)
    BY DEF Acquire, LimiterInv, Types, Watch, NoWatch
<1>3. /\ clock \in Nat /\ Rate \in Nat /\ Burst \in Nat /\ MaxLag \in Nat
      /\ watch.since \in Nat /\ watch.granted \in Nat /\ watch.since <= clock
    BY <1>2, RateAssumption DEF LimiterInv, Types, Watch, Since
<1>4. WindowBounded BY Bounded
<1> DEFINE p == Rate * (t - watch.since + MaxLag)
           q == Rate * (clock - watch.since + MaxLag)
<1>5. p \in Int /\ q \in Int /\ p >= 0 /\ p <= q
    <2>1. Rate * 0 = 0 BY <1>3
    <2>2. Rate * 0 <= p BY <1>3, Monotone
    <2>3. p <= q BY <1>3, Monotone
    <2> QED BY <1>3, <2>1, <2>2, <2>3
<1>6. watch.granted <= Burst + q BY <1>2, <1>4 DEF WindowBounded
<1>7. watch.granted + Refilled(t) <= Burst + p
    <2>1. CASE bucket = Absent
        <3>1. watch.granted <= Rate * (clock - watch.since)
            BY <1>2, <2>1 DEF LimiterInv, Dropped
        <3>2. Rate * (clock - watch.since) <= p BY <1>3, Monotone
        <3> DEFINE r == Rate * (clock - watch.since)
        <3>3. r \in Int /\ watch.granted <= r /\ r <= p BY <1>3, <3>1, <3>2
        <3> HIDE DEF r, p, q
        <3> QED BY <1>1, <1>3, <1>5, <2>1, <3>3
    <2>2. CASE bucket # Absent /\ bucket.touched >= watch.since
        <3>1. bucket \in Bucket /\ bucket.tokens \in Int /\ bucket.last_refill \in Nat
            BY <2>2 DEF LimiterInv, Types, Bucket
        <3>2. watch.granted + bucket.tokens <= Burst + Rate * (bucket.last_refill - watch.since + MaxLag)
            BY <1>2, <2>2 DEF LimiterInv, InUse, Line
        <3> DEFINE r == Rate * (bucket.last_refill - watch.since + MaxLag)
                   s == (t - bucket.last_refill) * Rate
        <3>3. r \in Int /\ s \in Int /\ r + s = p BY <1>3, <3>1
        <3>4. watch.granted + bucket.tokens <= Burst + r /\ Refilled(t) <= bucket.tokens + s
            BY <1>1, <2>2, <3>2
        <3> HIDE DEF r, s, p, q
        <3> QED BY <1>1, <1>3, <1>5, <3>1, <3>3, <3>4
    <2>3. CASE bucket # Absent /\ ~(bucket.touched >= watch.since)
        <3>1. watch.granted = 0 BY <1>2, <2>3 DEF LimiterInv, InUse
        <3> HIDE DEF p, q
        <3> QED BY <1>1, <1>3, <1>5, <3>1
    <2> QED BY <2>1, <2>2, <2>3
<1>8. Line(bucket.last_refill)' = Burst + p /\ Line(bucket.touched)' = Burst + q
    BY <1>1, <1>2 DEF Line
<1> HIDE DEF p, q
<1>9. watch'.granted + bucket'.tokens <= Burst + p
    BY <1>1, <1>2, <1>3, <1>5, <1>7
<1>10. watch'.granted <= Burst + q
    <2>1. CASE Granted(t)
        <3>1. bucket'.tokens >= 0 /\ bucket'.tokens \in Int BY <1>1, <2>1 DEF Granted
        <3> QED BY <1>2, <1>3, <1>5, <1>9, <3>1
    <2>2. CASE ~Granted(t) BY <1>2, <1>3, <1>6, <2>2
    <2> QED BY <2>1, <2>2
<1> QED BY <1>1, <1>2, <1>3, <1>8, <1>9, <1>10

LEMMA ExpireStep == ASSUME LimiterInv, Expire PROVE LimiterInv'
<1> USE DEF LimiterInv
<1>1. bucket # Absent /\ clock >= bucket.touched + KeyTTL /\ bucket' = Absent
      /\ clock' = clock /\ watch' = watch
    BY DEF Expire
<1>2. Types' /\ BucketOK' /\ Since' /\ InUse' BY <1>1 DEF Types, BucketOK, Since, InUse
<1>3. Dropped'
    <2> SUFFICES ASSUME watch # NoWatch PROVE watch.granted <= Rate * (clock - watch.since)
        BY <1>1 DEF Dropped
    <2>1. /\ clock \in Nat /\ Rate \in Nat /\ Burst \in Nat /\ MaxLag \in Nat /\ KeyTTL \in Nat
          /\ watch.since \in Nat /\ watch.granted \in Nat /\ watch.since <= clock
          /\ bucket.touched \in Nat /\ bucket.touched <= clock
        BY <1>1, RateAssumption DEF Types, Watch, Bucket, Since, BucketOK
    <2> DEFINE p == Rate * (clock - watch.since)
    <2>2. CASE bucket.touched >= watch.since
        <3> DEFINE q == Rate * (bucket.touched - watch.since + MaxLag)
                   r == Rate * (KeyTTL - MaxLag)
        <3>1. q \in Int /\ r \in Int /\ p \in Int BY <2>1
        <3>2. watch.granted <= Burst + q BY <1>1, <2>2 DEF InUse, Line
        <3>3. Burst <= r BY RateAssumption
        <3>4. q + r = Rate * (bucket.touched + KeyTTL - watch.since) BY <2>1
        <3>5. Rate * (bucket.touched + KeyTTL - watch.since) <= p BY <1>1, <2>1, Monotone
        <3> HIDE DEF p, q, r, LimiterInv
        <3>6. q + r <= p BY <3>4, <3>5
        <3> QED BY <2>1, <3>1, <3>2, <3>3, <3>6 DEF p
    <2>3. CASE ~(bucket.touched >= watch.since)
        <3>1. watch.granted = 0 BY <1>1, <2>3 DEF InUse
        <3>2. Rate * 0 <= p /\ Rate * 0 = 0 BY <2>1, Monotone
        <3> QED BY <3>1, <3>2
    <2> QED BY <2>2, <2>3
<1> QED BY <1>2, <1>3

LEMMA StartWatchStep == ASSUME LimiterInv, StartWatch PROVE LimiterInv'
<1> USE DEF LimiterInv
<1>1. watch' = [kind |-> "on", since |-> clock, granted |-> 0]
      /\ clock' = clock /\ bucket' = bucket
    BY DEF StartWatch
<1>2. /\ clock \in Nat /\ Rate \in Nat /\ Burst \in Nat /\ MaxLag \in Nat
    BY RateAssumption DEF Types
<1>3. watch' \in Watch BY <1>1, <1>2 DEF Watch
<1>4. Types' /\ BucketOK' /\ Since' BY <1>1, <1>2, <1>3 DEF Types, BucketOK, Since
<1>5. Dropped'
    <2>1. Rate * (clock - clock) = 0 BY <1>2
    <2> QED BY <1>1, <2>1 DEF Dropped
<1>6. InUse'
    <2> SUFFICES ASSUME bucket # Absent, bucket.touched >= clock
                 PROVE  bucket.tokens <= Line(bucket.last_refill)' /\ 0 <= Line(bucket.touched)'
        <3>1. bucket # Absent => bucket.tokens \in Int BY DEF Types, Bucket, Absent
        <3> QED BY <1>1, <3>1 DEF InUse
    <2>1. bucket.tokens \in Int /\ bucket.last_refill \in Int /\ bucket.touched \in Int
        BY DEF Types, Bucket
    <2> DEFINE p == Rate * (bucket.last_refill - clock + MaxLag)
               q == Rate * (bucket.touched - clock + MaxLag)
    <2>2. bucket.last_refill - clock + MaxLag >= 0 /\ bucket.tokens <= Burst
        BY <1>2, <2>1 DEF BucketOK
    <2>3. Rate * 0 = 0 /\ Rate * 0 <= p /\ Rate * 0 <= q /\ p \in Int /\ q \in Int
        BY <1>2, <2>1, <2>2, Monotone
    <2>4. Line(bucket.last_refill)' = Burst + p /\ Line(bucket.touched)' = Burst + q
        BY <1>1 DEF Line
    <2> HIDE DEF p, q
    <2> QED BY <1>2, <2>1, <2>2, <2>3, <2>4
<1> QED BY <1>4, <1>5, <1>6

LEMMA TickStep == ASSUME LimiterInv, Tick PROVE LimiterInv'
<1> USE DEF LimiterInv
<1>1. clock < MaxTime /\ clock' = clock + 1 /\ bucket' = bucket /\ watch' = watch BY DEF Tick
<1>2. clock \in Nat /\ MaxTime \in Nat /\ Rate \in Nat BY RateAssumption DEF Types
<1>3. Types' BY <1>1, <1>2 DEF Types
<1>4. BucketOK'
    <2>1. bucket # Absent => bucket.touched \in Int BY DEF Types, Bucket, Absent
    <2> QED BY <1>1, <1>2, <2>1 DEF BucketOK
<1>5. Since'
    <2>1. watch # NoWatch => watch.since \in Int BY DEF Types, Watch, NoWatch
    <2> QED BY <1>1, <1>2, <2>1 DEF Since
<1>6. InUse' BY <1>1 DEF InUse, Line
<1>7. Dropped'
    <2> SUFFICES ASSUME bucket = Absent, watch # NoWatch
                 PROVE  watch.granted <= Rate * (clock' - watch.since)
        BY <1>1 DEF Dropped
    <2>1. watch.granted \in Int /\ watch.since \in Int BY DEF Types, Watch
    <2> DEFINE p == Rate * (clock - watch.since)
               q == Rate * (clock' - watch.since)
    <2>2. p \in Int /\ q \in Int /\ p <= q BY <1>1, <1>2, <2>1, Monotone
    <2>3. watch.granted <= p BY DEF Dropped
    <2> HIDE DEF p, q
    <2>4. watch.granted <= q BY <2>1, <2>2, <2>3
    <2> QED BY <2>4 DEF q
<1> QED BY <1>3, <1>4, <1>5, <1>6, <1>7

LEMMA LimiterStep == LimiterInv /\ [LimiterNext]_limiterVars => LimiterInv'
<1> SUFFICES ASSUME LimiterInv, [LimiterNext]_limiterVars PROVE LimiterInv' OBVIOUS
<1>1. ASSUME NEW t \in (clock - MaxLag)..clock, t >= 0, Acquire(t) PROVE LimiterInv'
    <2>1. clock \in Nat /\ MaxLag \in Nat BY RateAssumption DEF LimiterInv, Types
    <2>2. t \in Nat /\ clock - MaxLag <= t /\ t <= clock BY <1>1, <2>1
    <2> QED BY <1>1, <2>2, ScriptTypes, ScriptInUse DEF LimiterInv
<1>2. CASE UNCHANGED limiterVars
    BY <1>2 DEF limiterVars, LimiterInv, Types, BucketOK, Since, InUse, Dropped, Line
<1> QED BY <1>1, <1>2, ExpireStep, StartWatchStep, TickStep DEF LimiterNext

\* However late and out of order the stamps arrive, and whenever the key is
\* dropped, no window of time sees more grants than the burst and the refill
\* allow (rate_limiter.py:91-123).
THEOREM LimiterCorrect == LimiterSpec => []WindowBounded
BY LimiterStarts, LimiterStep, Bounded, PTL DEF LimiterSpec

-----------------------------------------------------------------------------
(* The callers: the times they hand to the bucket are recent, and one that  *)
(* has read a circuit that is open still, has read it open.                 *)

Typed == /\ circuit \in Hash
         /\ call \in [Callers -> Call]
         /\ faults \in 0..MaxFaults /\ forced \in 0..MaxForced

Patient == \A c \in Callers : call[c].waited <= MaxWait

Fresh(x) == x.pc \in {"check", "take", "record", "trip"} =>
                x.at >= 0 /\ x.at <= clock /\ x.at >= clock - MaxLag

Recent == \A c \in Callers : Fresh(call[c])

Informed == circuit.state = "OPEN" =>
    \A c \in Callers : /\ call[c].pc \in InFlight => call[c].unaware
                       /\ call[c].pc = "check" /\ ~call[c].unaware => call[c].seen.state = "OPEN"

CallersInv == Typed /\ Patient /\ Recent

\* Where a caller goes as far as the bucket is concerned.
Fits(next) == next \in Call /\ next.waited <= MaxWait /\ Fresh(next)

LEMMA IdleFits == Idle \in Call /\ NoHash \in Hash /\ Fits(Idle)
BY CallersAssumption DEF Idle, Call, NoHash, Hash, CircuitState, Pc, Fits, Fresh

LEMMA WithOpeningKeeps ==
    ASSUME NEW calls \in [Callers -> Call]
    PROVE  /\ WithOpening(calls) \in [Callers -> Call]
           /\ \A c \in Callers : WithOpening(calls)[c] # Idle =>
                  /\ WithOpening(calls)[c].pc = calls[c].pc
                  /\ WithOpening(calls)[c].at = calls[c].at
                  /\ WithOpening(calls)[c].waited = calls[c].waited
BY IdleFits DEF WithOpening, Call

\* A write to the breaker moves its caller and marks others.
LEMMA PutKeeps ==
    ASSUME CallersInv, NEW c \in Callers, NEW hash \in Hash, NEW next, Fits(next),
           Put(c, hash, next), clock' = clock, forced' = forced
    PROVE  CallersInv'
<1> USE DEF CallersInv, Typed, Patient, Recent
<1>1. CASE /\ circuit' = IF c \in Wired THEN hash ELSE circuit
           /\ call' = WithOpening([call EXCEPT ![c] = next])
           /\ UNCHANGED faults
    <2> DEFINE calls == [call EXCEPT ![c] = next]
    <2>1. /\ calls \in [Callers -> Call]
          /\ \A d \in Callers : calls[d].waited <= MaxWait
          /\ \A d \in Callers : Fresh(calls[d])
        BY DEF Fits
    <2> HIDE DEF calls
    <2>2. /\ call' \in [Callers -> Call] /\ circuit' \in Hash
          /\ \A d \in Callers : call'[d] # Idle => /\ call'[d].pc = calls[d].pc
                                                   /\ call'[d].at = calls[d].at
                                                   /\ call'[d].waited = calls[d].waited
        BY <1>1, <2>1, WithOpeningKeeps DEF calls
    <2>3. Idle.pc = "idle" /\ Idle.waited <= MaxWait BY IdleFits DEF Fits, Idle
    <2>4. Patient' BY <2>1, <2>2, <2>3
    <2>5. Recent'
        <3> SUFFICES ASSUME NEW d \in Callers PROVE Fresh(call[d])' OBVIOUS
        <3>1. CASE call'[d] = Idle BY <2>3, <3>1 DEF Fresh
        <3>2. CASE call'[d] # Idle BY <2>1, <2>2, <3>2 DEF Fresh
        <3> QED BY <3>1, <3>2
    <2> QED BY <1>1, <2>2, <2>4, <2>5
<1>2. CASE /\ Fault(c)
           /\ call' = [call EXCEPT ![c] = IF next = Idle THEN Idle ELSE [next EXCEPT !.unaware = TRUE]]
           /\ UNCHANGED circuit
    <2> DEFINE n == IF next = Idle THEN Idle ELSE [next EXCEPT !.unaware = TRUE]
    <2>1. Fits(n) BY IdleFits DEF Fits, Fresh, Call
    <2>2. faults' \in 0..MaxFaults BY <1>2, CallersAssumption DEF Fault
    <2> HIDE DEF n
    <2>3. call' = [call EXCEPT ![c] = n] BY <1>2 DEF n
    <2> QED BY <1>2, <2>1, <2>2, <2>3 DEF Fits, Fresh
<1> QED BY <1>1, <1>2 DEF Put

\* A read of the breaker moves its caller.
LEMMA GetKeeps ==
    ASSUME CallersInv, NEW c \in Callers, NEW next, Fits(next),
           Get(c, next), clock' = clock, forced' = forced, circuit' = circuit
    PROVE  CallersInv'
<1> USE DEF CallersInv, Typed, Patient, Recent
<1>1. \A h \in Hash : Fits([next EXCEPT !.seen = h]) /\ Fits([next EXCEPT !.seen = h, !.unaware = TRUE])
    BY DEF Fits, Fresh, Call
<1>2. PICK n : Fits(n) /\ call' = [call EXCEPT ![c] = n]
    BY <1>1, IdleFits DEF Get
<1>3. faults' \in 0..MaxFaults BY CallersAssumption DEF Get, Fault
<1> QED BY <1>2, <1>3 DEF Fits, Fresh

\* What the breaker's decisions write is a hash.
LEMMA Decisions ==
    ASSUME circuit \in Hash, NEW seen \in Hash, NEW now \in Nat
    PROVE  /\ AfterCheck(seen, now) \in Hash /\ AfterSuccess(seen) \in Hash
           /\ AfterFailure(seen, now) \in Hash /\ Opened(now) \in Hash /\ Closed \in Hash
<1>1. \A s \in CircuitState, n \in Nat : To(s, n) \in Hash
    BY IdleFits DEF To, Hash
<1>2. Opened(now) \in Hash /\ HalfOpened(now) \in Hash /\ Closed \in Hash
    BY <1>1 DEF Opened, HalfOpened, Closed, CircuitState
<1>3. \A n \in Nat : /\ [circuit EXCEPT !.failures = n] \in Hash
                     /\ [circuit EXCEPT !.successes = n] \in Hash
    BY DEF Hash
<1>4. seen.failures + 1 \in Nat /\ seen.successes + 1 \in Nat BY DEF Hash
<1> QED BY <1>2, <1>3, <1>4 DEF AfterCheck, AfterSuccess, AfterFailure

GuardInv == LimiterInv /\ CallersInv

\* A caller that has just read the clock.
LEMMA JustNow ==
    ASSUME NEW x \in Call, NEW pc \in Pc, clock \in Nat, MaxLag \in Nat, x.waited <= MaxWait
    PROVE  Fits([x EXCEPT !.pc = pc, !.at = clock])
<1>1. [x EXCEPT !.pc = pc, !.at = clock] \in Call
    <2> DEFINE y == [x EXCEPT !.pc = pc]
    <2>1. y \in Call BY DEF Call
    <2>2. [x EXCEPT !.pc = pc, !.at = clock] = [y EXCEPT !.at = clock] BY DEF Call
    <2> HIDE DEF y
    <2>3. [y EXCEPT !.at = clock] \in Call BY <2>1 DEF Call
    <2> QED BY <2>2, <2>3
<1>2. [x EXCEPT !.pc = pc, !.at = clock].at = clock
      /\ [x EXCEPT !.pc = pc, !.at = clock].waited = x.waited
    BY DEF Call
<1> QED BY <1>1, <1>2 DEF Fits, Fresh

\* One step of a caller: the bucket is left alone or used with a recent time.
LEMMA BreakerSteps ==
    ASSUME GuardInv, NEW c \in Callers,
           AskBreaker(c) \/ CheckBreaker(c) \/ Answer(c) \/ RecordSuccess(c)
               \/ RecordFailure(c) \/ Trip(c)
    PROVE  CallersInv' /\ UNCHANGED limiterVars
<1> USE DEF GuardInv
<1>0. /\ clock \in Nat /\ circuit \in Hash /\ call[c] \in Call
      /\ call[c].seen \in Hash /\ call[c].waited <= MaxWait /\ call[c].waited \in Int
      /\ call[c].at \in Int /\ Fresh(call[c]) /\ MaxLag \in Nat
    BY RateAssumption DEF LimiterInv, Types, CallersInv, Typed, Patient, Recent, Call
<1>1. CASE AskBreaker(c)
    <2>1. Fits([Idle EXCEPT !.pc = "check", !.at = clock])
        BY <1>0, IdleFits, JustNow DEF Fits, Pc
    <2>2. Get(c, [Idle EXCEPT !.pc = "check", !.at = clock])
          /\ UNCHANGED limiterVars /\ circuit' = circuit /\ forced' = forced
        BY <1>1 DEF AskBreaker
    <2> QED BY <2>1, <2>2, GetKeeps DEF limiterVars
<1>2. CASE CheckBreaker(c)
    <2> DEFINE next == IF Blocks(call[c].seen, call[c].at) THEN Idle
                       ELSE [Idle EXCEPT !.pc = "acquire", !.unaware = call[c].unaware]
    <2>0. \A u \in BOOLEAN : Fits([Idle EXCEPT !.pc = "acquire", !.unaware = u])
        BY IdleFits DEF Fits, Fresh, Call, Pc, Idle
    <2>1. Fits(next) BY <1>0, <2>0, IdleFits DEF Call
    <2>2. call[c].at \in Nat BY <1>0, <1>2 DEF CheckBreaker, Fresh
    <2>3. AfterCheck(call[c].seen, call[c].at) \in Hash BY <1>0, <2>2, Decisions
    <2>4. Put(c, AfterCheck(call[c].seen, call[c].at), next)
          /\ UNCHANGED limiterVars /\ forced' = forced
        BY <1>2 DEF CheckBreaker
    <2> HIDE DEF next
    <2> QED BY <2>1, <2>3, <2>4, PutKeeps DEF limiterVars
<1>3. CASE Answer(c)
    <2>1. PICK ok \in BOOLEAN :
              Get(c, [call[c] EXCEPT !.pc = "record", !.at = clock, !.ok = ok, !.waited = 0])
        BY <1>3 DEF Answer
    <2>2. Fits([call[c] EXCEPT !.pc = "record", !.at = clock, !.ok = ok, !.waited = 0])
        <3> DEFINE x == [call[c] EXCEPT !.ok = ok, !.waited = 0]
        <3> DEFINE y == [call[c] EXCEPT !.ok = ok]
        <3>0. y \in Call BY <1>0 DEF Call
        <3>1. x \in Call /\ x.waited <= MaxWait
            <4>1. x = [y EXCEPT !.waited = 0] /\ x.waited = 0 BY <1>0 DEF Call
            <4> HIDE DEF y
            <4>2. [y EXCEPT !.waited = 0] \in Call BY <3>0 DEF Call
            <4> QED BY <4>1, <4>2, CallersAssumption
        <3>2. "record" \in Pc BY DEF Pc
        <3>3. Fits([x EXCEPT !.pc = "record", !.at = clock]) BY <1>0, <3>1, <3>2, JustNow
        <3>4. [x EXCEPT !.pc = "record", !.at = clock]
                  = [call[c] EXCEPT !.pc = "record", !.at = clock, !.ok = ok, !.waited = 0]
            BY <1>0 DEF Call
        <3> QED BY <3>3, <3>4
    <2>3. UNCHANGED limiterVars /\ circuit' = circuit /\ forced' = forced BY <1>3 DEF Answer
    <2> QED BY <2>1, <2>2, <2>3, GetKeeps DEF limiterVars
<1>4. CASE RecordSuccess(c)
    <2>1. AfterSuccess(call[c].seen) \in Hash BY <1>0, Decisions
    <2>2. Put(c, AfterSuccess(call[c].seen), Idle) /\ UNCHANGED limiterVars /\ forced' = forced
        BY <1>4 DEF RecordSuccess
    <2> QED BY <2>1, <2>2, PutKeeps, IdleFits DEF limiterVars
<1>5. CASE RecordFailure(c)
    <2> DEFINE next == IF Trips(call[c].seen) THEN [call[c] EXCEPT !.pc = "trip"] ELSE Idle
    <2>0. Fits([call[c] EXCEPT !.pc = "trip"])
        BY <1>0, <1>5 DEF RecordFailure, Fits, Fresh, Call, Pc
    <2>1. Fits(next) BY <2>0, IdleFits
    <2>2. call[c].at \in Nat BY <1>0, <1>5 DEF RecordFailure, Fresh
    <2>3. AfterFailure(call[c].seen, call[c].at) \in Hash BY <1>0, <2>2, Decisions
    <2>4. Put(c, AfterFailure(call[c].seen, call[c].at), next)
          /\ UNCHANGED limiterVars /\ forced' = forced
        BY <1>5 DEF RecordFailure
    <2> HIDE DEF next
    <2> QED BY <2>1, <2>3, <2>4, PutKeeps DEF limiterVars
<1>6. CASE Trip(c)
    <2>1. call[c].at \in Nat BY <1>0, <1>6 DEF Trip, Fresh
    <2>2. Opened(call[c].at) \in Hash BY <1>0, <2>1, Decisions
    <2>3. Put(c, Opened(call[c].at), Idle) /\ UNCHANGED limiterVars /\ forced' = forced
        BY <1>6 DEF Trip
    <2> QED BY <2>2, <2>3, PutKeeps, IdleFits DEF limiterVars
<1> QED BY <1>1, <1>2, <1>3, <1>4, <1>5, <1>6

LEMMA LimiterSteps ==
    ASSUME GuardInv, NEW c \in Callers, StampToken(c) \/ TakeToken(c) \/ Wake(c)
    PROVE  CallersInv' /\ [LimiterNext]_limiterVars
<1> USE DEF GuardInv, CallersInv, Typed, Patient, Recent
<1>0. /\ clock \in Nat /\ MaxLag \in Nat /\ Rate \in Nat \ {0} /\ call[c] \in Call
      /\ call[c].waited <= MaxWait /\ call[c].waited \in Int /\ call[c].at \in Int /\ Fresh(call[c])
    BY RateAssumption DEF LimiterInv, Types, Call
<1>1. ASSUME NEW pc \in Pc, NEW at \in Int, NEW w \in Int, w <= MaxWait,
             pc = "take" => at = clock, pc \notin {"check", "record", "trip"},
             call' = [call EXCEPT ![c].pc = pc, ![c].at = at, ![c].waited = w],
             clock' = clock, circuit' = circuit, forced' = forced, faults' \in 0..MaxFaults
      PROVE  CallersInv'
    <2>1. /\ call'[c].pc = pc /\ call'[c].at = at /\ call'[c].waited = w
          /\ call'[c].seen = call[c].seen /\ call'[c].ok = call[c].ok
          /\ call'[c].unaware = call[c].unaware
        BY <1>0, <1>1 DEF Call
    <2>2. \A d \in Callers : d # c => call'[d] = call[d] BY <1>1
    <2> DEFINE n == [pc |-> pc, seen |-> call[c].seen, at |-> at, waited |-> w,
                     ok |-> call[c].ok, unaware |-> call[c].unaware]
    <2>3. n \in Call BY <1>0, <1>1 DEF Call
    <2>4. call'[c] = n
        <3>1. call'[c] = [call[c] EXCEPT !.pc = pc, !.at = at, !.waited = w] BY <1>1
        <3> QED BY <1>0, <3>1 DEF Call
    <2> HIDE DEF n
    <2>5. call' \in [Callers -> Call]
        <3>1. \A d \in Callers : call'[d] \in Call BY <2>2, <2>3, <2>4
        <3>2. call' = [d \in Callers |-> call'[d]] BY <1>1
        <3> QED BY <3>1, <3>2
    <2>6. Patient' BY <1>1, <2>1, <2>2
    <2>7. Recent'
        <3> SUFFICES ASSUME NEW d \in Callers PROVE Fresh(call[d])' OBVIOUS
        <3>1. CASE d = c BY <1>0, <1>1, <2>1, <3>1 DEF Fresh
        <3>2. CASE d # c BY <1>1, <2>2, <3>2 DEF Fresh
        <3> QED BY <3>1, <3>2
    <2> QED BY <1>1, <2>5, <2>6, <2>7
<1>2. ASSUME NEW pc \in Pc, NEW at \in Int, Goes(c, pc, at),
             pc = "take" => at = clock, pc \notin {"check", "record", "trip"},
             clock' = clock, circuit' = circuit, forced' = forced, faults' \in 0..MaxFaults
      PROVE  CallersInv'
    <2>1. call' = [call EXCEPT ![c].pc = pc, ![c].at = at, ![c].waited = call[c].waited]
        BY <1>0, <1>2 DEF Goes, Call
    <2> QED BY <1>0, <1>1, <1>2, <2>1
<1>3. {"take", "send", "sleep", "acquire"} \subseteq Pc BY DEF Pc
<1>4. CASE StampToken(c)
    <2>1. UNCHANGED limiterVars /\ circuit' = circuit /\ forced' = forced /\ faults' \in 0..MaxFaults
        BY <1>4 DEF StampToken
    <2>2. Goes(c, "take", clock) \/ Goes(c, "send", 0) BY <1>4 DEF StampToken
    <2>3. clock' = clock BY <2>1 DEF limiterVars
    <2>4. CASE Goes(c, "take", clock) BY <1>0, <1>2, <1>3, <2>1, <2>3, <2>4
    <2>5. CASE Goes(c, "send", 0) BY <1>0, <1>2, <1>3, <2>1, <2>3, <2>5
    <2> QED BY <2>1, <2>2, <2>4, <2>5
<1>5. CASE Wake(c)
    <2>1. UNCHANGED limiterVars /\ circuit' = circuit /\ forced' = forced /\ faults' \in 0..MaxFaults
        BY <1>5 DEF Wake
    <2>2. Goes(c, "acquire", 0) BY <1>5 DEF Wake
    <2>3. clock' = clock BY <2>1 DEF limiterVars
    <2> QED BY <1>0, <1>2, <1>3, <2>1, <2>2, <2>3
<1>6. CASE TakeToken(c)
    <2>1. /\ circuit' = circuit /\ forced' = forced
          /\ faults' \in 0..MaxFaults
          /\ call[c].pc = "take"
          /\ Acquire(call[c].at) \/ UNCHANGED limiterVars
        BY <1>6, CallersAssumption DEF TakeToken, Fault
    <2>2. call[c].at \in (clock - MaxLag)..clock /\ call[c].at >= 0 /\ call[c].at \in Nat
        BY <1>0, <2>1 DEF Fresh
    <2>3. [LimiterNext]_limiterVars BY <2>1, <2>2 DEF LimiterNext
    <2>4. clock' = clock BY <2>1 DEF Acquire, limiterVars
    <2>5. CASE Goes(c, "send", 0)
        <3>1. "send" \in Pc /\ "send" # "take" /\ "send" \notin {"check", "record", "trip"}
            BY <1>3
        <3> QED BY <1>2, <2>1, <2>3, <2>4, <2>5, <3>1
    <2> DEFINE wait == RetryAfter(Refilled(call[c].at))
    <2>6. CASE /\ Acquire(call[c].at) /\ ~(call[c].waited + wait > MaxWait)
               /\ call' = [call EXCEPT ![c].pc = "sleep", ![c].at = clock + wait,
                                       ![c].waited = @ + wait]
        <3>1. Refilled(call[c].at) \in Int BY <2>2, <2>6, AfterScript DEF LimiterInv
        <3>2. wait \in Int BY <1>0, <3>1 DEF RetryAfter
        <3> HIDE DEF wait
        <3>3. call' = [call EXCEPT ![c].pc = "sleep", ![c].at = clock + wait,
                                   ![c].waited = call[c].waited + wait]
            BY <1>0, <2>6 DEF Call
        <3>4. clock + wait \in Int /\ call[c].waited + wait \in Int /\ call[c].waited + wait <= MaxWait
            BY <1>0, <2>6, <3>2, CallersAssumption
        <3> QED BY <1>1, <1>3, <2>1, <2>3, <2>4, <3>3, <3>4
    <2>7. Goes(c, "send", 0) \/
          (/\ Acquire(call[c].at) /\ ~(call[c].waited + wait > MaxWait)
           /\ call' = [call EXCEPT ![c].pc = "sleep", ![c].at = clock + wait,
                                   ![c].waited = @ + wait])
        BY <1>6 DEF TakeToken
    <2> QED BY <2>3, <2>5, <2>6, <2>7
<1> QED BY <1>4, <1>5, <1>6

LEMMA OtherSteps ==
    ASSUME GuardInv, ForceClose \/ DropBucket \/ Watching \/ Elapse
    PROVE  CallersInv' /\ [LimiterNext]_limiterVars
<1> USE DEF GuardInv, CallersInv, Typed, Patient, Recent
<1>0. /\ clock \in Nat /\ MaxLag \in Nat /\ call \in [Callers -> Call]
    BY RateAssumption DEF LimiterInv, Types
<1>1. CASE ForceClose
    <2>1. Closed \in Hash BY IdleFits DEF Closed, To, Hash, CircuitState
    <2>2. forced' \in 0..MaxForced BY <1>1, CallersAssumption DEF ForceClose
    <2> QED BY <1>1, <2>1, <2>2 DEF ForceClose, limiterVars, Fresh
<1>2. CASE DropBucket BY <1>2 DEF DropBucket, Expire, LimiterNext, Fresh
<1>3. CASE Watching BY <1>3 DEF Watching, StartWatch, LimiterNext, Fresh
<1>4. CASE Elapse
    <2>1. Recent'
        <3> SUFFICES ASSUME NEW d \in Callers PROVE Fresh(call[d])' OBVIOUS
        <3>1. call[d].at \in Int BY <1>0 DEF Call
        <3>2. clock' = clock + 1 /\ call' = call BY <1>4 DEF Elapse, Tick
        <3>3. /\ Fresh(call[d])
              /\ call[d].pc \in {"check", "take", "record", "trip"} => clock - call[d].at < MaxLag
            BY <1>4 DEF Elapse
        <3> QED BY <1>0, <3>1, <3>2, <3>3 DEF Fresh
    <2> QED BY <1>4, <2>1 DEF Elapse, Tick, LimiterNext
<1> QED BY <1>1, <1>2, <1>3, <1>4

LEMMA GuardStarts == GuardInit => GuardInv
<1> SUFFICES ASSUME GuardInit PROVE GuardInv OBVIOUS
<1>1. LimiterInv BY LimiterStarts DEF GuardInit
<1>2. \A c \in Callers : call[c] = Idle BY DEF GuardInit
<1>3. Idle.waited = 0 /\ Fresh(Idle) BY DEF Idle, Fresh
<1> QED BY <1>1, <1>2, <1>3, IdleFits, CallersAssumption
        DEF GuardInit, GuardInv, CallersInv, Typed, Patient, Recent

LEMMA GuardStep == GuardInv /\ [GuardNext]_guardVars => GuardInv' /\ [LimiterNext]_limiterVars
<1> SUFFICES ASSUME GuardInv, [GuardNext]_guardVars
             PROVE  GuardInv' /\ [LimiterNext]_limiterVars
    OBVIOUS
<1>1. CallersInv' /\ [LimiterNext]_limiterVars
    <2>1. CASE UNCHANGED guardVars
        BY <2>1 DEF guardVars, limiterVars, GuardInv, CallersInv, Typed, Patient, Recent, Fresh
    <2>2. CASE GuardNext BY <2>2, BreakerSteps, LimiterSteps, OtherSteps DEF GuardNext
    <2> QED BY <2>1, <2>2
<1> QED BY <1>1, LimiterStep DEF GuardInv

\* Whatever the callers do between their calls of Redis, and whichever of the
\* calls fail, the bucket is used as the limiter assumes (rate_limiter.py:172-200).
THEOREM UsesLimiterCorrect == GuardSpec => UsesLimiter
<1>1. GuardInit => LimiterInit BY DEF GuardInit
<1> QED BY <1>1, GuardStarts, GuardStep, PTL DEF GuardSpec, UsesLimiter, LimiterSpec

\* The limiter's bound holds for any number of callers of a domain.
THEOREM WindowBoundedCorrect == GuardSpec => []WindowBounded
BY UsesLimiterCorrect, LimiterCorrect, PTL DEF UsesLimiter

\* Every variable of the guard keeps its type, and no caller sleeps longer
\* than it may (rate_limiter.py:152-170).
THEOREM GuardTypeCorrect == GuardSpec => []GuardTypeOK
<1>1. GuardInv => GuardTypeOK
    BY DEF GuardInv, LimiterInv, CallersInv, Typed, Patient, Types, GuardTypeOK, LimiterTypeOK
<1> QED BY <1>1, GuardStarts, GuardStep, PTL DEF GuardSpec

-----------------------------------------------------------------------------
(* The breaker.  With every caller wired, one that goes on while the        *)
(* circuit is open asked before it opened, or was failed by Redis.          *)

Informs(x) == /\ x.pc \in InFlight => x.unaware
              /\ x.pc = "check" /\ ~x.unaware => x.seen.state = "OPEN"

LEMMA PutInforms ==
    ASSUME CallersInv, Informed, NEW c \in Callers, c \in Wired, NEW hash \in Hash,
           NEW next \in Call, circuit.state = "OPEN" /\ hash.state = "OPEN" => Informs(next),
           Put(c, hash, next)
    PROVE  Informed'
<1> USE DEF CallersInv, Typed
<1> SUFFICES ASSUME circuit'.state = "OPEN", NEW d \in Callers PROVE Informs(call'[d])
    BY DEF Informed, Informs
<1>1. Informs(Idle) BY DEF Idle, Informs, InFlight
<1>2. ASSUME NEW x \in Call PROVE Informs([x EXCEPT !.unaware = TRUE])
    BY DEF Informs, Call
<1>3. CASE circuit' = hash /\ call' = WithOpening([call EXCEPT ![c] = next])
    <2> DEFINE calls == [call EXCEPT ![c] = next]
    <2>1. calls \in [Callers -> Call] /\ (d # c => calls[d] = call[d]) /\ calls[c] = next OBVIOUS
    <2>2. CASE circuit.state = "OPEN"
        <3>1. call' = calls BY <1>3, <2>2 DEF WithOpening
        <3>2. Informs(next) BY <1>3, <2>2
        <3>3. Informs(call[d]) BY <2>2 DEF Informed, Informs
        <3> QED BY <2>1, <3>1, <3>2, <3>3
    <2>3. CASE circuit.state # "OPEN"
        <3> HIDE DEF calls
        <3>1. call'[d] = Idle \/ call'[d] = [calls[d] EXCEPT !.unaware = TRUE]
            BY <1>3, <2>3 DEF WithOpening, calls
        <3> QED BY <1>1, <1>2, <2>1, <3>1
    <2> QED BY <2>2, <2>3
<1>4. CASE /\ circuit' = circuit
           /\ call' = [call EXCEPT ![c] = IF next = Idle THEN Idle ELSE [next EXCEPT !.unaware = TRUE]]
    <2>1. Informs(call[d]) BY <1>4 DEF Informed, Informs
    <2>2. d # c => call'[d] = call[d] BY <1>4
    <2>3. call'[c] = Idle \/ call'[c] = [next EXCEPT !.unaware = TRUE] BY <1>4
    <2> QED BY <1>1, <1>2, <2>1, <2>2, <2>3
<1> QED BY <1>3, <1>4 DEF Put

LEMMA InformedStep ==
    ASSUME Wired = Callers, GuardInv, Informed, [GuardNext]_guardVars
    PROVE  Informed'
<1> USE DEF GuardInv
<1>a. ASSUME NEW c \in Callers
      PROVE  /\ clock \in Nat /\ circuit \in Hash /\ call[c] \in Call /\ call[c].seen \in Hash
             /\ call[c].pc \in {"check", "record", "trip"} => call[c].at \in Nat
    BY <1>a DEF LimiterInv, Types, CallersInv, Typed, Recent, Fresh, Call
<1>b. ASSUME NEW c \in Callers, NEW x, call' = [call EXCEPT ![c] = x], circuit' = circuit,
             circuit.state = "OPEN" => Informs(x)
      PROVE  Informed'
    BY <1>b DEF Informed, Informs, CallersInv, Typed
<1>1. ASSUME NEW c \in Callers, AskBreaker(c) PROVE Informed'
    <2> DEFINE n == [Idle EXCEPT !.pc = "check", !.at = clock]
    <2>1. Get(c, n) /\ circuit' = circuit BY <1>1 DEF AskBreaker
    <2>2. n \in Call /\ n.pc = "check" /\ ~n.unaware
        <3>1. "check" \in Pc /\ Idle.waited <= MaxWait
            BY CallersAssumption DEF Pc, Idle
        <3>2. n \in Call BY <1>a, <3>1, IdleFits, RateAssumption, JustNow DEF Fits
        <3>3. n.pc = "check" /\ ~n.unaware BY DEF Idle
        <3> QED BY <3>2, <3>3
    <2> HIDE DEF n
    <2> DEFINE x == [n EXCEPT !.seen = circuit]
               y == [n EXCEPT !.seen = NoHash, !.unaware = TRUE]
    <2>3. call' = [call EXCEPT ![c] = x] \/ call' = [call EXCEPT ![c] = y]
        BY <2>1 DEF Get
    <2>4. x.pc = "check" /\ x.seen = circuit BY <2>2 DEF Call
    <2>5. y.pc = "check" /\ y.unaware = TRUE BY <2>2 DEF Call
    <2>6. (circuit.state = "OPEN" => Informs(x)) /\ Informs(y)
        BY <2>4, <2>5 DEF Informs, InFlight
    <2> HIDE DEF x, y
    <2> QED BY <1>b, <2>1, <2>3, <2>6
<1>2. ASSUME NEW c \in Callers, CheckBreaker(c) PROVE Informed'
    <2> DEFINE next == IF Blocks(call[c].seen, call[c].at) THEN Idle
                       ELSE [Idle EXCEPT !.pc = "acquire", !.unaware = call[c].unaware]
    <2>1. /\ call[c].pc = "check"
          /\ Put(c, AfterCheck(call[c].seen, call[c].at), next)
        BY <1>2 DEF CheckBreaker
    <2>2. AfterCheck(call[c].seen, call[c].at) \in Hash BY <1>a, <2>1, Decisions
    <2>3. next \in Call BY <1>a, IdleFits DEF Call, Pc, Idle
    <2>4. circuit.state = "OPEN" /\ AfterCheck(call[c].seen, call[c].at).state = "OPEN" => Informs(next)
        <3> SUFFICES ASSUME circuit.state = "OPEN", ~Blocks(call[c].seen, call[c].at),
                            AfterCheck(call[c].seen, call[c].at).state = "OPEN"
                     PROVE  call[c].unaware
            BY DEF Informs, Idle, InFlight
        <3>1. CASE call[c].seen.state = "OPEN"
            <4>1. ProbeDue(call[c].seen, call[c].at) BY <3>1 DEF Blocks
            <4>2. AfterCheck(call[c].seen, call[c].at).state = "HALF_OPEN"
                <5>1. AfterCheck(call[c].seen, call[c].at) = HalfOpened(call[c].at)
                    BY <4>1 DEF AfterCheck, ProbeDue, ProbeOver
                <5>2. HalfOpened(call[c].at).state = "HALF_OPEN"
                    BY IdleFits DEF HalfOpened, To, Hash
                <5> QED BY <5>1, <5>2
            <4> QED BY <4>2
        <3>2. CASE call[c].seen.state # "OPEN" BY <2>1, <3>2 DEF Informed
        <3> QED BY <3>1, <3>2
    <2> HIDE DEF next
    <2> QED BY <2>1, <2>2, <2>3, <2>4, PutInforms
<1>3. ASSUME NEW c \in Callers, Answer(c) PROVE Informed'
    <2>1. PICK ok \in BOOLEAN :
              Get(c, [call[c] EXCEPT !.pc = "record", !.at = clock, !.ok = ok, !.waited = 0])
        BY <1>3 DEF Answer
    <2> DEFINE n == [call[c] EXCEPT !.pc = "record", !.at = clock, !.ok = ok, !.waited = 0]
               x == [n EXCEPT !.seen = circuit]
               y == [n EXCEPT !.seen = NoHash, !.unaware = TRUE]
    <2>2. x.pc = "record" /\ y.pc = "record" BY <1>a DEF Call
    <2>3. call' = [call EXCEPT ![c] = x] \/ call' = [call EXCEPT ![c] = y]
        BY <2>1 DEF Get
    <2>4. Informs(x) /\ Informs(y) BY <2>2 DEF Informs, InFlight
    <2> HIDE DEF x, y
    <2> QED BY <1>b, <1>3, <2>3, <2>4 DEF Answer
<1>4. ASSUME NEW c \in Callers, RecordSuccess(c) PROVE Informed'
    <2>1. AfterSuccess(call[c].seen) \in Hash BY <1>a, Decisions, 0 \in Nat
    <2>2. Informs(Idle) BY DEF Informs, Idle, InFlight
    <2> QED BY <1>4, <2>1, <2>2, IdleFits, PutInforms DEF RecordSuccess
<1>5. ASSUME NEW c \in Callers, RecordFailure(c) PROVE Informed'
    <2> DEFINE next == IF Trips(call[c].seen) THEN [call[c] EXCEPT !.pc = "trip"] ELSE Idle
    <2>1. call[c].pc = "record" /\ Put(c, AfterFailure(call[c].seen, call[c].at), next)
        BY <1>5 DEF RecordFailure
    <2>2. AfterFailure(call[c].seen, call[c].at) \in Hash BY <1>a, <2>1, Decisions
    <2>3. [call[c] EXCEPT !.pc = "trip"] \in Call /\ [call[c] EXCEPT !.pc = "trip"].pc = "trip"
        BY <1>a DEF Call, Pc
    <2>4. next \in Call /\ Informs(next) BY <2>3, IdleFits DEF Informs, InFlight, Idle
    <2> HIDE DEF next
    <2> QED BY <2>1, <2>2, <2>4, PutInforms
<1>6. ASSUME NEW c \in Callers, Trip(c) PROVE Informed'
    <2>1. Opened(call[c].at) \in Hash BY <1>a, <1>6, Decisions DEF Trip
    <2>2. Informs(Idle) BY DEF Informs, Idle, InFlight
    <2> QED BY <1>6, <2>1, <2>2, IdleFits, PutInforms DEF Trip
<1>7. ASSUME NEW c \in Callers, StampToken(c) \/ TakeToken(c) \/ Wake(c) PROVE Informed'
    <2>1. call[c].pc \in InFlight /\ circuit' = circuit
        BY <1>7 DEF StampToken, TakeToken, Wake, InFlight
    <2>2. PICK x : call' = [call EXCEPT ![c] = x] /\ x.pc \in InFlight /\ x.unaware = call[c].unaware
        BY <1>7, <1>a DEF StampToken, TakeToken, Wake, Goes, InFlight, Call
    <2>3. circuit.state = "OPEN" => Informs(x)
        BY <2>1, <2>2 DEF Informed, Informs, InFlight
    <2> QED BY <1>b, <2>1, <2>2, <2>3
<1>8. CASE ForceClose BY <1>8 DEF ForceClose, Closed, To, NoHash, Informed
<1>9. CASE DropBucket \/ Watching \/ Elapse \/ UNCHANGED guardVars
    BY <1>9 DEF DropBucket, Watching, Elapse, guardVars, Informed
<1> QED BY <1>1, <1>2, <1>3, <1>4, <1>5, <1>6, <1>7, <1>8, <1>9 DEF GuardNext

\* Where every process hands Redis to its breaker, requests go on while the
\* circuit is open only if they asked before or Redis failed them, however the
\* callers' reads and writes interleave (httpx_base.py:57-63).
THEOREM RefusedWhileOpenCorrect ==
    ASSUME Wired = Callers PROVE GuardSpec => []RefusedWhileOpen
<1>1. GuardInit => Informed BY DEF GuardInit, NoHash, Informed
<1>2. GuardInv /\ Informed /\ [GuardNext]_guardVars => Informed' BY InformedStep
<1>3. Informed => RefusedWhileOpen BY DEF Informed, RefusedWhileOpen
<1> QED BY <1>1, <1>2, <1>3, GuardStarts, GuardStep, PTL DEF GuardSpec
=============================================================================
