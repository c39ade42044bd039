---------------------------- MODULE ValkeyBucket ----------------------------
(***************************************************************************)
(* ValkeyTokenBucketLimiter.Allow of internal/plugins/coraza/tbl.go, for   *)
(* the bucket of one cookie.  Allow reads the clock in the Go process and  *)
(* then has valkey run the Lua script with that reading, so between the    *)
(* two steps other callers may run theirs.  The key is the cookie alone:   *)
(* the limiters of all the hosts of the configuration work on the same     *)
(* tokens and timestamp, each with its own capacity and refill rate.       *)
(* A rate is RateNum[h] tokens per RateDen ticks.                          *)
(*                                                                         *)
(* The time is that of the process whose wall clock is most ahead; what    *)
(* another process reads, or the same one after its clock was set back, is *)
(* late by at most MaxSkew.  Valkey counts the expiry by its own clock.    *)
(***************************************************************************)
EXTENDS Naturals

CONSTANTS Callers,      \* validators running Allow for the cookie
          Hosts,        \* upstreams of the configuration
          Capacity, RateNum, RateDen,
          Ttl,          \* PEXPIRE of the script
          MaxLatency,   \* bound: ticks between the clock reading and the script
          MaxSkew,      \* bound: ticks by which a clock is behind another
          MaxLate,      \* bound: grants explored while clocks are out of step
          MaxClock      \* bound: ticks explored

ASSUME BucketAssumption == /\ Capacity \in [Hosts -> Nat]
                           /\ RateNum \in [Hosts -> Nat]
                           /\ RateDen \in Nat \ {0}
                           /\ {Ttl, MaxLatency, MaxSkew, MaxLate, MaxClock} \subseteq Nat
                           /\ Hosts # {}

VARIABLES clock,        \* ticks since the start
          set,          \* the hash has had its tokens field written
          tokens, timestamp,    \* its fields, of interest once set
          expires,      \* when the key goes
          waiting,      \* the callers between clock reading and script
          host, stamp,  \* host[c], stamp[c]: the arguments c runs it with
          granted,      \* granted[h]: requests allowed for h so far
          high          \* the latest stamp the script has seen

bucket == <<set, tokens, timestamp, expires>>
ghosts == <<granted, high>>
vars == <<clock, bucket, waiting, host, stamp, ghosts>>

Smaller(m, n) == IF m <= n THEN m ELSE n
Larger(m, n)  == IF m <= n THEN n ELSE m
-----------------------------------------------------------------------------
Init == /\ clock = 0
        /\ set = FALSE
        /\ tokens = 0
        /\ timestamp = 0
        /\ expires = 0
        /\ waiting = {}
        /\ host \in [Callers -> {CHOOSE h \in Hosts : TRUE}]
        /\ stamp = [c \in Callers |-> 0]
        /\ granted = [h \in Hosts |-> 0]
        /\ high = 0

\* No caller waits for the script longer than MaxLatency, so no stamp that the
\* script is given is older than that and the skew.
Tick == /\ clock < MaxClock
        /\ \A c \in waiting : clock - stamp[c] < MaxLatency + MaxSkew
        /\ clock' = clock + 1
        /\ UNCHANGED <<bucket, waiting, host, stamp, ghosts>>

\* now := time.Now().UnixMilli()
ReadClock(c, h) == /\ c \notin waiting
                   /\ waiting' = waiting \cup {c}
                   /\ host' = [host EXCEPT ![c] = h]
                   /\ \E now \in 0..clock :
                         /\ clock <= now + MaxSkew
                         /\ now < clock => \A g \in Hosts : granted[g] < MaxLate
                         /\ stamp' = [stamp EXCEPT ![c] = now]
                   /\ UNCHANGED <<clock, bucket, ghosts>>

\* A new cookie has no tokens field, and an expired key no field at all.
Missing == ~set \/ clock >= expires

\* Mutant: the fraction of a tick is rounded before the rate is applied.
RefillRoundedFirst(h, delta) == (delta \div RateDen) * RateNum[h]
\* Mutant: rounded up.
RefillRoundedUp(h, delta) == (delta * RateNum[h] + RateDen - 1) \div RateDen

\* math.floor(delta * refill_rate / 1000)
Refill(h, delta) == (delta * RateNum[h]) \div RateDen

\* Mutant: math.min(capacity, ...) is dropped.
AvailableUncapped(c) ==
    LET h == host[c] IN
    IF Missing THEN Capacity[h]
    ELSE IF stamp[c] > timestamp
         THEN tokens + Refill(h, stamp[c] - timestamp)
         ELSE tokens

\* The tokens there are when the script has brought the bucket up to date.
\* A stamp that is not later than the last one adds nothing, and is not capped.
Available(c) ==
    LET h == host[c] IN
    IF Missing THEN Capacity[h]
    ELSE IF stamp[c] > timestamp
         THEN Smaller(Capacity[h], tokens + Refill(h, stamp[c] - timestamp))
         ELSE tokens

Enough(c) == Available(c) >= 1

\* Mutant: as in local_tbl.go, the timestamp is written when the bucket is
\* created and never again.
ScriptKeepsTimestamp(c) ==
    /\ set' = TRUE
    /\ tokens' = IF Enough(c) THEN Available(c) - 1 ELSE Available(c)
    /\ timestamp' = IF Missing THEN stamp[c] ELSE timestamp
    /\ expires' = clock + Ttl
    /\ high' = Larger(high, stamp[c])

\* Mutant: the token is not taken.
ScriptWithoutTaking(c) ==
    /\ set' = TRUE
    /\ tokens' = Available(c)
    /\ timestamp' = stamp[c]
    /\ expires' = clock + Ttl
    /\ high' = Larger(high, stamp[c])

\* Mutant: the comparison with one token is left out.
ScriptTakesAlways(c) ==
    /\ set' = TRUE
    /\ tokens' = Available(c) - 1
    /\ timestamp' = stamp[c]
    /\ expires' = clock + Ttl
    /\ high' = Larger(high, stamp[c])

\* What the script does to the key; HMSET stores whatever stamp it was given.
Script(c) == /\ set' = TRUE
             /\ tokens' = IF Enough(c) THEN Available(c) - 1 ELSE Available(c)
             /\ timestamp' = stamp[c]
             /\ expires' = clock + Ttl
             /\ high' = Larger(high, stamp[c])

\* The script runs and its answer reaches the caller.
Exec(c) == /\ c \in waiting
           /\ Script(c)
           /\ waiting' = waiting \ {c}
           /\ granted' = [granted EXCEPT ![host[c]] =
                             IF Enough(c) THEN @ + 1 ELSE @]
           /\ UNCHANGED <<clock, host, stamp>>

\* The script runs, the answer is lost: Allow returns an error and the request
\* is refused, its token spent.
ExecUnanswered(c) == /\ c \in waiting
                     /\ Script(c)
                     /\ waiting' = waiting \ {c}
                     /\ UNCHANGED <<clock, host, stamp, granted>>

\* The request's context is cancelled, or valkey is away, before the script runs.
Abandon(c) == /\ c \in waiting
              /\ waiting' = waiting \ {c}
              /\ UNCHANGED <<clock, bucket, host, stamp, ghosts>>

Next == \/ Tick
        \/ \E c \in Callers : \/ \E h \in Hosts : ReadClock(c, h)
                              \/ Exec(c)
                              \/ ExecUnanswered(c)
                              \/ Abandon(c)

Spec == Init /\ [][Next]_vars
-----------------------------------------------------------------------------
\* Every variable keeps its type; in particular the token count stays a
\* natural number.
TypeOK == /\ {clock, tokens, timestamp, expires, high} \subseteq Nat
          /\ set \in BOOLEAN
          /\ waiting \subseteq Callers
          /\ host \in [Callers -> Hosts]
          /\ stamp \in [Callers -> Nat]
          /\ granted \in [Hosts -> Nat]

\* However the hosts share the bucket, it never holds more than the capacity
\* of one of them.
TokensBounded == \E h \in Hosts : tokens <= Capacity[h]

\* Concurrent callers can set the timestamp back, and with it the refill that
\* the next caller is paid for a second time, but never by more than the
\* latency of a script call and the difference of two clocks.
DriftBounded == high <= timestamp + MaxLatency + MaxSkew

\* A client that stays away for the time of one whole token, as the stamps have
\* it, is served when it comes back, whatever happened before.
BackoffGrants ==
    [][\A c \in Callers :
          (/\ Exec(c)
           /\ Capacity[host[c]] >= 1
           /\ stamp[c] > timestamp
           /\ (stamp[c] - timestamp) * RateNum[host[c]] >= RateDen)
          => granted'[host[c]] = granted[host[c]] + 1]_vars

\* The size of the bucket and the refill rate bound what each host grants
\* ("The size of the bucket", "Refill rate per second": coraza.go:36,39).
GrantBound ==
    \A h \in Hosts :
        granted[h] * RateDen <= Capacity[h] * RateDen + RateNum[h] * clock
=============================================================================
