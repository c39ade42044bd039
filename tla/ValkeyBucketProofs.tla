------------------------- MODULE ValkeyBucketProofs -------------------------
(***************************************************************************)
(* Proofs about ValkeyBucket.  The first part is about any number of       *)
(* callers and hosts.  The second assumes Serial, one host and one call at *)
(* a time: then the limiter implements TokenBucket, and what TokenBucket   *)
(* promises holds of it.                                                   *)
(***************************************************************************)
EXTENDS ValkeyBucketSerial, TLAPS

\* A stamp is in the past, and that of a waiting caller not far in it.
StampsAreRecent ==
    /\ high <= clock /\ clock <= MaxClock
    /\ \A c \in Callers : stamp[c] <= clock
    /\ \A c \in waiting : clock <= stamp[c] + MaxLatency + MaxSkew

IInv == TypeOK /\ TokensBounded /\ StampsAreRecent /\ DriftBounded

-----------------------------------------------------------------------------
\* \div rounds down: what the refill leaves out is never paid.
LEMMA DivRoundsDown ==
  ASSUME NEW a \in Nat, NEW b \in Nat \ {0}
  PROVE  /\ a \div b \in Nat
         /\ (a \div b) * b <= a
         /\ a >= b => a \div b >= 1
  BY SMTT(60)

\* A refill is a natural number of tokens.
LEMMA RefillIsNat ==
  ASSUME NEW h \in Hosts, NEW delta \in Nat
  PROVE  Refill(h, delta) \in Nat
<1>1. delta * RateNum[h] \in Nat
  BY BucketAssumption
<1> QED
  BY <1>1, DivRoundsDown, BucketAssumption DEF Refill

\* The script finds a natural number of tokens, within some host's capacity.
LEMMA AvailableIsBounded ==
  ASSUME TypeOK, TokensBounded, NEW c \in Callers
  PROVE  /\ Available(c) \in Nat
         /\ \E h \in Hosts : Available(c) <= Capacity[h]
<1> DEFINE h == host[c]
<1>1. h \in Hosts /\ Capacity[h] \in Nat
  BY BucketAssumption DEF TypeOK
<1>2. CASE Missing
  BY <1>1, <1>2 DEF Available
<1>3. CASE ~Missing /\ stamp[c] > timestamp
  <2>1. stamp[c] - timestamp \in Nat
    BY <1>3 DEF TypeOK
  <2>2. Refill(h, stamp[c] - timestamp) \in Nat
    BY <1>1, <2>1, RefillIsNat
  <2>3. Available(c) = Smaller(Capacity[h], tokens + Refill(h, stamp[c] - timestamp))
    BY <1>3 DEF Available
  <2>4. /\ Available(c) \in Nat
        /\ Available(c) <= Capacity[h]
    BY <1>1, <2>2, <2>3 DEF Smaller, TypeOK
  <2> QED
    BY <1>1, <2>4
<1>4. CASE ~Missing /\ ~(stamp[c] > timestamp)
  BY <1>4 DEF Available, TokensBounded, TypeOK
<1> QED
  BY <1>2, <1>3, <1>4

\* What the script leaves behind.
LEMMA ScriptIInv ==
  ASSUME IInv, NEW c \in waiting, Script(c), UNCHANGED <<clock, host, stamp>>,
         waiting' = waiting \ {c}, granted' \in [Hosts -> Nat]
  PROVE  IInv'
<1> USE DEF IInv, Script
<1>1. c \in Callers
  BY DEF TypeOK
<1>2. PICK h \in Hosts : Available(c) \in Nat /\ Available(c) <= Capacity[h]
  BY <1>1, AvailableIsBounded
<1>3. tokens' \in Nat /\ tokens' <= Capacity[h]
  BY <1>2, BucketAssumption DEF Enough
<1>4. TypeOK'
  BY <1>1, <1>3, BucketAssumption DEF TypeOK, Larger
<1>5. TokensBounded'
  BY <1>3 DEF TokensBounded
<1>6. StampsAreRecent'
  BY <1>1 DEF StampsAreRecent, Larger, TypeOK
<1>7. DriftBounded'
  BY <1>1, BucketAssumption DEF DriftBounded, StampsAreRecent, Larger, TypeOK
<1> QED
  BY <1>4, <1>5, <1>6, <1>7

\* Every step of the program keeps the invariant.
LEMMA NextIInv == IInv /\ [Next]_vars => IInv'
<1> SUFFICES ASSUME IInv, [Next]_vars PROVE IInv'
  OBVIOUS
<1>1. CASE Tick
  <2> USE <1>1 DEF IInv, Tick, bucket, ghosts
  <2>1. TypeOK' /\ TokensBounded' /\ DriftBounded'
    BY DEF TypeOK, TokensBounded, DriftBounded
  <2>2. StampsAreRecent'
    BY BucketAssumption DEF StampsAreRecent, TypeOK
  <2> QED
    BY <2>1, <2>2
<1>2. ASSUME NEW c \in Callers, NEW h \in Hosts, ReadClock(c, h) PROVE IInv'
  <2> USE <1>2 DEF IInv, ReadClock, bucket, ghosts
  <2>1. TypeOK' /\ TokensBounded' /\ DriftBounded'
    BY DEF TypeOK, TokensBounded, DriftBounded
  <2>2. StampsAreRecent'
    BY BucketAssumption DEF StampsAreRecent, TypeOK
  <2> QED
    BY <2>1, <2>2
<1>3. ASSUME NEW c \in Callers, Exec(c) PROVE IInv'
  <2>1. granted' \in [Hosts -> Nat]
    BY <1>3 DEF Exec, IInv, TypeOK
  <2> QED
    BY <1>3, <2>1, ScriptIInv DEF Exec
<1>4. ASSUME NEW c \in Callers, ExecUnanswered(c) PROVE IInv'
  <2>1. granted' \in [Hosts -> Nat]
    BY <1>4 DEF ExecUnanswered, IInv, TypeOK
  <2> QED
    BY <1>4, <2>1, ScriptIInv DEF ExecUnanswered
<1>5. ASSUME NEW c \in Callers, Abandon(c) PROVE IInv'
  BY <1>5 DEF Abandon, bucket, ghosts, IInv, TypeOK, TokensBounded,
              DriftBounded, StampsAreRecent
<1>6. CASE UNCHANGED vars
  BY <1>6 DEF vars, bucket, ghosts, IInv, TypeOK, TokensBounded,
              DriftBounded, StampsAreRecent
<1> QED
  BY <1>1, <1>2, <1>3, <1>4, <1>5, <1>6 DEF Next

\* The program starts in the invariant.
LEMMA InitIInv == Init => IInv
<1> SUFFICES ASSUME Init PROVE IInv
  OBVIOUS
<1>1. (CHOOSE h \in Hosts : TRUE) \in Hosts
  BY BucketAssumption
<1> DEFINE h0 == CHOOSE h \in Hosts : TRUE
<1>2. TypeOK
  <2>1. host \in [Callers -> {h0}] /\ h0 \in Hosts
    BY <1>1 DEF Init
  <2> HIDE DEF h0
  <2>2. host \in [Callers -> Hosts]
    BY <2>1
  <2>3. /\ clock = 0 /\ tokens = 0 /\ timestamp = 0 /\ expires = 0
        /\ high = 0 /\ waiting = {}
    BY DEF Init
  <2>4. stamp \in [Callers -> Nat] /\ granted \in [Hosts -> Nat]
    BY DEF Init
  <2>5. set \in BOOLEAN
    BY Zenon DEF Init
  <2>6. {clock, tokens, timestamp, expires, high} \subseteq Nat
    BY <2>3
  <2>7. waiting \subseteq Callers
    BY <2>3
  <2> QED
    BY <2>2, <2>4, <2>5, <2>6, <2>7, Zenon DEF TypeOK
<1>3. TokensBounded
  BY <1>1, BucketAssumption DEF Init, TokensBounded
<1>4. StampsAreRecent /\ DriftBounded
  BY BucketAssumption DEF Init, StampsAreRecent, DriftBounded
<1> QED
  BY <1>2, <1>3, <1>4 DEF IInv

\* The invariant holds in every state of every behaviour.
THEOREM Invariance == Spec => []IInv
  BY InitIInv, NextIInv, PTL DEF Spec

\* Every variable keeps its type; the token count stays a natural number.
THEOREM TypeCorrect == Spec => []TypeOK
<1>1. IInv => TypeOK
  BY DEF IInv
<1> QED
  BY <1>1, Invariance, PTL

\* The shared bucket never holds more than the largest capacity.
THEOREM Bounded == Spec => []TokensBounded
<1>1. IInv => TokensBounded
  BY DEF IInv
<1> QED
  BY <1>1, Invariance, PTL

\* The timestamp is never set back by more than the latency of a call.
THEOREM Drift == Spec => []DriftBounded
<1>1. IInv => DriftBounded
  BY DEF IInv
<1> QED
  BY <1>1, Invariance, PTL

\* A client that waits for the time of one token is served.
THEOREM Backoff == Spec => BackoffGrants
<1>1. IInv /\ [Next]_vars =>
        [\A c \in Callers :
            (/\ Exec(c)
             /\ Capacity[host[c]] >= 1
             /\ stamp[c] > timestamp
             /\ (stamp[c] - timestamp) * RateNum[host[c]] >= RateDen)
            => granted'[host[c]] = granted[host[c]] + 1]_vars
  <2> SUFFICES ASSUME IInv, NEW c \in Callers, Exec(c),
                      Capacity[host[c]] >= 1,
                      stamp[c] > timestamp,
                      (stamp[c] - timestamp) * RateNum[host[c]] >= RateDen
               PROVE  granted'[host[c]] = granted[host[c]] + 1
    OBVIOUS
  <2> DEFINE h == host[c]
             earned == (stamp[c] - timestamp) * RateNum[h]
  <2>1. h \in Hosts /\ Capacity[h] \in Nat /\ tokens \in Nat
    BY BucketAssumption DEF IInv, TypeOK
  <2>2. stamp[c] - timestamp \in Nat
    BY DEF IInv, TypeOK
  <2>3. earned \in Nat
    BY <2>1, <2>2, BucketAssumption
  <2>4. earned \div RateDen \in Nat /\ earned \div RateDen >= 1
    BY <2>3, DivRoundsDown, BucketAssumption
  <2>5. Refill(h, stamp[c] - timestamp) >= 1 /\ Refill(h, stamp[c] - timestamp) \in Nat
    BY <2>4 DEF Refill
  <2>6. Available(c) >= 1
    BY <2>1, <2>5 DEF Available, Smaller
  <2> QED
    BY <2>1, <2>6 DEF Exec, Enough, IInv, TypeOK
<1> QED
  BY <1>1, Invariance, PTL DEF Spec, BackoffGrants

-----------------------------------------------------------------------------
(* The promise of TokenBucket, of the bucket that the key stands for.  Tokens *)
(* are conserved: what has been granted plus what is left never exceeds the   *)
(* initial content plus what the rate earned.                                 *)

Conserved ==
    /\ timestamp \in Nat
    /\ Level \in Nat
    /\ granted[TheHost] \in Nat
    /\ Level + granted[TheHost] * RateDen
          <= Capacity[TheHost] * RateDen + RateNum[TheHost] * timestamp

\* Natural numbers are closed under multiplication.
LEMMA ProductIsNat == \A m, n \in Nat : m * n \in Nat
  OBVIOUS

\* A request earns at most the rate since the last one.
LEMMA AccruedBound ==
  ASSUME Promised!WellFormed, Conserved, NEW t \in Nat, t >= timestamp
  PROVE  /\ Promised!Accrued(t) \in Nat
         /\ Promised!Accrued(t) + granted[TheHost] * RateDen
              <= Capacity[TheHost] * RateDen + RateNum[TheHost] * t
<1> DEFINE cap == Capacity[TheHost]
           num == RateNum[TheHost]
           got == granted[TheHost]
<1>1. /\ cap \in Nat /\ num \in Nat /\ RateDen \in Nat \ {0}
      /\ got \in Nat /\ timestamp \in Nat /\ Level \in Nat
      /\ Level + got * RateDen <= cap * RateDen + num * timestamp
  BY DEF Promised!WellFormed, Conserved
<1>2. Promised!Accrued(t) = IF Level + num * (t - timestamp) <= cap * RateDen
                            THEN Level + num * (t - timestamp)
                            ELSE cap * RateDen
  BY DEF Promised!Accrued
<1> HIDE DEF cap, num, got
<1>3. /\ t - timestamp \in Nat /\ num * (t - timestamp) \in Nat
      /\ cap * RateDen \in Nat
  BY <1>1, ProductIsNat
<1>4. num * (t - timestamp) = num * t - num * timestamp
  BY <1>1
<1>5. num * t \in Nat /\ num * timestamp \in Nat /\ got * RateDen \in Nat
  BY <1>1, ProductIsNat
<1>6. Promised!Accrued(t) <= Level + num * (t - timestamp) /\ Promised!Accrued(t) \in Nat
  BY <1>1, <1>2, <1>3
<1>7. /\ Promised!Accrued(t) \in Nat
      /\ Promised!Accrued(t) + got * RateDen <= cap * RateDen + num * t
  BY <1>1, <1>3, <1>4, <1>5, <1>6
<1> QED
  BY <1>7 DEF cap, num, got

\* Every request conserves the tokens.
LEMMA NextConserves ==
  ASSUME Promised!WellFormed
  PROVE  Conserved /\ [Promised!Next]_Promised!vars => Conserved'
<1> SUFFICES ASSUME Conserved, [Promised!Next]_Promised!vars PROVE Conserved'
  OBVIOUS
<1> DEFINE cap == Capacity[TheHost]
           num == RateNum[TheHost]
           got == granted[TheHost]
<1>1. CASE UNCHANGED Promised!vars
  <2>1. timestamp' = timestamp /\ Level' = Level /\ granted[TheHost]' = granted[TheHost]
    BY <1>1 DEF Promised!vars
  <2> QED
    BY <2>1 DEF Conserved
<1>2. CASE Promised!Next
  <2>1. /\ timestamp' \in Nat /\ timestamp' >= timestamp /\ Level' \in Nat
        /\ \/ Level' + RateDen <= Promised!Accrued(timestamp') /\ got' = got + 1
           \/ Level' <= Promised!Accrued(timestamp') /\ got' = got
    BY <1>2 DEF Promised!WellFormed, Promised!Next, Promised!Grant, Promised!Deny, Conserved
  <2>2. /\ Promised!Accrued(timestamp') \in Nat
        /\ Promised!Accrued(timestamp') + got * RateDen <= cap * RateDen + num * timestamp'
    BY <2>1, AccruedBound
  <2>3. /\ got \in Nat /\ RateDen \in Nat /\ got * RateDen \in Nat
        /\ num * timestamp' \in Nat /\ cap * RateDen \in Nat
    BY <2>1, ProductIsNat DEF Promised!WellFormed, Conserved
  <2>4. CASE Level' + RateDen <= Promised!Accrued(timestamp') /\ got' = got + 1
    <3>1. got' * RateDen = got * RateDen + RateDen
      BY <2>3, <2>4
    <3>2. Level' + got' * RateDen <= cap * RateDen + num * timestamp'
      BY <2>1, <2>2, <2>3, <2>4, <3>1
    <3> QED
      BY <2>1, <2>3, <2>4, <3>2 DEF Conserved
  <2>5. CASE Level' <= Promised!Accrued(timestamp') /\ got' = got
    <3>1. Level' + got' * RateDen <= cap * RateDen + num * timestamp'
      BY <2>1, <2>2, <2>3, <2>5
    <3> QED
      BY <2>1, <2>3, <2>5, <3>1 DEF Conserved
  <2> QED
    BY <2>1, <2>4, <2>5
<1> QED
  BY <1>1, <1>2

\* Whatever implements TokenBucket never grants more than its size and its
\* rate allow.
THEOREM PromiseKept ==
  ASSUME Promised!WellFormed PROVE Promised!Spec => []Promised!Promise
<1>1. Promised!Init => Conserved
  <2> SUFFICES ASSUME Promised!Init PROVE Conserved
    OBVIOUS
  <2>1. Capacity[TheHost] * RateDen \in Nat /\ RateNum[TheHost] \in Nat
    BY ProductIsNat DEF Promised!WellFormed
  <2>2. timestamp = 0 /\ granted[TheHost] = 0 /\ Level = Capacity[TheHost] * RateDen
    BY DEF Promised!Init
  <2> QED
    BY <2>1, <2>2 DEF Promised!WellFormed, Conserved
<1>2. Conserved => Promised!Promise
  <2> SUFFICES ASSUME Conserved PROVE Promised!Promise
    OBVIOUS
  <2>1. /\ granted[TheHost] * RateDen \in Nat
        /\ Capacity[TheHost] * RateDen + RateNum[TheHost] * timestamp \in Nat
    BY ProductIsNat DEF Promised!WellFormed, Conserved
  <2> QED
    BY <2>1 DEF Conserved, Promised!Promise
<1> QED
  BY <1>1, <1>2, NextConserves, PTL DEF Promised!Spec

-----------------------------------------------------------------------------
(* The serial limiter implements TokenBucket.  The invariant says that the    *)
(* one caller's stamps are in order and that the key outlives its last script *)
(* run by Ttl.                                                                *)

InOrder ==
    /\ timestamp <= clock
    /\ \A c \in waiting : timestamp <= stamp[c]
    /\ set => expires >= timestamp + Ttl
    /\ set => tokens <= Capacity[TheHost]

SInv == IInv /\ InOrder

-----------------------------------------------------------------------------
\* The constants are natural numbers, and the one host is TheHost.
LEMMA Constants ==
  ASSUME Serial
  PROVE  /\ TheHost \in Hosts
         /\ Capacity[TheHost] \in Nat
         /\ RateNum[TheHost] \in Nat
         /\ RateDen \in Nat \ {0}
         /\ Ttl \in Nat /\ MaxLatency \in Nat /\ MaxClock \in Nat
         /\ Ttl >= MaxLatency /\ MaxSkew = 0
         /\ Capacity[TheHost] * RateDen \in Nat
BY BucketAssumption, ProductIsNat DEF Serial

\* Waiting for longer earns at least as much.
LEMMA MoreTimeMoreTokens ==
  ASSUME NEW m \in Nat, NEW n \in Nat, m <= n, NEW r \in Nat
  PROVE  /\ m * r <= n * r
         /\ n * r \in Nat
<1>1. PICK d \in Nat : n = m + d
  BY n - m \in Nat
<1>2. n * r = m * r + d * r /\ d * r \in Nat /\ m * r \in Nat
  BY <1>1
<1> QED
  BY <1>2

\* What the script finds is not more than the abstract bucket has accrued.
LEMMA AvailableIsAccrued ==
  ASSUME Serial, SInv, NEW c \in waiting
  PROVE  /\ Available(c) \in Nat
         /\ Available(c) <= Capacity[TheHost]
         /\ Available(c) * RateDen <= Promised!Accrued(stamp[c])
         /\ Promised!Accrued(stamp[c]) \in Nat
<1> DEFINE cap == Capacity[TheHost]
           num == RateNum[TheHost]
           delta == stamp[c] - timestamp
<1>1. c \in Callers /\ host[c] = TheHost
  BY DEF Serial, SInv, IInv, TypeOK
<1>2. /\ cap \in Nat /\ num \in Nat /\ RateDen \in Nat \ {0} /\ cap * RateDen \in Nat
      /\ tokens \in Nat /\ tokens * RateDen \in Nat
  BY Constants DEF SInv, IInv, TypeOK
<1>3. stamp[c] \in Nat /\ timestamp \in Nat /\ delta \in Nat
  BY <1>1 DEF SInv, IInv, TypeOK, InOrder
<1>4. num * delta \in Nat /\ num * delta = delta * num
  BY <1>2, <1>3
<1>5. Level \in Nat /\ Level <= cap * RateDen
  <2>1. CASE set
    <3>1. tokens <= cap
      BY <2>1 DEF SInv, InOrder
    <3> QED
      BY <1>2, <2>1, <3>1, MoreTimeMoreTokens DEF Level
  <2>2. CASE ~set
    BY <1>2, <2>2 DEF Level
  <2> QED
    BY <2>1, <2>2
<1>6. Promised!Accrued(stamp[c]) = IF Level + num * delta <= cap * RateDen
                                   THEN Level + num * delta
                                   ELSE cap * RateDen
  BY DEF Promised!Accrued
<1>7. Promised!Accrued(stamp[c]) \in Nat
  BY <1>2, <1>4, <1>5, <1>6
<1>8. CASE Missing
  <2>1. Available(c) = cap
    BY <1>1, <1>8 DEF Available
  <2>2. Level + num * delta >= cap * RateDen
    <3>1. CASE ~set
      BY <1>2, <1>4, <3>1 DEF Level
    <3>2. CASE set
      <4>1. delta >= Ttl - MaxLatency /\ Ttl - MaxLatency \in Nat
        BY <1>1, <1>3, <1>8, <3>2, Constants
        DEF Missing, SInv, InOrder, IInv, StampsAreRecent, TypeOK
      <4>2. (Ttl - MaxLatency) * num <= delta * num
        BY <1>2, <1>3, <4>1, MoreTimeMoreTokens
      <4>3. (Ttl - MaxLatency) * num >= cap * RateDen
        BY DEF Serial
      <4>4. (Ttl - MaxLatency) * num \in Nat
        BY <1>2, <4>1
      <4> HIDE DEF delta
      <4> QED
        BY <1>2, <1>4, <1>5, <4>2, <4>3, <4>4
    <3> QED
      BY <3>1, <3>2
  <2>3. Promised!Accrued(stamp[c]) = cap * RateDen
    BY <1>2, <1>4, <1>5, <1>6, <2>2
  <2> QED
    BY <1>2, <1>7, <2>1, <2>3
<1>9. CASE ~Missing
  <2>1. set /\ Level = tokens * RateDen /\ tokens <= cap
    BY <1>9 DEF Missing, Level, SInv, InOrder
  <2>2. CASE stamp[c] > timestamp
    <3> DEFINE refill == Refill(TheHost, delta)
    <3>1. refill \in Nat /\ refill * RateDen <= num * delta
      BY <1>2, <1>4, DivRoundsDown DEF Refill
    <3>2. Available(c) = Smaller(cap, tokens + refill)
      BY <1>1, <1>9, <2>2 DEF Available
    <3> HIDE DEF refill
    <3>3. (tokens + refill) * RateDen = tokens * RateDen + refill * RateDen
      BY <1>2, <3>1
    <3>4. refill * RateDen \in Nat
      BY <1>2, <3>1
    <3>5. Available(c) \in Nat /\ Available(c) <= cap /\ Available(c) <= tokens + refill
      BY <1>2, <3>1, <3>2 DEF Smaller
    <3>6. /\ Available(c) * RateDen <= cap * RateDen
          /\ Available(c) * RateDen <= (tokens + refill) * RateDen
          /\ Available(c) * RateDen \in Nat
      BY <1>2, <3>1, <3>5, MoreTimeMoreTokens
    <3>7. Available(c) * RateDen <= Level + num * delta
      BY <1>2, <1>4, <2>1, <3>1, <3>3, <3>4, <3>6
    <3> QED
      BY <1>6, <1>7, <3>5, <3>6, <3>7
  <2>3. CASE ~(stamp[c] > timestamp)
    <3>1. delta = 0
      BY <1>3, <2>3
    <3>2. Available(c) = tokens
      BY <1>9, <2>3 DEF Available
    <3>3. num * delta = 0
      BY <1>2, <3>1
    <3> QED
      BY <1>2, <1>5, <1>6, <1>7, <2>1, <3>2, <3>3
  <2> QED
    BY <2>2, <2>3
<1> QED
  BY <1>8, <1>9

\* A run of the script keeps the order, and is a step of the abstract bucket.
LEMMA ScriptStep ==
  ASSUME Serial, SInv, NEW c \in waiting, Script(c), UNCHANGED <<clock, host, stamp>>,
         waiting' = waiting \ {c}
  PROVE  /\ InOrder'
         /\ timestamp' \in timestamp..MaxClock
         /\ Level' \in 0..(Capacity[TheHost] * RateDen)
         /\ Level' <= Promised!Accrued(timestamp')
         /\ Enough(c) => Level' + RateDen <= Promised!Accrued(timestamp')
<1>1. c \in Callers /\ waiting' = {}
  BY DEF Serial, SInv, IInv, TypeOK
<1>2. /\ Available(c) \in Nat
      /\ Available(c) <= Capacity[TheHost]
      /\ Available(c) * RateDen <= Promised!Accrued(stamp[c])
      /\ Promised!Accrued(stamp[c]) \in Nat
  BY AvailableIsAccrued
<1>3. timestamp' = stamp[c] /\ set' /\ expires' = clock + Ttl
  BY DEF Script
<1>4. tokens' \in Nat /\ tokens' <= Capacity[TheHost]
  BY <1>2, Constants DEF Script, Enough
<1>5. stamp[c] \in Nat /\ stamp[c] <= clock /\ stamp[c] >= timestamp
      /\ clock \in Nat /\ clock <= MaxClock /\ timestamp \in Nat
      /\ MaxClock \in Nat
  BY <1>1, BucketAssumption DEF SInv, IInv, TypeOK, StampsAreRecent, InOrder
<1>6. InOrder'
  BY <1>1, <1>3, <1>4, <1>5, Constants DEF InOrder
<1>7. Level' = tokens' * RateDen
  BY <1>3 DEF Level
<1>8. /\ Level' \in 0..(Capacity[TheHost] * RateDen)
      /\ timestamp' \in timestamp..MaxClock
  <2>1. /\ tokens' * RateDen <= Capacity[TheHost] * RateDen
        /\ tokens' * RateDen \in Nat
    BY <1>4, Constants, ProductIsNat, MoreTimeMoreTokens
  <2>2. timestamp' \in timestamp..MaxClock
    BY <1>3, <1>5
  <2> QED
    BY <1>7, <2>1, <2>2, Constants
<1>9. CASE Enough(c)
  <2>1. tokens' = Available(c) - 1
    BY <1>9 DEF Script
  <2>2. Level' + RateDen = Available(c) * RateDen
    BY <1>2, <1>7, <2>1, Constants
  <2> QED
    BY <1>2, <1>3, <1>5, <1>6, <1>8, <2>2, Constants
<1>10. CASE ~Enough(c)
  <2>1. tokens' = Available(c)
    BY <1>10 DEF Script
  <2> QED
    BY <1>2, <1>3, <1>5, <1>6, <1>7, <1>8, <1>10, <2>1
<1> QED
  BY <1>9, <1>10

\* Stamps stay in order under every step.
LEMMA NextSInv == ASSUME Serial PROVE SInv /\ [Next]_vars => SInv'
<1> SUFFICES ASSUME SInv, [Next]_vars PROVE SInv'
  OBVIOUS
<1>1. IInv'
  BY NextIInv DEF SInv
<1>2. CASE Tick
  BY <1>1, <1>2 DEF Tick, bucket, SInv, IInv, TypeOK, InOrder
<1>3. ASSUME NEW c \in Callers, NEW h \in Hosts, ReadClock(c, h) PROVE SInv'
  <2>1. PICK now \in 0..clock : clock <= now + MaxSkew /\ stamp' = [stamp EXCEPT ![c] = now]
    BY <1>3 DEF ReadClock
  <2>2. now = clock
    <3>1. MaxSkew = 0 /\ clock \in Nat
      BY Constants DEF SInv, IInv, TypeOK
    <3>2. now \in Nat /\ now <= clock /\ clock <= now + 0
      BY <2>1, <3>1
    <3> QED
      BY <3>1, <3>2
  <2>3. /\ waiting' = waiting \cup {c} /\ stamp'[c] = clock
        /\ \A d \in Callers \ {c} : stamp'[d] = stamp[d]
        /\ UNCHANGED <<clock, set, tokens, timestamp, expires>>
    BY <1>3, <2>1, <2>2 DEF ReadClock, bucket, SInv, IInv, TypeOK
  <2>4. InOrder'
    BY <2>3 DEF SInv, IInv, TypeOK, InOrder
  <2> QED
    BY <1>1, <2>4 DEF SInv
<1>4. ASSUME NEW c \in Callers, Exec(c) \/ ExecUnanswered(c) PROVE SInv'
  <2>1. c \in waiting /\ InOrder'
    BY <1>4, ScriptStep DEF Exec, ExecUnanswered
  <2> QED
    BY <1>1, <2>1 DEF SInv
<1>5. ASSUME NEW c \in Callers, Abandon(c) PROVE SInv'
  BY <1>1, <1>5 DEF Abandon, bucket, SInv, InOrder
<1>6. CASE UNCHANGED vars
  BY <1>1, <1>6 DEF vars, bucket, SInv, InOrder
<1> QED
  BY <1>2, <1>3, <1>4, <1>5, <1>6 DEF Next

\* The invariant holds in every state of every behaviour.
LEMMA SerialInvariance == ASSUME Serial PROVE Spec => []SInv
<1>1. Init => SInv
  BY InitIInv DEF Init, SInv, InOrder
<1> QED
  BY <1>1, NextSInv, PTL DEF Spec

\* The limiter serving one host, one call at a time, implements TokenBucket.
THEOREM SerialRefinement ==
  ASSUME Serial PROVE Spec => ImplementsTokenBucket
<1>1. Init => Promised!Init
  BY Constants DEF Init, Promised!Init, Level
<1>2. SInv /\ [Next]_vars => [Promised!Next]_Promised!vars
  <2> SUFFICES ASSUME SInv, [Next]_vars PROVE [Promised!Next]_Promised!vars
    OBVIOUS
  <2>1. ASSUME NEW c \in Callers, Exec(c) PROVE Promised!Next
    <3>1. host[c] = TheHost /\ granted[TheHost] \in Nat
      BY DEF Serial, SInv, IInv, TypeOK
    <3>2. granted'[TheHost] = IF Enough(c) THEN granted[TheHost] + 1
                              ELSE granted[TheHost]
      BY <2>1, <3>1, Constants DEF Exec, SInv, IInv, TypeOK
    <3>3. /\ timestamp' \in timestamp..MaxClock
          /\ Level' \in 0..(Capacity[TheHost] * RateDen)
          /\ Level' <= Promised!Accrued(timestamp')
          /\ Enough(c) => Level' + RateDen <= Promised!Accrued(timestamp')
      BY <2>1, ScriptStep DEF Exec
    <3> QED
      BY <3>2, <3>3 DEF Promised!Next, Promised!Grant, Promised!Deny
  <2>2. ASSUME NEW c \in Callers, ExecUnanswered(c) PROVE Promised!Next
    <3>1. /\ timestamp' \in timestamp..MaxClock
          /\ Level' \in 0..(Capacity[TheHost] * RateDen)
          /\ Level' <= Promised!Accrued(timestamp')
      BY <2>2, ScriptStep DEF ExecUnanswered
    <3> QED
      BY <2>2, <3>1 DEF ExecUnanswered, Promised!Next, Promised!Deny
  <2>3. ASSUME \/ Tick
               \/ \E c \in Callers : Abandon(c) \/ \E h \in Hosts : ReadClock(c, h)
               \/ UNCHANGED vars
        PROVE  UNCHANGED Promised!vars
    BY <2>3 DEF Tick, Abandon, ReadClock, vars, bucket, ghosts, Promised!vars, Level
  <2> QED
    BY <2>1, <2>2, <2>3 DEF Next
<1> QED
  BY <1>1, <1>2, SerialInvariance, PTL
  DEF Spec, ImplementsTokenBucket, Promised!Spec

\* It grants at most the size of the bucket plus what the rate earned so far.
THEOREM GrantsAreBounded ==
  ASSUME Serial PROVE Spec => []GrantBound
<1>1. Spec => []Promised!Promise
  <2>1. Promised!WellFormed
    BY Constants DEF Promised!WellFormed
  <2> QED
    BY <2>1, PromiseKept, SerialRefinement, PTL DEF ImplementsTokenBucket
<1>2. SInv /\ Promised!Promise => GrantBound
  <2> SUFFICES ASSUME SInv, Promised!Promise, NEW h \in Hosts
               PROVE  granted[h] * RateDen <= Capacity[h] * RateDen + RateNum[h] * clock
    BY DEF GrantBound
  <2>1. h = TheHost
    BY DEF Serial
  <2>2. timestamp * RateNum[TheHost] <= clock * RateNum[TheHost]
    BY Constants, MoreTimeMoreTokens DEF SInv, InOrder, IInv, TypeOK
  <2>3. /\ timestamp * RateNum[TheHost] = RateNum[TheHost] * timestamp
        /\ clock * RateNum[TheHost] = RateNum[TheHost] * clock
        /\ RateNum[TheHost] * timestamp \in Nat /\ RateNum[TheHost] * clock \in Nat
        /\ granted[TheHost] * RateDen \in Nat
    BY Constants DEF SInv, IInv, TypeOK
  <2> QED
    BY <2>1, <2>2, <2>3, Constants DEF Promised!Promise
<1> QED
  BY <1>1, <1>2, SerialInvariance, PTL
=============================================================================
