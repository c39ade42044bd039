------------------------- MODULE ValkeyBucketSerial -------------------------
(***************************************************************************)
(* The conditions under which the limiter of tbl.go keeps the promise of   *)
(* TokenBucket: one host, one call at a time, clocks in step, and a bucket *)
(* that is full again before its key expires.  Without the first two it    *)
(* does not (see MCBucketRace).                                            *)
(***************************************************************************)
EXTENDS ValkeyBucket

CONSTANTS TheHost, TheCaller

\* What the constants have to be; only the theorems that name it need it.
Serial ==
    /\ Hosts = {TheHost}
    /\ Callers = {TheCaller}
    /\ MaxSkew = 0
    /\ (Ttl - MaxLatency) * RateNum[TheHost] >= Capacity[TheHost] * RateDen
    /\ Ttl >= MaxLatency

\* The bucket of TokenBucket that the key stands for: a key without tokens is
\* a full bucket.
Level == IF set THEN tokens * RateDen ELSE Capacity[TheHost] * RateDen

Promised == INSTANCE TokenBucket
            WITH Capacity <- Capacity[TheHost],
                 Num <- RateNum[TheHost],
                 Den <- RateDen,
                 Horizon <- MaxClock,
                 at <- timestamp,
                 level <- Level,
                 granted <- granted[TheHost]

\* The serial limiter implements the abstract bucket.
ImplementsTokenBucket == Promised!Spec
=============================================================================
