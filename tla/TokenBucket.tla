----------------------------- MODULE TokenBucket -----------------------------
(***************************************************************************)
(* What a rate limiter promises for one client and one upstream, whatever  *)
(* its arithmetic: it starts with Capacity tokens, earns at most Num/Den   *)
(* of a token per tick, never holds more than Capacity, and spends one     *)
(* token per grant.  The level is counted in 1/Den tokens.  An             *)
(* implementation may lose tokens; it may never invent one.                *)
(***************************************************************************)
EXTENDS Naturals

CONSTANTS Capacity, Num, Den,
          Horizon       \* bound: the last tick at which a request may come

\* What the constants have to be: an instance shows it of its own.
WellFormed == /\ {Capacity, Num, Horizon} \subseteq Nat
              /\ Den \in Nat \ {0}

VARIABLES at,           \* when the bucket was last brought up to date
          level,        \* what it held then, in 1/Den tokens
          granted       \* the requests granted so far

vars == <<at, level, granted>>

Accrued(t) == IF level + Num * (t - at) <= Capacity * Den
              THEN level + Num * (t - at)
              ELSE Capacity * Den

Init == /\ at = 0
        /\ level = Capacity * Den
        /\ granted = 0

\* Mutant: the grant costs nothing.
GrantUnpaid(t, l) == /\ l <= Accrued(t)
                     /\ level' = l
                     /\ granted' = granted + 1
                     /\ at' = t

\* A request at time t leaves the level at l; what it does not spend or earn
\* may be lost.
Grant(t, l) == /\ l + Den <= Accrued(t)
               /\ level' = l
               /\ granted' = granted + 1
               /\ at' = t

Deny(t, l) == /\ l <= Accrued(t)
              /\ level' = l
              /\ granted' = granted
              /\ at' = t

Next == \E t \in at..Horizon, l \in 0..(Capacity * Den) :
           Grant(t, l) \/ Deny(t, l)

Spec == Init /\ [][Next]_vars

\* Over any stretch of time a client is granted at most the size of the bucket
\* plus what the refill rate earns ("Refill rate per second", coraza.go:39).
Promise == granted * Den <= Capacity * Den + Num * at
=============================================================================
