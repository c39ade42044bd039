------------------------------ MODULE MCBucket ------------------------------
(* Two hosts with different rules and two concurrent callers. One tick is the
   unit in which rates and latencies are given. *)
EXTENDS ValkeyBucket

CONSTANTS c1, c2, shop, blog

MCCallers == {c1, c2}
MCHosts == {shop, blog}
MCCapacity == [h \in MCHosts |-> IF h = shop THEN 2 ELSE 1]
MCRateNum == [h \in MCHosts |-> IF h = shop THEN 1 ELSE 2]

\* One host: out-of-order stamps and frequent polling.
MCOneHost == {shop}
MCOneCapacity == [h \in MCOneHost |-> 1]
MCOneRate == [h \in MCOneHost |-> 1]
=============================================================================
