--------------------------- MODULE MCBucketSerial ---------------------------
(* One host, one caller: the key lives long enough to fill up again, and the
   clock goes past its expiry. *)
EXTENDS ValkeyBucketSerial

CONSTANTS c1, shop

MCCallers == {c1}
MCHosts == {shop}
MCCapacity == [h \in MCHosts |-> 2]
MCRateNum == [h \in MCHosts |-> 1]

ASSUME SerialHolds == Serial
=============================================================================
