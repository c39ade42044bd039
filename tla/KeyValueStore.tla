---------------------------- MODULE KeyValueStore ----------------------------
(***************************************************************************)
(* The in-memory and the valkey tables side by side, with one clock: a     *)
(* behaviour is that of one table (KV_TYPE, TBL_LIBRARY), whose capacity   *)
(* and rate its constructor is given.  The tables do not implement the     *)
(* interface alike: what each of them keeps of it is stated below.         *)
(***************************************************************************)
EXTENDS Integers

CONSTANTS Callers, Capacity, Second, Day, StrikeLimit,
          Rates,              \* refill rates <<p, q>>, p tokens in q seconds
          MaxTime, MaxCalls   \* bounds of a run

ASSUME KeyValueAssumption ==
    /\ {Capacity, StrikeLimit, MaxTime, MaxCalls} \subseteq Nat
    /\ {Second, Day} \subseteq Nat \ {0}
    /\ Rates \subseteq Nat \X (Nat \ {0})

VARIABLES table, rate, now,
          made, record, tokens, timestamp, strikes, allocated,
          pc, op, mine, read, stamp, calls, increased, overlapped, due,
          hash, expires, asked, commands, struck, paid

Local  == INSTANCE LocalTbl
Valkey == INSTANCE ValkeyTbl

localState  == <<made, record, tokens, timestamp, strikes, allocated,
                 pc, op, mine, read, stamp, calls, increased, overlapped, due>>
valkeyState == <<hash, expires, asked, commands, struck, paid>>
vars        == <<table, rate, now, localState, valkeyState>>

Init == /\ table \in {"kv", "bucket", "valkey"}
        /\ rate \in Rates
        /\ now = 0
        /\ Local!Init
        /\ Valkey!Init

Tick == /\ now < MaxTime
        /\ now' = now + 1
        /\ UNCHANGED <<table, rate, localState, valkeyState>>

Next == \/ Tick
        \/ table # "valkey" /\ Local!Next /\ UNCHANGED valkeyState
        \/ table = "valkey" /\ Valkey!Next /\ UNCHANGED <<table, localState>>

Spec == Init /\ [][Next]_vars
-----------------------------------------------------------------------------
\* Whatever gets lost between goroutines without a lock, or between clock and
\* script, nothing is made up: no record holds more tokens than the capacity or
\* more strikes than were ever given.
NothingInvented ==
    /\ \A r \in 1..allocated : tokens[r] <= Capacity /\ strikes[r] <= increased
    /\ Valkey!Get("tokens", 0) \in 0..Capacity
    /\ Valkey!Get("strikes", 0) <= struck

\* Without a lock the in-memory table is right as long as no two calls were ever
\* under way at once: between calls a cookie has the strikes that were given
\* since it was created or reset, less one for each request granted in between.
ExactWhenSerial ==
    (/\ table # "valkey" /\ ~overlapped /\ record # Local!None
     /\ \A c \in Callers : pc[c] = "idle")
    => strikes[record] = due

\* The in-memory table counts a record's whole age at every call, as nothing
\* moves its timestamp: alone in the table, a request is denied only in the time
\* that its record takes to earn its first token.
DeniedOnlyYoung ==
    [][\A c \in Callers :
          (pc[c] = "check" /\ pc'[c] = "put" /\ ~overlapped)
          => (stamp[c] - timestamp[mine[c]]) * rate[1] < rate[2] * Second]_vars

\* The valkey table cuts the rate to a whole number: with a rate below one (the
\* default is 0.01) a cookie gets its capacity and then nothing, whoever calls
\* and however late, until its key has expired.
FractionNeverRefills == rate[1] < rate[2] => paid <= Capacity
=============================================================================
