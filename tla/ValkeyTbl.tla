------------------------------ MODULE ValkeyTbl ------------------------------
(***************************************************************************)
(* The valkey table of the key-value store and one of its keys: a hash     *)
(* whose fields may be there or not.  Each command and the script is one   *)
(* step of valkey; only the clock is read before, in the calling process.  *)
(* GetStrikes asks with HMGET and takes the answer, a list, for a number:  *)
(* it changes nothing and always fails.                                    *)
(***************************************************************************)
EXTENDS Integers, FiniteSetsExt

CONSTANTS Callers,
          Capacity, Second,   \* ticks in a second
          Day,                \* the life the script gives the key
          MaxCalls            \* bound of a run

VARIABLES rate,               \* NewTbl's refillRate, tokens a second, <<p, q>>
          now,
          hash, expires,      \* the fields there are; when they go, or Never
          asked,              \* of a caller: its clock reading, or Idle
          commands, struck, paid   \* history: commands sent, strikes given,
                                   \* requests granted since there is a key

setting == <<rate, now>>
history == <<commands, struck, paid>>
vars    == <<setting, hash, expires, asked, history>>

Never == -1
Idle  == -1
Empty == [f \in {} |-> 0]   \* without fields there is no key

Fields == {"tokens", "timestamp", "strikes"}

Init == /\ hash = Empty /\ expires = Never
        /\ asked = [c \in Callers |-> Idle]
        /\ commands = 0 /\ struck = 0 /\ paid = 0

\* HMGET: a field, or what the script takes for nil.
Get(f, default) == IF f \in DOMAIN hash THEN hash[f] ELSE default

\* HMSET: the given fields replace those of the hash.
Hmset(given) == hash' = [f \in DOMAIN hash \cup DOMAIN given |->
                            IF f \in DOMAIN given THEN given[f] ELSE hash[f]]

Command == commands < MaxCalls /\ commands' = commands + 1

CreateCookie == /\ Command
                /\ Hmset([f \in {"strikes"} |-> -1])
                /\ UNCHANGED <<setting, expires, asked, struck, paid>>

ResetStrikes == /\ Command
                /\ Hmset([f \in {"strikes"} |-> 0])
                /\ UNCHANGED <<setting, expires, asked, struck, paid>>

\* HINCRBY: of a key that is not there it makes one.
Increase == /\ Command
            /\ Hmset([f \in {"strikes"} |-> Get("strikes", 0) + 1])
            /\ struck' = struck + 1
            /\ UNCHANGED <<setting, expires, asked, paid>>

ReadClock(c) == /\ Command
                /\ asked[c] = Idle
                /\ asked' = [asked EXCEPT ![c] = now]
                /\ UNCHANGED <<setting, hash, expires, struck, paid>>

\* strconv.Itoa(int(refillRate)): what is left of a rate below one is nothing.
WholeRate == rate[1] \div rate[2]

\* Mutant: the rate is handed over as it is.
RefillExact(delta) == (delta * rate[1]) \div (rate[2] * Second)

Refill(delta) == (delta * WholeRate) \div Second

\* A granted request takes a token and one of the strikes off.
Script(c) ==
    LET stamp     == asked[c]
        had       == Get("tokens", Capacity)
        delta     == IF "tokens" \in DOMAIN hash THEN stamp - Get("timestamp", 0) ELSE 0
        available == IF delta > 0 THEN Min({Capacity, had + Refill(delta)}) ELSE had
        allowed   == available >= 1
        given     == Get("strikes", 0)
    IN  /\ stamp # Idle
        /\ Hmset([f \in Fields |->
                    CASE f = "tokens"    -> IF allowed THEN available - 1 ELSE available
                      [] f = "timestamp" -> stamp
                      [] f = "strikes"   -> IF allowed /\ given > 0 THEN given - 1 ELSE given])
        /\ paid' = IF allowed THEN paid + 1 ELSE paid
        /\ expires' = now + Day
        /\ asked' = [asked EXCEPT ![c] = Idle]
        /\ UNCHANGED <<setting, commands, struck>>

\* The call fails before the script runs.
Abandon(c) == /\ asked[c] # Idle
              /\ asked' = [asked EXCEPT ![c] = Idle]
              /\ UNCHANGED <<setting, hash, expires, history>>

Expire == /\ expires # Never /\ now >= expires
          /\ hash' = Empty
          /\ expires' = Never
          /\ paid' = 0
          /\ UNCHANGED <<setting, asked, commands, struck>>

Next == \/ CreateCookie \/ ResetStrikes \/ Increase \/ Expire
        \/ \E c \in Callers : ReadClock(c) \/ Script(c) \/ Abandon(c)
=============================================================================
