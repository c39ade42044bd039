------------------------------ MODULE LocalTbl ------------------------------
(***************************************************************************)
(* The in-memory tables and one of their keys, used by goroutines without  *)
(* a lock: every load and store of a shared field is a step of its own.    *)
(* (The runtime may also end the process when it sees two goroutines in    *)
(* the map.)  Two kinds differ in a few places: "kv" of the key-value      *)
(* store and "bucket" of the ratelimit plugin, which also has the plugin's *)
(* own Validate in front.                                                  *)
(***************************************************************************)
EXTENDS Integers, FiniteSetsExt

CONSTANTS Callers,
          Capacity, Second,   \* ticks in a second
          StrikeLimit,        \* 20 in Validate
          MaxCalls            \* bound of a run

VARIABLES table, rate,         \* "kv" or "bucket"; tokens a second, <<p, q>>
          now,
          made, record,        \* whether there is a map; the record in it
          tokens, timestamp, strikes, allocated,   \* the records, by number
          pc, op, mine, read, stamp,   \* of a caller: where it is, in which
                                       \* operation, its record, the value it
                                       \* has loaded, its clock reading
          calls, increased,    \* history: calls begun, strikes given,
          overlapped, due      \* whether two calls were ever under way at
                               \* once, and what the calls make of the strikes

setting == <<table, rate, now>>
fields  == <<tokens, timestamp, strikes, allocated>>
caller  == <<pc, op, mine, read, stamp>>
history == <<calls, increased, overlapped, due>>
vars    == <<setting, made, record, fields, caller, history>>

None    == 0
Records == 1..MaxCalls   \* a call allocates one at most
Start   == IF table = "kv" THEN -1 ELSE 0   \* the strikes of a new cookie

Operations == {"CreateCookie", "Allow", "Increase"}
              \cup (IF table = "kv" THEN {"ResetStrikes"} ELSE {"Validate"})

\* The operations that make the map when there is none.
MakesMap == IF table = "kv" THEN {"CreateCookie", "Allow"} ELSE Operations

Init == /\ made = FALSE /\ record = None
        /\ tokens = [r \in Records |-> 0]
        /\ timestamp = [r \in Records |-> 0]
        /\ strikes = [r \in Records |-> 0]
        /\ allocated = 0
        /\ pc = [c \in Callers |-> "idle"]
        /\ op = [c \in Callers |-> "CreateCookie"]
        /\ mine = [c \in Callers |-> None]
        /\ read = [c \in Callers |-> 0]
        /\ stamp = [c \in Callers |-> 0]
        /\ calls = 0 /\ increased = 0 /\ overlapped = FALSE /\ due = 0

Go(c, s) == pc' = [pc EXCEPT ![c] = s]
-----------------------------------------------------------------------------
Begin(c, o) ==
    /\ pc[c] = "idle"
    /\ calls < MaxCalls
    /\ calls' = calls + 1
    /\ overlapped' = (overlapped \/ \E d \in Callers \ {c} : pc[d] # "idle")
    /\ increased' = IF o = "Increase" THEN increased + 1 ELSE increased
    /\ due' = CASE o = "CreateCookie" -> Start
                [] o = "Increase" /\ record # None -> due + 1
                [] o = "ResetStrikes" /\ record # None -> 0
                [] OTHER -> due
    /\ op' = [op EXCEPT ![c] = o]
    /\ Go(c, IF ~made /\ o \in MakesMap THEN "make" ELSE "find")
    /\ UNCHANGED <<setting, made, record, fields, mine, read, stamp>>

\* Two callers may both have seen no map: the later one drops the other's.
Make(c) == /\ pc[c] = "make"
           /\ made' = TRUE
           /\ record' = None
           /\ Go(c, "find")
           /\ UNCHANGED <<setting, fields, op, mine, read, stamp, history>>

\* Without a record most calls fail or panic and so end; CreateCookie does not
\* look, and Allow of the kv table makes one.
Find(c) ==
    /\ pc[c] = "find"
    /\ mine' = [mine EXCEPT ![c] = IF op[c] = "CreateCookie" THEN None ELSE record]
    /\ Go(c, IF \/ op[c] = "CreateCookie"
                \/ op[c] = "Allow" /\ (table = "kv" \/ record # None) THEN "clock"
             ELSE IF record = None THEN "idle"
             ELSE IF op[c] = "Validate" THEN "validate"
             ELSE "change")
    /\ UNCHANGED <<setting, made, record, fields, op, read, stamp, history>>

Allocate(c) == /\ allocated' = allocated + 1
               /\ mine' = [mine EXCEPT ![c] = allocated']
               /\ tokens' = [tokens EXCEPT ![allocated'] = Capacity]
               /\ timestamp' = [timestamp EXCEPT ![allocated'] = now]
               /\ strikes' = [strikes EXCEPT ![allocated'] =
                                 IF op[c] = "CreateCookie" THEN Start ELSE 0]

Clock(c) == /\ pc[c] = "clock"
            /\ stamp' = [stamp EXCEPT ![c] = now]
            /\ IF mine[c] = None THEN Allocate(c) ELSE UNCHANGED <<fields, mine>>
            /\ Go(c, IF op[c] = "CreateCookie" THEN "put" ELSE "delta")
            /\ UNCHANGED <<setting, made, record, op, read, history>>
-----------------------------------------------------------------------------
\* What a goroutine does between two accesses: it loads a value and goes on.
Load(c, from, v, to) ==
    /\ pc[c] = from
    /\ read' = [read EXCEPT ![c] = v]
    /\ Go(c, to)
    /\ UNCHANGED <<setting, made, record, fields, op, mine, stamp, history>>

StoreTokens(c, from, to) ==
    /\ pc[c] = from
    /\ tokens' = [tokens EXCEPT ![mine[c]] = read[c]]
    /\ due' = IF from = "taken" /\ table = "kv" /\ due > 0 THEN due - 1 ELSE due
    /\ Go(c, to)
    /\ UNCHANGED <<setting, made, record, timestamp, strikes, allocated,
                   op, mine, read, stamp, calls, increased, overlapped>>

StoreStrikes(c, from, to) ==
    /\ pc[c] = from
    /\ strikes' = [strikes EXCEPT ![mine[c]] = read[c]]
    /\ Go(c, to)
    /\ UNCHANGED <<setting, made, record, tokens, timestamp, allocated,
                   op, mine, read, stamp, history>>

\* Mutant: the refill is not capped.
RefilledUncapped(c) ==
    LET delta == stamp[c] - timestamp[mine[c]]
    IN  tokens[mine[c]] + (delta * rate[1]) \div (rate[2] * Second)

\* The timestamp is that of the record's creation: nothing moves it.
Refilled(c) ==
    LET delta == stamp[c] - timestamp[mine[c]]
    IN  Min({Capacity, tokens[mine[c]] + (delta * rate[1]) \div (rate[2] * Second)})

Refill(c) == \/ /\ pc[c] = "delta"
                /\ IF stamp[c] > timestamp[mine[c]]
                   THEN Load(c, "delta", Refilled(c), "refill")
                   ELSE Load(c, "delta", read[c], "check")
             \/ StoreTokens(c, "refill", "check")

\* Mutant: the last token is kept.
TakeAboveOne(c) ==
    \/ Load(c, "check", tokens[mine[c]], IF tokens[mine[c]] > 1 THEN "take" ELSE "put")
    \/ Load(c, "take", tokens[mine[c]] - 1, "taken")
    \/ StoreTokens(c, "taken", IF table = "kv" THEN "struck" ELSE "put")

Take(c) == \/ Load(c, "check", tokens[mine[c]], IF tokens[mine[c]] >= 1 THEN "take" ELSE "put")
           \/ Load(c, "take", tokens[mine[c]] - 1, "taken")
           \/ StoreTokens(c, "taken", IF table = "kv" THEN "struck" ELSE "put")

\* Mutant: every granted request takes a strike off.
ForgiveAlways(c) ==
    \/ Load(c, "struck", strikes[mine[c]], "forgive")
    \/ Load(c, "forgive", strikes[mine[c]] - 1, "forgiven")
    \/ StoreStrikes(c, "forgiven", "put")

\* In the kv table a granted request takes one of the strikes off.
Forgive(c) ==
    \/ Load(c, "struck", strikes[mine[c]], IF strikes[mine[c]] > 0 THEN "forgive" ELSE "put")
    \/ Load(c, "forgive", strikes[mine[c]] - 1, "forgiven")
    \/ StoreStrikes(c, "forgiven", "put")

Change(c) ==
    \/ Load(c, "change", IF op[c] = "Increase" THEN strikes[mine[c]] + 1 ELSE 0, "changed")
    \/ StoreStrikes(c, "changed", "put")

\* The ratelimit plugin: GetStrikes, and below the limit a call of Allow.
Validate(c) == /\ pc[c] = "validate"
               /\ mine' = [mine EXCEPT ![c] = None]
               /\ IF strikes[mine[c]] >= StrikeLimit
                  THEN Go(c, "idle") /\ UNCHANGED op
                  ELSE Go(c, "find") /\ op' = [op EXCEPT ![c] = "Allow"]
               /\ UNCHANGED <<setting, made, record, fields, read, stamp, history>>

\* The call ends, and its local variables with it.
Put(c) == /\ pc[c] = "put"
          /\ record' = mine[c]
          /\ Go(c, "idle")
          /\ mine' = [mine EXCEPT ![c] = None]
          /\ read' = [read EXCEPT ![c] = 0]
          /\ stamp' = [stamp EXCEPT ![c] = 0]
          /\ op' = [op EXCEPT ![c] = "CreateCookie"]
          /\ UNCHANGED <<setting, made, fields, history>>

Next == \E c \in Callers : \/ \E o \in Operations : Begin(c, o)
                           \/ Make(c) \/ Find(c) \/ Clock(c) \/ Refill(c) \/ Take(c)
                           \/ Forgive(c) \/ Change(c) \/ Validate(c) \/ Put(c)
=============================================================================
