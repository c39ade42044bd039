------------------------ MODULE KeyValueStoreProofs ------------------------
(***************************************************************************)
(* Proofs about KeyValueStore for any number of callers, any rate and any  *)
(* bound on the run.                                                       *)
(***************************************************************************)
EXTENDS KeyValueStore, FiniteSets, FiniteSetTheorems, TLAPS

Stages == {"idle", "make", "find", "validate", "clock", "delta", "refill",
           "check", "take", "taken", "struck", "forgive", "forgiven",
           "change", "changed", "put"}

\* From here on the call has a record.
Holding == {"validate", "delta", "refill", "check", "take", "taken", "struck",
            "forgive", "forgiven", "change", "changed", "put"}

Calls == {"CreateCookie", "Allow", "Increase", "ResetStrikes", "Validate"}

LocalTypeOK ==
    /\ allocated \in Nat /\ record \in 0..allocated
    /\ tokens \in [1..MaxCalls -> Int]
    /\ timestamp \in [1..MaxCalls -> Nat]
    /\ strikes \in [1..MaxCalls -> Int]
    /\ pc \in [Callers -> Stages]
    /\ op \in [Callers -> Calls]
    /\ mine \in [Callers -> 0..allocated]
    /\ read \in [Callers -> Int]
    /\ stamp \in [Callers -> Nat]
    /\ calls \in 0..MaxCalls /\ increased \in Nat
    /\ due \in Int

SettingOK == /\ table \in {"kv", "bucket", "valkey"}
             /\ rate \in Nat \X (Nat \ {0})
             /\ now \in Nat

Pointers == \A c \in Callers : pc[c] \in Holding => mine[c] # 0

\* A call allocates one record at most, so that there is always room for it.
Unallocated == {c \in Callers : pc[c] \in {"make", "find", "validate", "clock"}}

Room == /\ IsFiniteSet(Unallocated)
        /\ allocated + Cardinality(Unallocated) <= calls

\* The calls of IncreaseStrikes that have not loaded the strikes yet, and the
\* strikes that the others can have given.
Unloaded == {c \in Callers : op[c] = "Increase" /\ pc[c] \in {"make", "find", "change"}}
Given == increased - Cardinality(Unloaded)

\* What the goroutines have loaded and not stored yet is bounded like what is
\* stored.
LocalBounds ==
    /\ IsFiniteSet(Unloaded)
    /\ 0 <= Given
    /\ \A r \in 1..allocated : tokens[r] <= Capacity /\ strikes[r] <= Given
    /\ \A c \in Callers : /\ pc[c] \in {"refill", "taken"} => read[c] <= Capacity
                          /\ pc[c] \in {"forgiven", "changed"} => read[c] <= Given

-----------------------------------------------------------------------------
MapFirst == made \/ /\ record = 0
                    /\ \A c \in Callers :
                          \/ pc[c] \in {"idle", "make"}
                          \/ pc[c] = "find" /\ op[c] \in {"Increase", "ResetStrikes"}

Rest == due = IF record = 0 THEN 0 ELSE strikes[record]

\* What a call that is alone has left to do to bring the strikes to due.
Exact(c) ==
    /\ pc[c] = "make" => record = 0
    /\ pc[c] \in {"make", "find"} =>
         CASE op[c] = "CreateCookie" -> due = Local!Start
           [] op[c] = "Increase"     -> due = IF record = 0 THEN 0 ELSE strikes[record] + 1
           [] op[c] = "ResetStrikes" -> due = 0
           [] OTHER                  -> Rest
    /\ pc[c] = "validate" => Rest
    /\ pc[c] = "clock" =>
         due = IF op[c] = "CreateCookie" THEN Local!Start
               ELSE IF mine[c] = 0 THEN 0 ELSE strikes[mine[c]]
    /\ pc[c] = "clock" /\ op[c] = "CreateCookie" => mine[c] = 0
    /\ pc[c] = "change" => due = IF op[c] = "Increase" THEN strikes[mine[c]] + 1 ELSE 0
    /\ pc[c] \in {"changed", "forgiven"} => due = read[c]
    /\ pc[c] \in {"delta", "refill", "check", "take", "taken", "put"} =>
         due = strikes[mine[c]]
    /\ pc[c] = "struck" =>
         due = IF strikes[mine[c]] > 0 THEN strikes[mine[c]] - 1 ELSE strikes[mine[c]]
    /\ pc[c] = "forgive" => due = strikes[mine[c]] - 1

ExactInv ==
    ~overlapped => /\ \A c, d \in Callers : pc[c] # "idle" /\ pc[d] # "idle" => c = d
                   /\ \A c \in Callers : pc[c] # "idle" => Exact(c)
                   /\ (\A c \in Callers : pc[c] = "idle") => Rest

\* The record of the call has not had the time to earn a token.
Young(c) == (stamp[c] - timestamp[mine[c]]) * rate[1] < rate[2] * Second

Served(c) ==
    /\ pc[c] = "refill" => read[c] >= 0 /\ (read[c] >= 1 \/ Young(c))
    /\ pc[c] = "check" => tokens[mine[c]] >= 1 \/ Young(c)
    /\ pc[c] = "take" => tokens[mine[c]] >= 1
    /\ pc[c] = "taken" => read[c] >= 0

ServedInv == ~overlapped => /\ \A r \in 1..allocated : tokens[r] >= 0
                            /\ \A c \in Callers : Served(c)

-----------------------------------------------------------------------------
ValkeyTypeOK ==
    /\ DOMAIN hash \subseteq {"tokens", "timestamp", "strikes"}
    /\ hash \in [DOMAIN hash -> Int]
    /\ expires \in Int
    /\ asked \in [Callers -> Int]
    /\ {commands, struck, paid} \subseteq Nat

ValkeyBounds ==
    /\ Valkey!Get("tokens", 0) \in 0..Capacity
    /\ Valkey!Get("strikes", 0) <= struck
    /\ rate[1] < rate[2] => paid + Valkey!Get("tokens", Capacity) <= Capacity

IInv == /\ SettingOK
        /\ LocalTypeOK /\ Pointers /\ Room /\ LocalBounds
        /\ ValkeyTypeOK /\ ValkeyBounds
SerialInv == MapFirst /\ ExactInv /\ ServedInv

-----------------------------------------------------------------------------
\* The smaller of two numbers.
LEMMA MinOfTwo ==
  ASSUME NEW a \in Int, NEW b \in Int
  PROVE  /\ Local!Min({a, b}) = IF a <= b THEN a ELSE b
         /\ Valkey!Min({a, b}) = IF a <= b THEN a ELSE b
<1> DEFINE P(x) == x \in {a, b} /\ \A y \in {a, b} : x <= y
<1>1. P(IF a <= b THEN a ELSE b)
  OBVIOUS
<1>2. \A x : P(x) => x = IF a <= b THEN a ELSE b
  OBVIOUS
<1>3. P(CHOOSE x : P(x))
  BY <1>1
<1>4. (CHOOSE x : P(x)) = IF a <= b THEN a ELSE b
  BY <1>2, <1>3
<1> QED
  BY <1>4 DEF Local!Min, Valkey!Min

\* Dividing what is not negative.
LEMMA Quotient ==
  ASSUME NEW a \in Nat, NEW b \in Nat \ {0}
  PROVE  /\ a \div b \in Nat
         /\ a \div b < 1 => a < b
  BY SMTT(60)

\* How a set of callers grows and shrinks when one of them moves.
LEMMA OneCaller ==
  ASSUME NEW S, NEW T, NEW c, IsFiniteSet(S),
         T = S \/ T = S \cup {c} \/ T = S \ {c}
  PROVE  /\ IsFiniteSet(T)
         /\ Cardinality(S) \in Nat /\ Cardinality(T) \in Nat
         /\ c \in T /\ c \notin S => Cardinality(T) = Cardinality(S) + 1
         /\ c \notin T /\ c \in S => Cardinality(T) = Cardinality(S) - 1
         /\ (c \in T <=> c \in S) => T = S
<1>1. Cardinality(S) \in Nat
  BY FS_CardinalityType
<1>2. CASE T = S
  BY <1>1, <1>2
<1>3. CASE T = S \cup {c}
  <2>1. /\ IsFiniteSet(T)
        /\ Cardinality(T) = IF c \in S THEN Cardinality(S) ELSE Cardinality(S) + 1
    BY <1>3, FS_AddElement
  <2> QED
    BY <1>1, <1>3, <2>1
<1>4. CASE T = S \ {c}
  <2>1. /\ IsFiniteSet(T)
        /\ Cardinality(T) = IF c \in S THEN Cardinality(S) - 1 ELSE Cardinality(S)
    BY <1>4, FS_RemoveElement
  <2> QED
    BY <1>1, <1>4, <2>1, FS_CardinalityType
<1> QED
  BY <1>2, <1>3, <1>4

\* The constants, as the lemmas need them.
LEMMA Constants == /\ Capacity \in Nat /\ MaxCalls \in Nat
                   /\ Second \in Nat \ {0} /\ Day \in Nat \ {0}
  BY KeyValueAssumption

\* Allocation keeps within the records there are.
LEMMA RoomStep ==
  ASSUME LocalTypeOK, Room, NEW c \in Callers, NEW s, pc' = [pc EXCEPT ![c] = s],
         allocated' \in Nat, calls' \in Nat,
         LET before == pc[c] \in {"make", "find", "validate", "clock"}
             after  == s \in {"make", "find", "validate", "clock"}
         IN  \/ (after => before) /\ allocated' = allocated /\ calls' = calls
             \/ before /\ ~after /\ allocated' = allocated + 1 /\ calls' = calls
             \/ allocated' = allocated /\ calls' = calls + 1
  PROVE  Room'
<1>1. \/ Unallocated' = Unallocated
      \/ Unallocated' = Unallocated \cup {c}
      \/ Unallocated' = Unallocated \ {c}
  BY DEF LocalTypeOK, Unallocated
<1>2. /\ c \in Unallocated <=> pc[c] \in {"make", "find", "validate", "clock"}
      /\ c \in Unallocated' <=> s \in {"make", "find", "validate", "clock"}
  BY DEF LocalTypeOK, Unallocated
<1>3. IsFiniteSet(Unallocated) /\ allocated \in Nat /\ calls \in Nat
  BY DEF LocalTypeOK, Room
<1> DEFINE S == Unallocated
           T == Unallocated'
<1> HIDE DEF S, T
<1>4. /\ IsFiniteSet(T)
      /\ Cardinality(S) \in Nat /\ Cardinality(T) \in Nat
      /\ c \in T /\ c \notin S => Cardinality(T) = Cardinality(S) + 1
      /\ c \notin T /\ c \in S => Cardinality(T) = Cardinality(S) - 1
      /\ (c \in T <=> c \in S) => T = S
  BY <1>1, <1>3, OneCaller DEF S, T
<1>5. allocated + Cardinality(S) <= calls
  BY DEF Room, S
<1>6. allocated' + Cardinality(T) <= calls'
  BY <1>2, <1>3, <1>4, <1>5 DEF S, T
<1> QED
  BY <1>4, <1>6 DEF Room, T

-----------------------------------------------------------------------------
(* The in-memory tables: one step of one goroutine.                           *)

Typed == SettingOK /\ LocalTypeOK /\ Pointers /\ Room

\* A call with room has a record to allocate.
LEMMA RoomForOne ==
  ASSUME LocalTypeOK, Room, NEW c \in Callers,
         pc[c] \in {"make", "find", "validate", "clock"}
  PROVE  allocated + 1 <= MaxCalls
<1>1. c \in Unallocated
  BY DEF Unallocated
<1>2. Cardinality(Unallocated) \in Nat /\ Cardinality(Unallocated) # 0
  BY <1>1, FS_CardinalityType, FS_EmptySet DEF Room
<1> QED
  BY <1>2, Constants DEF LocalTypeOK, Room

\* What the refill computes is a number within the capacity.
LEMMA RefilledIsBounded ==
  ASSUME SettingOK, LocalTypeOK, Pointers, NEW c \in Callers, pc[c] \in Holding,
         allocated <= MaxCalls, stamp[c] > timestamp[mine[c]]
  PROVE  /\ Local!Refilled(c) \in Int
         /\ Local!Refilled(c) <= Capacity
         /\ tokens[mine[c]] >= 0 /\ Capacity >= 1 =>
              Local!Refilled(c) >= 0 /\ (Local!Refilled(c) >= 1 \/ Young(c))
<1> DEFINE delta == stamp[c] - timestamp[mine[c]]
           earned == (delta * rate[1]) \div (rate[2] * Second)
<1>1. mine[c] \in 1..MaxCalls
  BY Constants DEF LocalTypeOK, Pointers
<1>2. /\ delta \in Nat /\ rate[1] \in Nat /\ rate[2] \in Nat \ {0}
      /\ Second \in Nat \ {0} /\ tokens[mine[c]] \in Int /\ Capacity \in Nat
  <2>1. stamp[c] \in Nat /\ timestamp[mine[c]] \in Nat /\ tokens[mine[c]] \in Int
    BY <1>1 DEF LocalTypeOK
  <2>2. rate[1] \in Nat /\ rate[2] \in Nat \ {0}
    BY DEF SettingOK
  <2>3. delta \in Nat
    BY <2>1
  <2> QED
    BY <2>1, <2>2, <2>3, Constants
<1>3. delta * rate[1] \in Nat /\ rate[2] * Second \in Nat \ {0}
  <2> HIDE DEF delta
  <2> QED
    BY <1>2
<1>4. earned \in Nat /\ (earned < 1 => delta * rate[1] < rate[2] * Second)
  BY <1>3, Quotient
<1>5. Local!Refilled(c) = Local!Min({Capacity, tokens[mine[c]] + earned})
  BY DEF Local!Refilled
<1> HIDE DEF earned
<1>6. Local!Refilled(c) = IF Capacity <= tokens[mine[c]] + earned
                          THEN Capacity ELSE tokens[mine[c]] + earned
  BY <1>2, <1>4, <1>5, MinOfTwo
<1>7. delta * rate[1] < rate[2] * Second => Young(c)
  BY DEF Young
<1> HIDE DEF delta
<1> QED
  BY <1>2, <1>4, <1>6, <1>7

\* Every step keeps the types, the records and the room for them.
LEMMA BeginTyped ==
  ASSUME Typed, NEW c \in Callers, NEW o \in Local!Operations, Local!Begin(c, o)
  PROVE  Typed'
<1> USE DEF Typed, Local!Begin, Local!Go, Local!setting, Local!fields
<1>1. o \in Calls /\ Local!Start \in Int
  BY DEF Local!Operations, Calls, Local!Start
<1>2. calls' \in 0..MaxCalls /\ calls' = calls + 1 /\ calls' \in Nat
  BY Constants DEF LocalTypeOK
<1>3. pc' \in [Callers -> Stages] /\ op' \in [Callers -> Calls]
  BY <1>1 DEF LocalTypeOK, Stages
<1>4. due' \in Int /\ increased' \in Nat
  BY <1>1 DEF LocalTypeOK
<1>5. SettingOK' /\ LocalTypeOK'
  BY <1>2, <1>3, <1>4 DEF SettingOK, LocalTypeOK
<1>6. Pointers'
  BY DEF LocalTypeOK, Pointers, Holding
<1>7. PICK s : s \in {"make", "find"} /\ pc' = [pc EXCEPT ![c] = s]
  OBVIOUS
<1>8. Room'
  BY <1>2, <1>7, RoomStep DEF LocalTypeOK
<1> QED
  BY <1>5, <1>6, <1>8

\* The stages at which a call works on its record.
Working == Holding \ {"validate"}

\* A step that allocates nothing and leads to no new wish to allocate.
LEMMA RoomKept ==
  ASSUME Typed, NEW c \in Callers, NEW s, pc' = [pc EXCEPT ![c] = s],
         UNCHANGED <<allocated, calls>>,
         \/ pc[c] \in {"make", "find", "validate", "clock"}
         \/ s \notin {"make", "find", "validate", "clock"}
  PROVE  Room'
<1>1. LocalTypeOK /\ Room
  BY DEF Typed
<1>2. allocated' \in Nat /\ calls' \in Nat /\ allocated' = allocated /\ calls' = calls
  BY <1>1 DEF LocalTypeOK
<1> QED
  BY <1>1, <1>2, RoomStep

\* Every step keeps the types, the records and the room for them.
LEMMA LoadTyped ==
  ASSUME Typed, NEW c \in Callers, NEW from \in Working, NEW v \in Int,
         NEW to \in Working, Local!Load(c, from, v, to)
  PROVE  Typed'
<1> USE DEF Typed, Local!Load, Local!Go, Local!setting, Local!fields, Local!history
<1>1. to \in Stages /\ from \in Holding
  BY DEF Working, Holding, Stages
<1>2. SettingOK' /\ LocalTypeOK' /\ Pointers'
  BY <1>1 DEF SettingOK, LocalTypeOK, Pointers
<1>3. /\ pc' = [pc EXCEPT ![c] = to] /\ UNCHANGED <<allocated, calls>>
      /\ to \notin {"make", "find", "validate", "clock"}
  BY DEF Working, Holding
<1> QED
  BY <1>2, <1>3, RoomKept

LEMMA StoreTokensTyped ==
  ASSUME Typed, NEW c \in Callers, NEW from \in Working, NEW to \in Working,
         Local!StoreTokens(c, from, to)
  PROVE  Typed'
<1> USE DEF Typed, Local!StoreTokens, Local!Go, Local!setting
<1>1. to \in Stages /\ from \in Holding
  BY DEF Working, Holding, Stages
<1>2. due' \in Int
  BY DEF LocalTypeOK
<1>3. tokens' \in [1..MaxCalls -> Int]
  BY DEF LocalTypeOK
<1>4. SettingOK' /\ LocalTypeOK' /\ Pointers'
  BY <1>1, <1>2, <1>3 DEF SettingOK, LocalTypeOK, Pointers
<1>5. /\ pc' = [pc EXCEPT ![c] = to] /\ UNCHANGED <<allocated, calls>>
      /\ to \notin {"make", "find", "validate", "clock"}
  BY DEF Working, Holding
<1> QED
  BY <1>4, <1>5, RoomKept

LEMMA StoreStrikesTyped ==
  ASSUME Typed, NEW c \in Callers, NEW from \in Working, NEW to \in Working,
         Local!StoreStrikes(c, from, to)
  PROVE  Typed'
<1> USE DEF Typed, Local!StoreStrikes, Local!Go, Local!setting, Local!history
<1>1. to \in Stages /\ from \in Holding
  BY DEF Working, Holding, Stages
<1>2. strikes' \in [1..MaxCalls -> Int]
  BY DEF LocalTypeOK
<1>3. SettingOK' /\ LocalTypeOK' /\ Pointers'
  BY <1>1, <1>2 DEF SettingOK, LocalTypeOK, Pointers
<1>4. /\ pc' = [pc EXCEPT ![c] = to] /\ UNCHANGED <<allocated, calls>>
      /\ to \notin {"make", "find", "validate", "clock"}
  BY DEF Working, Holding
<1> QED
  BY <1>3, <1>4, RoomKept

LEMMA ClockTyped ==
  ASSUME Typed, NEW c \in Callers, Local!Clock(c)
  PROVE  Typed'
<1>1. /\ pc[c] = "clock" /\ stamp' = [stamp EXCEPT ![c] = now]
      /\ IF mine[c] = 0 THEN Local!Allocate(c)
                        ELSE UNCHANGED <<tokens, timestamp, strikes, allocated, mine>>
      /\ UNCHANGED <<table, rate, now, made, record, op, read,
                     calls, increased, overlapped, due>>
  BY DEF Local!Clock, Local!setting, Local!fields, Local!history, Local!None
<1>2. PICK s : s \in {"put", "delta"} /\ pc' = [pc EXCEPT ![c] = s]
  BY DEF Local!Clock, Local!Go
<1>3. stamp' \in [Callers -> Nat] /\ pc' \in [Callers -> Stages]
  BY <1>1, <1>2 DEF Typed, SettingOK, LocalTypeOK, Stages
<1>4. SettingOK'
  BY <1>1 DEF Typed, SettingOK
<1>5. CASE mine[c] = 0
  <2>1. /\ Local!Allocate(c) /\ allocated' = allocated + 1
        /\ allocated + 1 <= MaxCalls
    BY <1>1, <1>5, RoomForOne DEF Local!Allocate, Typed
  <2>2. allocated \in Nat /\ allocated' \in Nat /\ allocated' \in 1..MaxCalls
    BY <2>1, Constants DEF Typed, LocalTypeOK
  <2>3. Local!Start \in Int /\ Capacity \in Int /\ now \in Nat
    BY Constants DEF Local!Start, Typed, SettingOK
  <2>4. mine' = [mine EXCEPT ![c] = allocated']
    BY <2>1 DEF Local!Allocate
  <2>5. /\ tokens' \in [1..MaxCalls -> Int]
        /\ timestamp' \in [1..MaxCalls -> Nat]
        /\ strikes' \in [1..MaxCalls -> Int]
    BY <2>1, <2>3 DEF Local!Allocate, Typed, LocalTypeOK
  <2>6. mine' \in [Callers -> 0..allocated'] /\ record' \in 0..allocated'
    <3>1. 0..allocated \subseteq 0..allocated' /\ allocated' \in 0..allocated'
      BY <2>1, <2>2
    <3> QED
      BY <1>1, <2>4, <3>1 DEF Typed, LocalTypeOK
  <2>7. LocalTypeOK'
    BY <1>1, <1>3, <2>2, <2>5, <2>6 DEF Typed, LocalTypeOK
  <2>8. Pointers'
    BY <1>2, <2>2, <2>4 DEF Pointers, Typed, LocalTypeOK
  <2>9. Room'
    <3>1. LocalTypeOK /\ Room /\ calls' = calls /\ calls' \in Nat
      BY <1>1 DEF Typed, LocalTypeOK
    <3> QED
      BY <1>1, <1>2, <2>1, <2>2, <3>1, RoomStep
  <2> QED
    BY <1>4, <2>7, <2>8, <2>9 DEF Typed
<1>6. CASE mine[c] # 0
  <2>1. UNCHANGED <<tokens, timestamp, strikes, allocated, mine>>
    BY <1>1, <1>6
  <2>2. LocalTypeOK'
    BY <1>1, <1>3, <2>1 DEF Typed, LocalTypeOK
  <2>3. Pointers'
    BY <1>2, <1>6, <2>1 DEF Pointers, Typed, LocalTypeOK
  <2>4. Room'
    BY <1>1, <1>2, <2>1, RoomKept
  <2> QED
    BY <1>4, <2>2, <2>3, <2>4 DEF Typed
<1> QED
  BY <1>5, <1>6

\* The steps that look a record up or hand it back.
LEMMA LookupTyped ==
  ASSUME Typed, NEW c \in Callers,
         Local!Make(c) \/ Local!Find(c) \/ Local!Validate(c) \/ Local!Put(c)
  PROVE  Typed'
<1> USE DEF Local!Go, Local!setting, Local!history, Local!fields, Local!None
<1>1. UNCHANGED <<table, rate, now, tokens, timestamp, strikes, allocated,
                  calls, increased, overlapped, due>>
  BY DEF Local!Make, Local!Find, Local!Validate, Local!Put
<1>2. PICK s : /\ pc' = [pc EXCEPT ![c] = s]
               /\ s \in {"find", "clock", "idle", "validate", "change"}
               /\ s \in {"validate", "change"} =>
                     record # 0 /\ mine' = [mine EXCEPT ![c] = record]
               /\ s = "idle" \/ pc[c] \in {"make", "find", "validate", "clock"}
  <2>1. CASE Local!Make(c)
    BY <2>1 DEF Local!Make
  <2>2. CASE Local!Find(c)
    BY <2>2 DEF Local!Find
  <2>3. CASE Local!Validate(c)
    BY <2>3 DEF Local!Validate
  <2>4. CASE Local!Put(c)
    BY <2>4 DEF Local!Put
  <2> QED
    BY <2>1, <2>2, <2>3, <2>4
<1>3. pc' \in [Callers -> Stages]
  BY <1>2 DEF Typed, LocalTypeOK, Stages
<1>4. /\ record' \in 0..allocated
      /\ mine' \in [Callers -> 0..allocated]
      /\ \A d \in Callers \ {c} : mine'[d] = mine[d]
  <2>1. record \in 0..allocated /\ mine \in [Callers -> 0..allocated] /\ 0 \in 0..allocated
    BY DEF Typed, LocalTypeOK
  <2>2. CASE Local!Make(c) \/ Local!Find(c)
    BY <2>1, <2>2 DEF Local!Make, Local!Find
  <2>3. CASE Local!Validate(c) \/ Local!Put(c)
    BY <2>1, <2>3 DEF Local!Validate, Local!Put
  <2> QED
    BY <2>2, <2>3
<1>5. /\ op' \in [Callers -> Calls]
      /\ read' \in [Callers -> Int] /\ stamp' \in [Callers -> Nat]
  <2>1. /\ op \in [Callers -> Calls]
        /\ read \in [Callers -> Int] /\ stamp \in [Callers -> Nat]
    BY DEF Typed, LocalTypeOK
  <2>2. CASE Local!Make(c) \/ Local!Find(c)
    BY <2>1, <2>2 DEF Local!Make, Local!Find
  <2>3. CASE Local!Validate(c)
    BY <2>1, <2>3 DEF Local!Validate, Calls
  <2>4. CASE Local!Put(c)
    BY <2>1, <2>4 DEF Local!Put, Calls
  <2> QED
    BY <2>2, <2>3, <2>4
<1>6. SettingOK' /\ LocalTypeOK'
  BY <1>1, <1>3, <1>4, <1>5 DEF Typed, SettingOK, LocalTypeOK
<1>7. Pointers'
  BY <1>2, <1>4 DEF Typed, LocalTypeOK, Pointers, Holding
<1>8. Room'
  BY <1>1, <1>2, RoomKept
<1> QED
  BY <1>6, <1>7, <1>8 DEF Typed

\* The records handed out are among those there are.
LEMMA Numbered ==
  ASSUME LocalTypeOK, Room
  PROVE  allocated \in 0..MaxCalls /\ 1..allocated \subseteq 1..MaxCalls
<1>1. Cardinality(Unallocated) \in Nat
  BY FS_CardinalityType DEF Room
<1> QED
  BY <1>1, Constants DEF LocalTypeOK, Room

\* The strikes that may be in a record only ever get more, and one more when an
\* increase has been loaded.
LEMMA GivenGrows ==
  ASSUME LocalTypeOK, LocalBounds, NEW c \in Callers, NEW s, NEW o,
         pc' = [pc EXCEPT ![c] = s], op' = [op EXCEPT ![c] = o],
         \/ /\ increased' = increased
            /\ o = "Increase" /\ s \in {"make", "find", "change"} => c \in Unloaded
         \/ increased' = increased + 1
  PROVE  /\ IsFiniteSet(Unloaded') /\ Given \in Nat /\ Given' \in Nat
         /\ Given <= Given'
         /\ increased' = increased /\ c \in Unloaded
            /\ ~(o = "Increase" /\ s \in {"make", "find", "change"}) => Given' = Given + 1
<1>1. \/ Unloaded' = Unloaded
      \/ Unloaded' = Unloaded \cup {c}
      \/ Unloaded' = Unloaded \ {c}
  BY DEF LocalTypeOK, Unloaded
<1>2. c \in Unloaded' <=> o = "Increase" /\ s \in {"make", "find", "change"}
  BY DEF LocalTypeOK, Unloaded
<1>3. IsFiniteSet(Unloaded) /\ increased \in Nat
  BY DEF LocalTypeOK, LocalBounds
<1> DEFINE S == Unloaded
           T == Unloaded'
<1> HIDE DEF S, T
<1>4. /\ IsFiniteSet(T)
      /\ Cardinality(S) \in Nat /\ Cardinality(T) \in Nat
      /\ c \in T /\ c \notin S => Cardinality(T) = Cardinality(S) + 1
      /\ c \notin T /\ c \in S => Cardinality(T) = Cardinality(S) - 1
      /\ (c \in T <=> c \in S) => T = S
  BY <1>1, <1>3, OneCaller DEF S, T
<1>5. /\ Given = increased - Cardinality(S) /\ Given' = increased' - Cardinality(T)
      /\ 0 <= Given
  BY DEF Given, S, T, LocalBounds
<1>6. c \in S <=> c \in Unloaded
  BY DEF S
<1>7. c \in T <=> o = "Increase" /\ s \in {"make", "find", "change"}
  BY <1>2 DEF T
<1> QED
  BY <1>3, <1>4, <1>5, <1>6, <1>7 DEF T

\* Loading and storing keep the bounds.
LEMMA LoadBounded ==
  ASSUME Typed, LocalBounds, NEW c \in Callers, NEW from \in Working, NEW v \in Int,
         NEW to \in Working \ {"change"}, Local!Load(c, from, v, to),
         to \in {"refill", "taken"} => v <= Capacity,
         to = "forgiven" => v <= Given,
         to = "changed" => from = "change" /\ v <= IF op[c] = "Increase" THEN Given + 1
                                                   ELSE Given
  PROVE  LocalBounds'
<1>1. /\ pc[c] = from /\ read' = [read EXCEPT ![c] = v]
      /\ pc' = [pc EXCEPT ![c] = to] /\ op' = op /\ increased' = increased
      /\ UNCHANGED <<tokens, strikes, allocated>>
  BY DEF Local!Load, Local!Go, Local!fields, Local!history
<1>2. LocalTypeOK
  BY DEF Typed
<1>3. op' = [op EXCEPT ![c] = op[c]] /\ to \notin {"make", "find", "change"}
  BY <1>1, <1>2 DEF LocalTypeOK, Working, Holding
<1>4. c \in Unloaded <=> op[c] = "Increase" /\ from = "change"
  BY <1>1 DEF Unloaded, Working, Holding
<1>5. /\ IsFiniteSet(Unloaded') /\ Given \in Nat /\ Given' \in Nat
      /\ Given <= Given'
      /\ c \in Unloaded => Given' = Given + 1
  BY <1>1, <1>2, <1>3, GivenGrows
<1>6. \A r \in 1..allocated' : tokens'[r] <= Capacity /\ strikes'[r] <= Given'
  <2> SUFFICES ASSUME NEW r \in 1..allocated PROVE tokens[r] <= Capacity /\ strikes[r] <= Given'
    BY <1>1
  <2>1. strikes[r] <= Given /\ strikes[r] \in Int
    BY Numbered DEF LocalBounds, LocalTypeOK, Typed
  <2> QED
    BY <1>5, <2>1 DEF LocalBounds
<1>7. \A d \in Callers : /\ pc'[d] \in {"refill", "taken"} => read'[d] <= Capacity
                         /\ pc'[d] \in {"forgiven", "changed"} => read'[d] <= Given'
  <2> SUFFICES ASSUME NEW d \in Callers
               PROVE  /\ pc'[d] \in {"refill", "taken"} => read'[d] <= Capacity
                      /\ pc'[d] \in {"forgiven", "changed"} => read'[d] <= Given'
    OBVIOUS
  <2>1. CASE d = c
    <3>1. pc'[d] = to /\ read'[d] = v
      BY <1>1, <1>2, <2>1 DEF LocalTypeOK
    <3> QED
      BY <1>4, <1>5, <3>1
  <2>2. CASE d # c
    <3>1. pc'[d] = pc[d] /\ read'[d] = read[d] /\ read[d] \in Int
      BY <1>1, <1>2, <2>2 DEF LocalTypeOK
    <3> QED
      BY <1>5, <3>1 DEF LocalBounds
  <2> QED
    BY <2>1, <2>2
<1> QED
  BY <1>5, <1>6, <1>7 DEF LocalBounds

\* A store brings a record what was loaded.
LEMMA StoreBounded ==
  ASSUME Typed, LocalBounds, NEW c \in Callers, NEW from \in Working, NEW to \in Working,
         to \notin {"refill", "taken", "forgiven", "change", "changed"},
         \/ Local!StoreTokens(c, from, to) /\ from \in {"refill", "taken"}
         \/ Local!StoreStrikes(c, from, to) /\ from \in {"forgiven", "changed"}
  PROVE  LocalBounds'
<1>1. /\ pc[c] = from /\ pc' = [pc EXCEPT ![c] = to]
      /\ UNCHANGED <<op, increased, read, allocated>>
      /\ \/ /\ tokens' = [tokens EXCEPT ![mine[c]] = read[c]] /\ strikes' = strikes
            /\ from \in {"refill", "taken"}
         \/ /\ strikes' = [strikes EXCEPT ![mine[c]] = read[c]] /\ tokens' = tokens
            /\ from \in {"forgiven", "changed"}
  BY DEF Local!StoreTokens, Local!StoreStrikes, Local!Go, Local!history
<1>2. LocalTypeOK /\ 1..allocated \subseteq 1..MaxCalls
  BY Numbered DEF Typed
<1>3. op' = [op EXCEPT ![c] = op[c]] /\ to \notin {"make", "find", "change"}
  BY <1>1, <1>2 DEF LocalTypeOK, Working, Holding
<1>4. c \notin Unloaded
  BY <1>1 DEF Unloaded
<1>5. /\ IsFiniteSet(Unloaded') /\ Given \in Nat /\ Given' \in Nat
      /\ Given <= Given'
  BY <1>1, <1>2, <1>3, GivenGrows
<1>6. \A r \in 1..allocated' : tokens'[r] <= Capacity /\ strikes'[r] <= Given'
  <2> SUFFICES ASSUME NEW r \in 1..allocated
               PROVE  tokens'[r] <= Capacity /\ strikes'[r] <= Given'
    BY <1>1
  <2>1. /\ tokens[r] <= Capacity /\ strikes[r] <= Given
        /\ strikes[r] \in Int /\ r \in 1..MaxCalls
    BY <1>2 DEF LocalBounds, LocalTypeOK
  <2>2. /\ read[c] \in Int
        /\ from \in {"refill", "taken"} => read[c] <= Capacity
        /\ from \in {"forgiven", "changed"} => read[c] <= Given
    BY <1>1, <1>2 DEF LocalBounds, LocalTypeOK
  <2>3. tokens'[r] \in {tokens[r], read[c]} /\ strikes'[r] \in {strikes[r], read[c]}
    BY <1>1, <1>2, <2>1 DEF LocalTypeOK
  <2>4. tokens'[r] <= Capacity
    BY <1>1, <1>2, <2>1, <2>2 DEF LocalTypeOK
  <2>5. strikes'[r] <= Given
    BY <1>1, <1>2, <2>1, <2>2 DEF LocalTypeOK
  <2> QED
    BY <1>5, <2>1, <2>2, <2>3, <2>4, <2>5
<1>7. \A d \in Callers : /\ pc'[d] \in {"refill", "taken"} => read'[d] <= Capacity
                         /\ pc'[d] \in {"forgiven", "changed"} => read'[d] <= Given'
  <2> SUFFICES ASSUME NEW d \in Callers
               PROVE  /\ pc'[d] \in {"refill", "taken"} => read[d] <= Capacity
                      /\ pc'[d] \in {"forgiven", "changed"} => read[d] <= Given'
    BY <1>1
  <2>1. CASE d = c
    BY <1>1, <1>2, <2>1 DEF LocalTypeOK
  <2>2. CASE d # c
    <3>1. pc'[d] = pc[d] /\ read[d] \in Int
      BY <1>1, <1>2, <2>2 DEF LocalTypeOK
    <3> QED
      BY <1>5, <3>1 DEF LocalBounds
  <2> QED
    BY <2>1, <2>2
<1> QED
  BY <1>5, <1>6, <1>7 DEF LocalBounds

\* The other steps change no record but a new one, which has no strikes.
LEMMA OtherBounded ==
  ASSUME Typed, LocalBounds, NEW c \in Callers,
         \/ \E o \in Local!Operations : Local!Begin(c, o)
         \/ Local!Make(c) \/ Local!Find(c) \/ Local!Clock(c)
         \/ Local!Validate(c) \/ Local!Put(c)
  PROVE  LocalBounds'
<1> USE DEF Local!Go, Local!history, Local!fields, Local!None
<1>1. PICK s, o : /\ pc' = [pc EXCEPT ![c] = s] /\ op' = [op EXCEPT ![c] = o]
                  /\ s \notin {"refill", "taken", "forgiven", "changed"}
                  /\ \/ increased' = increased
                        /\ (o = "Increase" /\ s \in {"make", "find", "change"}
                              => c \in Unloaded)
                     \/ increased' = increased + 1
  <2>1. op = [op EXCEPT ![c] = op[c]]
    BY DEF Typed, LocalTypeOK
  <2>2. ASSUME NEW o \in Local!Operations, Local!Begin(c, o)
        PROVE  /\ \E s \in {"make", "find"} : pc' = [pc EXCEPT ![c] = s]
               /\ op' = [op EXCEPT ![c] = o]
               /\ IF o = "Increase" THEN increased' = increased + 1
                                    ELSE increased' = increased
    BY <2>2 DEF Local!Begin
  <2>3. CASE Local!Make(c)
    BY <2>1, <2>3 DEF Local!Make, Unloaded
  <2>4. CASE Local!Find(c)
    <3>1. PICK s \in {"clock", "idle", "validate", "change"} : pc' = [pc EXCEPT ![c] = s]
      BY <2>4 DEF Local!Find
    <3> QED
      BY <2>1, <2>4, <3>1 DEF Local!Find, Unloaded
  <2>5. CASE Local!Clock(c)
    <3>1. PICK s \in {"put", "delta"} : pc' = [pc EXCEPT ![c] = s]
      BY <2>5 DEF Local!Clock
    <3> QED
      BY <2>1, <2>5, <3>1 DEF Local!Clock
  <2>6. CASE Local!Validate(c)
    BY <2>1, <2>6 DEF Local!Validate
  <2>7. CASE Local!Put(c)
    <3>1. /\ pc' = [pc EXCEPT ![c] = "idle"]
          /\ op' = [op EXCEPT ![c] = "CreateCookie"] /\ increased' = increased
      BY <2>7 DEF Local!Put
    <3> WITNESS "idle", "CreateCookie"
    <3> QED
      BY <3>1
  <2> QED
    BY <2>2, <2>3, <2>4, <2>5, <2>6, <2>7
<1>2. LocalTypeOK /\ 1..allocated \subseteq 1..MaxCalls
  BY Numbered DEF Typed
<1>3. /\ IsFiniteSet(Unloaded') /\ Given \in Nat /\ Given' \in Nat
      /\ Given <= Given'
  BY <1>1, <1>2, GivenGrows
<1>4. \A r \in 1..allocated' : tokens'[r] <= Capacity /\ strikes'[r] <= Given'
  <2>1. \A r \in 1..allocated : /\ tokens[r] <= Capacity /\ strikes[r] <= Given'
                                /\ tokens[r] \in Int /\ strikes[r] \in Int
    <3> SUFFICES ASSUME NEW r \in 1..allocated
                 PROVE  /\ tokens[r] <= Capacity /\ strikes[r] <= Given'
                        /\ tokens[r] \in Int /\ strikes[r] \in Int
      OBVIOUS
    <3>1. tokens[r] <= Capacity /\ strikes[r] <= Given /\ r \in 1..MaxCalls
      BY <1>2 DEF LocalBounds
    <3>2. tokens[r] \in Int /\ strikes[r] \in Int
      BY <1>2, <3>1 DEF LocalTypeOK
    <3> QED
      BY <1>3, <3>1, <3>2
  <2>2. CASE UNCHANGED <<tokens, strikes, allocated>>
    BY <2>1, <2>2
  <2>3. CASE Local!Clock(c) /\ Local!Allocate(c)
    <3>1. allocated' = allocated + 1 /\ allocated \in Nat
      BY <1>2, <2>3 DEF Local!Allocate, LocalTypeOK
    <3>2. allocated + 1 \in 1..MaxCalls
      BY <2>3, <3>1, RoomForOne, Constants DEF Local!Clock, Typed
    <3>3. \E z \in {-1, 0} : strikes' = [strikes EXCEPT ![allocated + 1] = z]
      BY <2>3, <3>1 DEF Local!Allocate, Local!Start
    <3>4. tokens' = [tokens EXCEPT ![allocated + 1] = Capacity]
      BY <2>3, <3>1 DEF Local!Allocate
    <3> SUFFICES ASSUME NEW r \in 1..(allocated + 1)
                 PROVE  tokens'[r] <= Capacity /\ strikes'[r] <= Given'
      BY <3>1
    <3>5. CASE r = allocated + 1
      BY <1>2, <1>3, <3>2, <3>3, <3>4, <3>5, Constants DEF LocalTypeOK
    <3>6. CASE r \in 1..allocated /\ r # allocated + 1
      BY <1>2, <2>1, <3>3, <3>4, <3>6 DEF LocalTypeOK
    <3> QED
      BY <3>1, <3>5, <3>6
  <2> QED
    BY <2>2, <2>3 DEF Local!Begin, Local!Make, Local!Find, Local!Clock,
                      Local!Validate, Local!Put
<1>5. \A d \in Callers : /\ pc'[d] \in {"refill", "taken"} => read'[d] <= Capacity
                         /\ pc'[d] \in {"forgiven", "changed"} => read'[d] <= Given'
  <2> SUFFICES ASSUME NEW d \in Callers
               PROVE  /\ pc'[d] \in {"refill", "taken"} => read'[d] <= Capacity
                      /\ pc'[d] \in {"forgiven", "changed"} => read'[d] <= Given'
    OBVIOUS
  <2>1. CASE d = c
    BY <1>1, <1>2, <2>1 DEF LocalTypeOK
  <2>2. CASE d # c
    <3>1. pc'[d] = pc[d]
      BY <1>1, <1>2, <2>2 DEF LocalTypeOK
    <3>2. read'[d] = read[d] /\ read[d] \in Int
      BY <1>2, <2>2 DEF Local!Begin, Local!Make, Local!Find, Local!Clock,
                        Local!Validate, Local!Put, LocalTypeOK
    <3> QED
      BY <1>3, <3>1, <3>2 DEF LocalBounds
  <2> QED
    BY <2>1, <2>2
<1> QED
  BY <1>3, <1>4, <1>5 DEF LocalBounds

\* Every step of a goroutine keeps types and bounds.
LEMMA LocalStep ==
  ASSUME Typed, LocalBounds, NEW c \in Callers,
         \/ \E o \in Local!Operations : Local!Begin(c, o)
         \/ Local!Make(c) \/ Local!Find(c) \/ Local!Clock(c) \/ Local!Refill(c)
         \/ Local!Take(c) \/ Local!Forgive(c) \/ Local!Change(c)
         \/ Local!Validate(c) \/ Local!Put(c)
  PROVE  Typed' /\ LocalBounds'
<1>1. LocalTypeOK /\ SettingOK /\ Pointers /\ Capacity \in Nat
  BY Constants DEF Typed
<1>2. pc[c] \in Working => /\ mine[c] \in 1..allocated
                           /\ tokens[mine[c]] \in Int /\ tokens[mine[c]] <= Capacity
                           /\ strikes[mine[c]] \in Int /\ strikes[mine[c]] <= Given
                           /\ Given \in Int /\ 0 <= Given
                           /\ read[c] \in Int
  <2> SUFFICES ASSUME pc[c] \in Working
               PROVE  /\ mine[c] \in 1..allocated
                      /\ tokens[mine[c]] \in Int /\ tokens[mine[c]] <= Capacity
                      /\ strikes[mine[c]] \in Int /\ strikes[mine[c]] <= Given
                      /\ Given \in Int /\ 0 <= Given
                      /\ read[c] \in Int
    OBVIOUS
  <2>1. mine[c] \in 1..allocated /\ mine[c] \in 1..MaxCalls
    BY <1>1, Numbered DEF Typed, LocalTypeOK, Pointers, Working
  <2>2. Given \in Int
    BY <1>1, FS_CardinalityType DEF Given, LocalTypeOK, LocalBounds
  <2> QED
    BY <1>1, <2>1, <2>2 DEF LocalBounds, LocalTypeOK
<1>3. ASSUME NEW o \in Local!Operations, Local!Begin(c, o) PROVE Typed' /\ LocalBounds'
  BY <1>3, BeginTyped, OtherBounded
<1>4. CASE Local!Make(c) \/ Local!Find(c) \/ Local!Validate(c) \/ Local!Put(c)
  BY <1>4, LookupTyped, OtherBounded
<1>5. CASE Local!Clock(c)
  BY <1>5, ClockTyped, OtherBounded
<1>6. CASE Local!Refill(c)
  <2>1. CASE Local!StoreTokens(c, "refill", "check")
    BY <2>1, StoreTokensTyped, StoreBounded DEF Working, Holding
  <2>2. CASE stamp[c] > timestamp[mine[c]] /\ Local!Load(c, "delta", Local!Refilled(c), "refill")
    <3>1. pc[c] \in Holding
      BY <2>2 DEF Local!Load, Holding
    <3>2. Local!Refilled(c) \in Int /\ Local!Refilled(c) <= Capacity
      BY <1>1, <2>2, <3>1, RefilledIsBounded, Numbered, Constants DEF Typed
    <3> QED
      BY <2>2, <3>2, LoadTyped, LoadBounded DEF Working, Holding
  <2>3. CASE Local!Load(c, "delta", read[c], "check")
    <3>1. read[c] \in Int
      BY <1>1 DEF LocalTypeOK
    <3> QED
      BY <2>3, <3>1, LoadTyped, LoadBounded DEF Working, Holding
  <2> QED
    BY <1>6, <2>1, <2>2, <2>3 DEF Local!Refill
<1>7. CASE Local!Take(c)
  <2> DEFINE next == IF tokens[mine[c]] >= 1 THEN "take" ELSE "put"
  <2>1. pc[c] \in Working
    BY <1>7 DEF Local!Take, Local!Load, Local!StoreTokens, Working, Holding
  <2>2. CASE Local!Load(c, "check", tokens[mine[c]], next)
    BY <1>2, <2>1, <2>2, LoadTyped, LoadBounded DEF Working, Holding
  <2>3. CASE Local!Load(c, "take", tokens[mine[c]] - 1, "taken")
    <3>1. tokens[mine[c]] - 1 \in Int /\ tokens[mine[c]] - 1 <= Capacity
      BY <1>1, <1>2, <2>1
    <3> QED
      BY <2>3, <3>1, LoadTyped, LoadBounded DEF Working, Holding
  <2>4. CASE \E to \in {"struck", "put"} : Local!StoreTokens(c, "taken", to)
    BY <2>4, StoreTokensTyped, StoreBounded DEF Working, Holding
  <2> QED
    BY <1>7, <2>2, <2>3, <2>4 DEF Local!Take
<1>8. CASE Local!Forgive(c)
  <2> DEFINE next == IF strikes[mine[c]] > 0 THEN "forgive" ELSE "put"
  <2>1. pc[c] \in Working
    BY <1>8 DEF Local!Forgive, Local!Load, Local!StoreStrikes, Working, Holding
  <2>2. CASE Local!Load(c, "struck", strikes[mine[c]], next)
    BY <1>2, <2>1, <2>2, LoadTyped, LoadBounded DEF Working, Holding
  <2>3. CASE Local!Load(c, "forgive", strikes[mine[c]] - 1, "forgiven")
    <3>1. strikes[mine[c]] - 1 \in Int /\ strikes[mine[c]] - 1 <= Given
      BY <1>2, <2>1
    <3> QED
      BY <2>3, <3>1, LoadTyped, LoadBounded DEF Working, Holding
  <2>4. CASE Local!StoreStrikes(c, "forgiven", "put")
    BY <2>4, StoreStrikesTyped, StoreBounded DEF Working, Holding
  <2> QED
    BY <1>8, <2>2, <2>3, <2>4 DEF Local!Forgive
<1>9. CASE Local!Change(c)
  <2> DEFINE v == IF op[c] = "Increase" THEN strikes[mine[c]] + 1 ELSE 0
  <2>1. pc[c] \in Working
    BY <1>9 DEF Local!Change, Local!Load, Local!StoreStrikes, Working, Holding
  <2>2. CASE Local!Load(c, "change", v, "changed")
    <3>1. v \in Int /\ v <= IF op[c] = "Increase" THEN Given + 1 ELSE Given
      BY <1>2, <2>1
    <3> QED
      BY <2>2, <3>1, LoadTyped, LoadBounded DEF Working, Holding
  <2>3. CASE Local!StoreStrikes(c, "changed", "put")
    BY <2>3, StoreStrikesTyped, StoreBounded DEF Working, Holding
  <2> QED
    BY <1>9, <2>2, <2>3 DEF Local!Change
<1> QED
  BY <1>3, <1>4, <1>5, <1>6, <1>7, <1>8, <1>9

-----------------------------------------------------------------------------
(* The valkey table: one command or one run of the script.                    *)

\* A command that sets the strikes alone.
LEMMA SetStrikes ==
  ASSUME ValkeyTypeOK, ValkeyBounds, SettingOK, NEW n \in Int,
         DOMAIN hash' = DOMAIN hash \cup {"strikes"},
         hash' = [f \in DOMAIN hash' |-> hash'[f]],
         hash'["strikes"] = n,
         \A f \in DOMAIN hash : f # "strikes" => hash'[f] = hash[f],
         UNCHANGED <<rate, paid, asked, expires>>, n <= struck',
         commands' \in Nat, struck' \in Nat
  PROVE  ValkeyTypeOK' /\ ValkeyBounds'
<1>1. \A f \in DOMAIN hash' : hash'[f] \in Int
  BY DEF ValkeyTypeOK
<1>2. hash' \in [DOMAIN hash' -> Int]
  BY <1>1
<1>3. ValkeyTypeOK'
  BY <1>2 DEF ValkeyTypeOK
<1>4. ValkeyBounds'
  BY DEF ValkeyBounds, Valkey!Get
<1> QED
  BY <1>3, <1>4

\* A run of the script: it finds no more tokens than the capacity, and with a
\* rate below one no more than there were.
LEMMA ScriptStep ==
  ASSUME ValkeyTypeOK, ValkeyBounds, SettingOK, NEW c \in Callers, Valkey!Script(c)
  PROVE  ValkeyTypeOK' /\ ValkeyBounds'
<1> DEFINE had       == Valkey!Get("tokens", Capacity)
           delta     == IF "tokens" \in DOMAIN hash
                        THEN asked[c] - Valkey!Get("timestamp", 0) ELSE 0
           available == IF delta > 0
                        THEN Valkey!Min({Capacity, had + Valkey!Refill(delta)}) ELSE had
           allowed   == available >= 1
           given     == Valkey!Get("strikes", 0)
           left      == IF allowed THEN available - 1 ELSE available
           strikesLeft == IF allowed /\ given > 0 THEN given - 1 ELSE given
<1>1. /\ Capacity \in Nat /\ Second \in Nat \ {0} /\ paid \in Nat /\ struck \in Nat
      /\ commands \in Nat /\ rate[1] \in Nat /\ rate[2] \in Nat \ {0}
      /\ now \in Nat /\ Day \in Nat
  BY Constants DEF ValkeyTypeOK, SettingOK
<1>2. /\ had \in 0..Capacity
      /\ rate[1] < rate[2] => paid + had <= Capacity
      /\ given \in Int /\ given <= struck
      /\ asked[c] \in Int /\ delta \in Int
  <2>1. /\ \A f \in DOMAIN hash : hash[f] \in Int
        /\ asked[c] \in Int
    BY DEF ValkeyTypeOK
  <2> QED
    BY <1>1, <2>1 DEF ValkeyBounds, Valkey!Get
<1>3. /\ Valkey!WholeRate \in Nat
      /\ rate[1] < rate[2] => Valkey!WholeRate = 0
  BY <1>1, SMTT(60) DEF Valkey!WholeRate
<1>4. /\ available \in 0..Capacity
      /\ rate[1] < rate[2] => available = had
  <2>1. CASE ~(delta > 0)
    BY <1>2, <2>1
  <2>2. CASE delta > 0
    <3> DEFINE refill == Valkey!Refill(delta)
    <3>1. delta \in Nat
      BY <1>2, <2>2
    <3> HIDE DEF delta
    <3>2. delta * Valkey!WholeRate \in Nat
      BY <1>3, <3>1
    <3>3. refill \in Nat
      BY <1>1, <3>2, Quotient DEF Valkey!Refill
    <3>4. rate[1] < rate[2] => refill = 0
      <4> SUFFICES ASSUME rate[1] < rate[2] PROVE refill = 0
        OBVIOUS
      <4>1. delta * Valkey!WholeRate = 0
        BY <1>3, <3>1
      <4>2. 0 \div Second = 0
        BY <1>1, SMTT(60)
      <4> QED
        BY <4>1, <4>2 DEF Valkey!Refill
    <3> HIDE DEF refill, had
    <3>5. had + refill \in Int /\ Capacity \in Int
      BY <1>1, <1>2, <3>3
    <3>6. Valkey!Min({Capacity, had + refill})
            = IF Capacity <= had + refill THEN Capacity ELSE had + refill
      BY <3>5, MinOfTwo
    <3>7. available = IF Capacity <= had + refill THEN Capacity ELSE had + refill
      BY <2>2, <3>6 DEF refill
    <3> QED
      BY <1>1, <1>2, <3>3, <3>4, <3>7
  <2> QED
    BY <2>1, <2>2
<1>5. /\ hash' = [f \in DOMAIN hash \cup {"tokens", "timestamp", "strikes"} |->
                    IF f \in {"tokens", "timestamp", "strikes"}
                    THEN CASE f = "tokens"    -> left
                           [] f = "timestamp" -> asked[c]
                           [] f = "strikes"   -> strikesLeft
                    ELSE hash[f]]
      /\ paid' = IF allowed THEN paid + 1 ELSE paid
      /\ expires' = now + Day
      /\ asked' = [asked EXCEPT ![c] = -1]
      /\ UNCHANGED <<rate, commands, struck>>
  BY DEF Valkey!Script, Valkey!Hmset, Valkey!Fields, Valkey!setting, Valkey!Idle
<1> HIDE DEF had, delta, available, given
<1>6. DOMAIN hash \cup {"tokens", "timestamp", "strikes"} = {"tokens", "timestamp", "strikes"}
  BY DEF ValkeyTypeOK
<1>7. /\ DOMAIN hash' = {"tokens", "timestamp", "strikes"}
      /\ hash'["tokens"] = left
      /\ hash'["timestamp"] = asked[c]
      /\ hash'["strikes"] = strikesLeft
  <2> HIDE DEF left, strikesLeft
  <2> QED
    BY <1>5, <1>6
<1>8. left \in 0..Capacity /\ strikesLeft \in Int /\ strikesLeft <= struck
  BY <1>1, <1>2, <1>4
<1>9. ValkeyTypeOK'
  <2>1. hash' = [f \in DOMAIN hash' |-> hash'[f]]
    BY <1>5
  <2>2. \A f \in DOMAIN hash' : hash'[f] \in Int
    BY <1>1, <1>2, <1>7, <1>8
  <2>3. hash' \in [DOMAIN hash' -> Int]
    BY <2>1, <2>2
  <2>4. expires' \in Int /\ asked' \in [Callers -> Int] /\ paid' \in Nat
    BY <1>1, <1>5 DEF ValkeyTypeOK
  <2> QED
    BY <1>1, <1>5, <1>7, <2>3, <2>4 DEF ValkeyTypeOK
<1>10. ValkeyBounds'
  <2>1. /\ Valkey!Get("tokens", 0)' = left
        /\ Valkey!Get("tokens", Capacity)' = left
        /\ Valkey!Get("strikes", 0)' = strikesLeft
    BY <1>7 DEF Valkey!Get
  <2>2. rate[1] < rate[2] => paid' + left <= Capacity
    BY <1>1, <1>2, <1>4, <1>5
  <2> QED
    BY <1>5, <1>8, <2>1, <2>2 DEF ValkeyBounds
<1> QED
  BY <1>9, <1>10

\* Every command keeps types and bounds.
LEMMA ValkeyStep ==
  ASSUME ValkeyTypeOK, ValkeyBounds, SettingOK, Valkey!Next
  PROVE  ValkeyTypeOK' /\ ValkeyBounds'
<1> USE DEF Valkey!setting
<1>1. /\ commands \in Nat /\ struck \in Nat
      /\ Valkey!Get("strikes", 0) \in Int /\ Valkey!Get("strikes", 0) <= struck
  BY DEF ValkeyTypeOK, ValkeyBounds, Valkey!Get
<1>2. CASE Valkey!CreateCookie
  <2>1. /\ DOMAIN hash' = DOMAIN hash \cup {"strikes"}
        /\ hash' = [f \in DOMAIN hash' |-> hash'[f]]
        /\ hash'["strikes"] = 0 - 1
        /\ \A f \in DOMAIN hash : f # "strikes" => hash'[f] = hash[f]
    BY <1>2 DEF Valkey!CreateCookie, Valkey!Hmset
  <2>2. /\ UNCHANGED <<rate, paid, asked, expires>>
        /\ commands' = commands + 1 /\ struck' = struck
    BY <1>2 DEF Valkey!CreateCookie, Valkey!Command
  <2>3. 0 - 1 \in Int /\ 0 - 1 <= struck' /\ commands' \in Nat /\ struck' \in Nat
    BY <1>1, <2>2
  <2> QED
    BY <2>1, <2>2, <2>3, SetStrikes
<1>3. CASE Valkey!ResetStrikes
  <2>1. /\ DOMAIN hash' = DOMAIN hash \cup {"strikes"}
        /\ hash' = [f \in DOMAIN hash' |-> hash'[f]]
        /\ hash'["strikes"] = 0
        /\ \A f \in DOMAIN hash : f # "strikes" => hash'[f] = hash[f]
    BY <1>3 DEF Valkey!ResetStrikes, Valkey!Hmset
  <2>2. /\ UNCHANGED <<rate, paid, asked, expires>>
        /\ commands' = commands + 1 /\ struck' = struck
    BY <1>3 DEF Valkey!ResetStrikes, Valkey!Command
  <2>3. 0 \in Int /\ 0 <= struck' /\ commands' \in Nat /\ struck' \in Nat
    BY <1>1, <2>2
  <2> QED
    BY <2>1, <2>2, <2>3, SetStrikes
<1>4. CASE Valkey!Increase
  <2>1. /\ DOMAIN hash' = DOMAIN hash \cup {"strikes"}
        /\ hash' = [f \in DOMAIN hash' |-> hash'[f]]
        /\ hash'["strikes"] = Valkey!Get("strikes", 0) + 1
        /\ \A f \in DOMAIN hash : f # "strikes" => hash'[f] = hash[f]
    BY <1>4 DEF Valkey!Increase, Valkey!Hmset
  <2>2. /\ UNCHANGED <<rate, paid, asked, expires>>
        /\ commands' = commands + 1 /\ struck' = struck + 1
    BY <1>4 DEF Valkey!Increase, Valkey!Command
  <2>3. Valkey!Get("strikes", 0) + 1 \in Int /\ Valkey!Get("strikes", 0) + 1 <= struck' /\ commands' \in Nat /\ struck' \in Nat
    BY <1>1, <2>2
  <2> QED
    BY <2>1, <2>2, <2>3, SetStrikes
<1>5. CASE Valkey!Expire
  <2>1. /\ DOMAIN hash' = {} /\ hash' \in [DOMAIN hash' -> Int]
        /\ expires' = -1 /\ paid' = 0
        /\ UNCHANGED <<rate, asked, commands, struck>>
    BY <1>5 DEF Valkey!Expire, Valkey!Empty, Valkey!Never
  <2>2. ValkeyTypeOK'
    BY <2>1 DEF ValkeyTypeOK
  <2>3. ValkeyBounds'
    BY <1>1, <2>1, Constants DEF ValkeyBounds, Valkey!Get
  <2> QED
    BY <2>2, <2>3
<1>6. ASSUME NEW c \in Callers, Valkey!ReadClock(c) \/ Valkey!Abandon(c)
      PROVE  ValkeyTypeOK' /\ ValkeyBounds'
  <2>1. /\ UNCHANGED <<rate, hash, expires, struck, paid>>
        /\ commands' \in Nat /\ asked' \in [Callers -> Int]
    BY <1>1, <1>6 DEF Valkey!ReadClock, Valkey!Abandon, Valkey!Command, Valkey!Idle,
                      Valkey!history, ValkeyTypeOK, SettingOK
  <2> QED
    BY <2>1 DEF ValkeyTypeOK, ValkeyBounds, Valkey!Get
<1>7. ASSUME NEW c \in Callers, Valkey!Script(c) PROVE ValkeyTypeOK' /\ ValkeyBounds'
  BY <1>7, ScriptStep
<1> QED
  BY <1>2, <1>3, <1>4, <1>5, <1>6, <1>7 DEF Valkey!Next

-----------------------------------------------------------------------------
(* The store: either table, and the clock.                                    *)

\* A goroutine's steps do not touch the setting.
LEMMA LocalSetting ==
  ASSUME Local!Next PROVE UNCHANGED <<table, rate, now>>
  BY DEF Local!Next, Local!Begin, Local!Make, Local!Find, Local!Clock, Local!Refill,
         Local!Take, Local!Forgive, Local!Change, Local!Validate, Local!Put,
         Local!Load, Local!StoreTokens, Local!StoreStrikes, Local!setting

\* A step of the program is a step of the one table or of the clock.
LEMMA NextIInv == IInv /\ [Next]_vars => IInv'
<1> SUFFICES ASSUME IInv, [Next]_vars PROVE IInv'
  OBVIOUS
<1>1. Typed /\ LocalBounds /\ ValkeyTypeOK /\ ValkeyBounds
  BY DEF IInv, Typed
<1>2. CASE Tick \/ UNCHANGED vars
  <2>1. /\ now' \in Nat /\ UNCHANGED <<table, rate>>
        /\ UNCHANGED <<made, record, tokens, timestamp, strikes, allocated,
                       pc, op, mine, read, stamp, calls, increased, overlapped, due>>
        /\ UNCHANGED <<hash, expires, asked, commands, struck, paid>>
    BY <1>1, <1>2 DEF Tick, vars, localState, valkeyState, Typed, SettingOK
  <2>2. SettingOK'
    BY <1>1, <2>1 DEF Typed, SettingOK
  <2>3. LocalTypeOK' /\ Pointers' /\ Room' /\ LocalBounds'
    BY <1>1, <2>1 DEF Typed, LocalTypeOK, Pointers, Room, Unallocated,
                      LocalBounds, Unloaded, Given
  <2>4. ValkeyTypeOK' /\ ValkeyBounds'
    BY <1>1, <2>1 DEF ValkeyTypeOK, ValkeyBounds, Valkey!Get
  <2> QED
    BY <2>2, <2>3, <2>4 DEF IInv
<1>3. CASE Local!Next /\ UNCHANGED valkeyState
  <2>1. Typed' /\ LocalBounds'
    BY <1>1, <1>3, LocalStep DEF Local!Next
  <2>2. UNCHANGED <<rate, hash, expires, asked, commands, struck, paid>>
    BY <1>3, LocalSetting DEF valkeyState
  <2>3. ValkeyTypeOK' /\ ValkeyBounds'
    BY <1>1, <2>2 DEF ValkeyTypeOK, ValkeyBounds, Valkey!Get
  <2> QED
    BY <2>1, <2>3 DEF IInv, Typed
<1>4. CASE Valkey!Next /\ UNCHANGED <<table, localState>>
  <2>1. ValkeyTypeOK' /\ ValkeyBounds'
    BY <1>1, <1>4, ValkeyStep DEF Typed
  <2>2. UNCHANGED <<table, rate, now>>
    BY <1>4 DEF Valkey!Next, Valkey!CreateCookie, Valkey!ResetStrikes, Valkey!Increase,
                Valkey!Expire, Valkey!ReadClock, Valkey!Script, Valkey!Abandon, Valkey!setting
  <2>3. UNCHANGED <<made, record, tokens, timestamp, strikes, allocated,
                    pc, op, mine, read, stamp, calls, increased, overlapped, due>>
    BY <1>4 DEF localState
  <2>4. SettingOK' /\ LocalTypeOK' /\ Pointers' /\ Room' /\ LocalBounds'
    BY <1>1, <2>2, <2>3 DEF Typed, SettingOK, LocalTypeOK, Pointers, Room, Unallocated,
                            LocalBounds, Unloaded, Given
  <2> QED
    BY <2>1, <2>4 DEF IInv
<1> QED
  BY <1>2, <1>3, <1>4 DEF Next

\* A store starts in the invariant.
LEMMA InitIInv == Init => IInv
<1> SUFFICES ASSUME Init PROVE IInv
  OBVIOUS
<1>1. SettingOK
  BY KeyValueAssumption DEF Init, SettingOK
<1>2. /\ made = FALSE /\ record = 0 /\ allocated = 0
      /\ calls = 0 /\ increased = 0 /\ overlapped = FALSE /\ due = 0
  BY DEF Init, Local!Init, Local!None
<1>3. LocalTypeOK
  <2>1. pc \in [Callers -> Stages] /\ op \in [Callers -> Calls]
    BY DEF Init, Local!Init, Stages, Calls
  <2>2. /\ tokens \in [1..MaxCalls -> Int] /\ timestamp \in [1..MaxCalls -> Nat]
        /\ strikes \in [1..MaxCalls -> Int]
    BY DEF Init, Local!Init, Local!Records
  <2>3. /\ mine \in [Callers -> 0..allocated] /\ read \in [Callers -> Int]
        /\ stamp \in [Callers -> Nat]
    BY <1>2 DEF Init, Local!Init, Local!None
  <2> QED
    BY <1>2, <2>1, <2>2, <2>3, Constants DEF LocalTypeOK
<1>4. \A c \in Callers : pc[c] = "idle"
  BY DEF Init, Local!Init
<1>5. Pointers
  BY <1>4 DEF Pointers, Holding
<1>6. Unallocated = {} /\ Unloaded = {}
  BY <1>4 DEF Unallocated, Unloaded
<1>7. Room /\ LocalBounds
  BY <1>2, <1>4, <1>6, FS_EmptySet DEF Room, LocalBounds, Given
<1>8. DOMAIN hash = {} /\ expires = -1 /\ commands = 0 /\ struck = 0 /\ paid = 0
      /\ hash = [f \in DOMAIN hash |-> hash[f]]
  BY DEF Init, Valkey!Init, Valkey!Empty, Valkey!Never
<1>9. ValkeyTypeOK
  <2>1. asked \in [Callers -> Int]
    BY DEF Init, Valkey!Init, Valkey!Idle
  <2> QED
    BY <1>8, <2>1 DEF ValkeyTypeOK
<1>10. ValkeyBounds
  BY <1>8, Constants DEF ValkeyBounds, Valkey!Get
<1> QED
  BY <1>1, <1>3, <1>5, <1>7, <1>9, <1>10 DEF IInv

\* The invariant holds in every state of every behaviour.
THEOREM Invariance == Spec => []IInv
  BY InitIInv, NextIInv, PTL DEF Spec

\* However the goroutines interleave, no record holds more tokens than the
\* capacity or more strikes than were given.
THEOREM NothingIsInvented == Spec => []NothingInvented
<1>1. IInv => NothingInvented
  <2> SUFFICES ASSUME IInv PROVE NothingInvented
    OBVIOUS
  <2>1. Cardinality(Unloaded) \in Nat /\ increased \in Nat
    BY FS_CardinalityType DEF IInv, LocalBounds, LocalTypeOK
  <2>2. Given <= increased /\ Given \in Int
    BY <2>1 DEF Given
  <2>3. \A r \in 1..allocated : tokens[r] <= Capacity /\ strikes[r] <= increased
    <3> SUFFICES ASSUME NEW r \in 1..allocated
                 PROVE  tokens[r] <= Capacity /\ strikes[r] <= increased
      OBVIOUS
    <3>1. strikes[r] \in Int
      BY Numbered DEF IInv, LocalTypeOK
    <3> QED
      BY <2>1, <2>2, <3>1 DEF IInv, LocalBounds
  <2> QED
    BY <2>3 DEF IInv, ValkeyBounds, NothingInvented
<1> QED
  BY <1>1, Invariance, PTL

\* With a rate below one the valkey table hands out its capacity and no more
\* until the key has expired.
THEOREM FractionsAreLost == Spec => []FractionNeverRefills
<1>1. IInv => FractionNeverRefills
  <2> SUFFICES ASSUME IInv, rate[1] < rate[2] PROVE paid <= Capacity
    BY DEF FractionNeverRefills
  <2>1. paid \in Nat /\ Capacity \in Nat
    BY Constants DEF IInv, ValkeyTypeOK
  <2>2. paid + Valkey!Get("tokens", Capacity) <= Capacity
    BY DEF IInv, ValkeyBounds
  <2>3. Valkey!Get("tokens", Capacity) \in Nat
    BY <2>1 DEF IInv, ValkeyBounds, Valkey!Get
  <2> QED
    BY <2>1, <2>2, <2>3
<1> QED
  BY <1>1, Invariance, PTL

-----------------------------------------------------------------------------
(* The in-memory tables while no two calls were ever under way at once.       *)

\* No caller but c is in a call.
Solo(c) == \A d \in Callers \ {c} : pc[d] = "idle"

\* The step that c takes, of a call under way.
Steps(c) == \/ Local!Make(c) \/ Local!Find(c) \/ Local!Clock(c) \/ Local!Refill(c)
            \/ Local!Take(c) \/ Local!Forgive(c) \/ Local!Change(c)
            \/ Local!Validate(c) \/ Local!Put(c)

\* It is of that caller alone, and leaves open whether calls overlapped.
LEMMA StepsFrame ==
  ASSUME Typed, NEW c \in Callers, Steps(c)
  PROVE  /\ pc[c] # "idle"
         /\ \A d \in Callers \ {c} : pc'[d] = pc[d] /\ op'[d] = op[d]
         /\ overlapped' = overlapped
<1> USE DEF Local!Go, Local!history
<1>1. pc[c] # "idle" /\ overlapped' = overlapped
  BY DEF Steps, Local!Make, Local!Find, Local!Clock, Local!Refill,
         Local!Take, Local!Forgive, Local!Change, Local!Validate, Local!Put,
         Local!Load, Local!StoreTokens, Local!StoreStrikes
<1>2. \A d \in Callers \ {c} : pc'[d] = pc[d]
  <2>1. \E s : pc' = [pc EXCEPT ![c] = s]
    <3>1. CASE Local!Make(c) \/ Local!Find(c) \/ Local!Clock(c)
      BY <3>1, Zenon DEF Local!Make, Local!Find, Local!Clock
    <3>2. CASE Local!Validate(c) \/ Local!Put(c)
      BY <3>2, Zenon DEF Local!Validate, Local!Put
    <3>3. CASE Local!Refill(c)
      BY <3>3, Zenon DEF Local!Refill, Local!Load, Local!StoreTokens
    <3>4. CASE Local!Take(c)
      BY <3>4, Zenon DEF Local!Take, Local!Load, Local!StoreTokens
    <3>5. CASE Local!Forgive(c) \/ Local!Change(c)
      BY <3>5, Zenon DEF Local!Forgive, Local!Change, Local!Load, Local!StoreStrikes
    <3> QED
      BY <3>1, <3>2, <3>3, <3>4, <3>5 DEF Steps
  <2> QED
    BY <2>1 DEF Typed, LocalTypeOK
<1>3. \A d \in Callers \ {c} : op'[d] = op[d]
  <2>1. op' = op \/ \E o : op' = [op EXCEPT ![c] = o]
    BY Zenon DEF Steps, Local!Make, Local!Find, Local!Clock, Local!Refill,
         Local!Take, Local!Forgive, Local!Change, Local!Validate, Local!Put,
         Local!Load, Local!StoreTokens, Local!StoreStrikes
  <2> QED
    BY <2>1 DEF Typed, LocalTypeOK
<1> QED
  BY <1>1, <1>2, <1>3

\* Before there is a map there is no record, and no call that could find one.
LEMMA MapFirstStep ==
  ASSUME Typed, MapFirst, NEW c \in Callers,
         Steps(c) \/ \E o \in Local!Operations : Local!Begin(c, o)
  PROVE  MapFirst'
<1> USE DEF Local!Go, Local!None
<1>1. CASE made
  <2>1. made'
    BY <1>1 DEF Steps, Local!Begin, Local!Make, Local!Find, Local!Clock, Local!Refill,
         Local!Take, Local!Forgive, Local!Change, Local!Validate, Local!Put,
         Local!Load, Local!StoreTokens, Local!StoreStrikes
  <2> QED
    BY <2>1 DEF MapFirst
<1>2. ASSUME ~made, NEW o \in Local!Operations, Local!Begin(c, o) PROVE MapFirst'
  <2>1. record' = 0
    BY <1>2 DEF MapFirst, Local!Begin
  <2>2. o \in Local!MakesMap \/ o \in {"Increase", "ResetStrikes"}
    BY DEF Local!MakesMap, Local!Operations
  <2>3. op' = [op EXCEPT ![c] = o]
    BY <1>2 DEF Local!Begin
  <2>4. /\ o \in Local!MakesMap => pc' = [pc EXCEPT ![c] = "make"]
        /\ o \notin Local!MakesMap => pc' = [pc EXCEPT ![c] = "find"]
    BY <1>2 DEF Local!Begin
  <2> QED
    BY <1>2, <2>1, <2>2, <2>3, <2>4 DEF MapFirst, Typed, LocalTypeOK
<1>3. CASE ~made /\ Steps(c)
  <2>1. /\ record = 0
        /\ pc[c] = "make" \/ (pc[c] = "find" /\ op[c] \in {"Increase", "ResetStrikes"})
    BY <1>3, StepsFrame DEF MapFirst
  <2>2. Local!Make(c) \/ Local!Find(c)
    BY <1>3, <2>1 DEF Steps, Local!Clock, Local!Refill,
         Local!Take, Local!Forgive, Local!Change, Local!Validate, Local!Put,
         Local!Load, Local!StoreTokens, Local!StoreStrikes
  <2>3. CASE Local!Make(c)
    <3>1. made'
      BY <2>3 DEF Local!Make
    <3> QED
      BY <3>1 DEF MapFirst
  <2>4. CASE Local!Find(c)
    <3>1. pc[c] = "find" /\ op[c] \in {"Increase", "ResetStrikes"}
      BY <2>1, <2>4 DEF Local!Find
    <3>2. pc' = [pc EXCEPT ![c] = "idle"] /\ record' = 0
      BY <2>1, <2>4, <3>1 DEF Local!Find
    <3> QED
      BY <1>3, <3>2, StepsFrame DEF MapFirst, Typed, LocalTypeOK
  <2> QED
    BY <2>2, <2>3, <2>4
<1> QED
  BY <1>1, <1>2, <1>3

\* What is left to show of a step when its caller is alone.
LEMMA AloneSuffices ==
  ASSUME NEW c \in Callers, Solo(c)',
         pc'[c] # "idle" => Exact(c)',
         pc'[c] = "idle" => Rest'
  PROVE  ExactInv'
  BY DEF Solo, ExactInv

\* A call that loads: nothing but its place and the value loaded changes.
LEMMA LoadFacts ==
  ASSUME Typed, NEW c \in Callers, NEW from, NEW v, NEW to, Local!Load(c, from, v, to)
  PROVE  /\ pc[c] = from /\ pc'[c] = to /\ read'[c] = v
         /\ UNCHANGED <<table, rate, record, tokens, timestamp, strikes, allocated, op, mine,
                        stamp, due>>
  BY DEF Local!Load, Local!Go, Local!setting, Local!fields, Local!history, Typed, LocalTypeOK

LEMMA StoreTokensFacts ==
  ASSUME Typed, NEW c \in Callers, NEW from \in Working, NEW to, Local!StoreTokens(c, from, to)
  PROVE  /\ pc[c] = from /\ pc'[c] = to
         /\ mine[c] \in 1..allocated /\ mine[c] \in 1..MaxCalls
         /\ tokens' = [tokens EXCEPT ![mine[c]] = read[c]]
         /\ due' = IF from = "taken" /\ table = "kv" /\ due > 0 THEN due - 1 ELSE due
         /\ UNCHANGED <<table, rate, record, timestamp, strikes, allocated, op, mine, read, stamp>>
<1>1. pc[c] = from /\ pc'[c] = to
  BY DEF Local!StoreTokens, Local!Go, Typed, LocalTypeOK
<1>2. mine[c] \in 1..allocated /\ mine[c] \in 1..MaxCalls
  BY <1>1, Numbered DEF Working, Pointers, Typed, LocalTypeOK
<1> QED
  BY <1>1, <1>2 DEF Local!StoreTokens, Local!setting

LEMMA StoreStrikesFacts ==
  ASSUME Typed, NEW c \in Callers, NEW from \in Working, NEW to, Local!StoreStrikes(c, from, to)
  PROVE  /\ pc[c] = from /\ pc'[c] = to
         /\ mine[c] \in 1..allocated /\ mine[c] \in 1..MaxCalls
         /\ strikes' = [strikes EXCEPT ![mine[c]] = read[c]] /\ strikes'[mine[c]] = read[c]
         /\ UNCHANGED <<table, rate, record, tokens, timestamp, allocated, op, mine, read,
                        stamp, due>>
<1>1. pc[c] = from /\ pc'[c] = to
  BY DEF Local!StoreStrikes, Local!Go, Typed, LocalTypeOK
<1>2. mine[c] \in 1..allocated /\ mine[c] \in 1..MaxCalls
  BY <1>1, Numbered DEF Working, Pointers, Typed, LocalTypeOK
<1> QED
  BY <1>1, <1>2 DEF Local!StoreStrikes, Local!setting, Local!history, Typed, LocalTypeOK

\* A call that is alone brings the strikes to due.
LEMMA ExactStep ==
  ASSUME Typed, MapFirst, NEW c \in Callers, Steps(c), Exact(c)
  PROVE  /\ pc'[c] # "idle" => Exact(c)'
         /\ pc'[c] = "idle" => Rest'
<1> USE DEF Local!None
<1>1. CASE Local!Make(c)
  <2>1. /\ pc[c] = "make" /\ pc'[c] = "find" /\ record' = 0
        /\ UNCHANGED <<table, op, due>>
    BY <1>1 DEF Local!Make, Local!Go, Local!setting, Local!history, Typed, LocalTypeOK
  <2> QED
    BY <2>1 DEF Exact, Rest, Local!Start
<1>2. CASE Local!Find(c)
  <2>1. /\ pc[c] = "find"
        /\ UNCHANGED <<table, record, strikes, op, due>>
        /\ mine'[c] = IF op[c] = "CreateCookie" THEN 0 ELSE record
    BY <1>2 DEF Local!Find, Local!Go, Local!setting, Local!fields, Local!history,
                Typed, LocalTypeOK
  <2>2. pc'[c] = IF \/ op[c] = "CreateCookie"
                    \/ op[c] = "Allow" /\ (table = "kv" \/ record # 0) THEN "clock"
                 ELSE IF record = 0 THEN "idle"
                 ELSE IF op[c] = "Validate" THEN "validate"
                 ELSE "change"
    BY <1>2 DEF Local!Find, Local!Go, Typed, LocalTypeOK
  <2>3. op[c] \in Calls
    BY DEF Typed, LocalTypeOK
  <2>4. CASE op[c] = "CreateCookie"
    BY <2>1, <2>2, <2>4 DEF Exact, Rest, Local!Start
  <2>5. CASE op[c] = "Allow"
    BY <2>1, <2>2, <2>5 DEF Exact, Rest
  <2>6. CASE op[c] = "Increase"
    BY <2>1, <2>2, <2>6 DEF Exact, Rest
  <2>7. CASE op[c] = "ResetStrikes"
    BY <2>1, <2>2, <2>7 DEF Exact, Rest
  <2>8. CASE op[c] = "Validate"
    BY <2>1, <2>2, <2>8 DEF Exact, Rest
  <2> QED
    BY <2>3, <2>4, <2>5, <2>6, <2>7, <2>8 DEF Calls
<1>3. CASE Local!Clock(c)
  <2>1. /\ pc[c] = "clock" /\ pc'[c] = IF op[c] = "CreateCookie" THEN "put" ELSE "delta"
        /\ UNCHANGED <<table, record, op, due>>
        /\ IF mine[c] = 0 THEN Local!Allocate(c) ELSE UNCHANGED <<strikes, mine>>
    BY <1>3 DEF Local!Clock, Local!Go, Local!setting, Local!fields, Local!history,
                Typed, LocalTypeOK
  <2>2. CASE mine[c] = 0
    <3>1. allocated' = allocated + 1 /\ allocated + 1 \in 1..MaxCalls
      <4>1. allocated' = allocated + 1 /\ allocated \in Nat
        BY <2>1, <2>2 DEF Local!Allocate, Typed, LocalTypeOK
      <4>2. allocated + 1 <= MaxCalls
        BY <2>1, RoomForOne DEF Typed
      <4> QED
        BY <4>1, <4>2, Constants
    <3>2. mine'[c] = allocated'
      BY <2>1, <2>2 DEF Local!Allocate, Typed, LocalTypeOK
    <3>3. strikes'[allocated'] = IF op[c] = "CreateCookie" THEN Local!Start ELSE 0
      BY <2>1, <2>2, <3>1 DEF Local!Allocate, Typed, LocalTypeOK
    <3> QED
      BY <2>1, <2>2, <3>2, <3>3 DEF Exact
  <2>3. CASE mine[c] # 0
    BY <2>1, <2>3 DEF Exact
  <2> QED
    BY <2>2, <2>3
<1>4. CASE Local!Refill(c)
  <2>1. CASE Local!StoreTokens(c, "refill", "check")
    <3>1. "refill" \in Working
      BY DEF Working, Holding
    <3>2. /\ pc[c] = "refill" /\ pc'[c] = "check" /\ UNCHANGED <<strikes, mine, due>>
      BY <2>1, <3>1, StoreTokensFacts
    <3> QED
      BY <3>2 DEF Exact
  <2>2. CASE Local!Load(c, "delta", Local!Refilled(c), "refill")
    BY <2>2, LoadFacts DEF Exact
  <2>3. CASE Local!Load(c, "delta", read[c], "check")
    BY <2>3, LoadFacts DEF Exact
  <2> QED
    BY <1>4, <2>1, <2>2, <2>3 DEF Local!Refill
<1>5. CASE Local!Take(c)
  <2> DEFINE next == IF tokens[mine[c]] >= 1 THEN "take" ELSE "put"
  <2>1. CASE Local!Load(c, "check", tokens[mine[c]], next)
    BY <2>1, LoadFacts DEF Exact
  <2>2. CASE Local!Load(c, "take", tokens[mine[c]] - 1, "taken")
    BY <2>2, LoadFacts DEF Exact
  <2>3. CASE Local!StoreTokens(c, "taken", IF table = "kv" THEN "struck" ELSE "put")
    <3>1. "taken" \in Working
      BY DEF Working, Holding
    <3>2. /\ pc[c] = "taken" /\ pc'[c] = IF table = "kv" THEN "struck" ELSE "put"
          /\ due' = IF table = "kv" /\ due > 0 THEN due - 1 ELSE due
          /\ UNCHANGED <<table, record, strikes, op, mine, read>>
      BY <2>3, <3>1, StoreTokensFacts
    <3> QED
      BY <3>2 DEF Exact
  <2> QED
    BY <1>5, <2>1, <2>2, <2>3 DEF Local!Take
<1>6. CASE Local!Forgive(c)
  <2> DEFINE next == IF strikes[mine[c]] > 0 THEN "forgive" ELSE "put"
  <2>1. CASE Local!Load(c, "struck", strikes[mine[c]], next)
    BY <2>1, LoadFacts DEF Exact
  <2>2. CASE Local!Load(c, "forgive", strikes[mine[c]] - 1, "forgiven")
    BY <2>2, LoadFacts DEF Exact
  <2>3. CASE Local!StoreStrikes(c, "forgiven", "put")
    <3>1. "forgiven" \in Working
      BY DEF Working, Holding
    <3>2. /\ pc[c] = "forgiven" /\ pc'[c] = "put"
          /\ strikes'[mine[c]] = read[c] /\ UNCHANGED <<mine, due>>
      BY <2>3, <3>1, StoreStrikesFacts
    <3> QED
      BY <3>2 DEF Exact
  <2> QED
    BY <1>6, <2>1, <2>2, <2>3 DEF Local!Forgive
<1>7. CASE Local!Change(c)
  <2> DEFINE v == IF op[c] = "Increase" THEN strikes[mine[c]] + 1 ELSE 0
  <2>1. CASE Local!Load(c, "change", v, "changed")
    BY <2>1, LoadFacts DEF Exact
  <2>2. CASE Local!StoreStrikes(c, "changed", "put")
    <3>1. "changed" \in Working
      BY DEF Working, Holding
    <3>2. /\ pc[c] = "changed" /\ pc'[c] = "put"
          /\ strikes'[mine[c]] = read[c] /\ UNCHANGED <<mine, due>>
      BY <2>2, <3>1, StoreStrikesFacts
    <3> QED
      BY <3>2 DEF Exact
  <2> QED
    BY <1>7, <2>1, <2>2 DEF Local!Change
<1>8. CASE Local!Validate(c)
  <2>1. /\ pc[c] = "validate"
        /\ UNCHANGED <<table, record, strikes, due>>
        /\ \/ pc'[c] = "idle"
           \/ pc'[c] = "find" /\ op'[c] = "Allow"
    BY <1>8 DEF Local!Validate, Local!Go, Local!setting, Local!fields, Local!history,
                Typed, LocalTypeOK
  <2> QED
    BY <2>1 DEF Exact, Rest
<1>9. CASE Local!Put(c)
  <2>1. /\ pc[c] = "put" /\ pc'[c] = "idle" /\ record' = mine[c] /\ mine[c] # 0
        /\ UNCHANGED <<strikes, due>>
    BY <1>9 DEF Local!Put, Local!Go, Local!fields, Local!history,
                Typed, LocalTypeOK, Pointers, Holding
  <2> QED
    BY <2>1 DEF Exact, Rest
<1> QED
  BY <1>1, <1>2, <1>3, <1>4, <1>5, <1>6, <1>7, <1>8, <1>9 DEF Steps

\* A call that is alone denies only a record that is young: any other has
\* earned a token by the time it is looked at, and keeps it.
LEMMA ServedStep ==
  ASSUME Typed, Capacity >= 1, NEW c \in Callers,
         Steps(c) \/ \E o \in Local!Operations : Local!Begin(c, o),
         Served(c), \A r \in 1..allocated : tokens[r] >= 0
  PROVE  Served(c)' /\ \A r \in 1..allocated' : tokens'[r] >= 0
<1> USE DEF Local!None
<1>1. LocalTypeOK /\ Room /\ SettingOK /\ Pointers /\ 1..allocated \subseteq 1..MaxCalls
      /\ allocated <= MaxCalls /\ Capacity \in Nat
  BY Numbered, Constants DEF Typed
<1>2. pc[c] \in Working => mine[c] \in 1..allocated /\ tokens[mine[c]] >= 0
                           /\ tokens[mine[c]] \in Int
  BY <1>1 DEF LocalTypeOK, Pointers, Working
<1>3. CASE \/ Local!Make(c) \/ Local!Find(c) \/ Local!Validate(c) \/ Local!Put(c)
           \/ \E o \in Local!Operations : Local!Begin(c, o)
  <2>1. UNCHANGED <<tokens, allocated>>
    BY <1>3 DEF Local!Make, Local!Find, Local!Validate, Local!Put, Local!Begin, Local!fields
  <2>2. pc'[c] \notin {"refill", "check", "take", "taken"}
    BY <1>1, <1>3 DEF Local!Make, Local!Find, Local!Validate, Local!Put, Local!Begin,
                      Local!Go, LocalTypeOK
  <2> QED
    BY <2>1, <2>2 DEF Served
<1>4. CASE Local!Clock(c)
  <2>1. pc'[c] \in {"put", "delta"} /\ pc[c] = "clock"
    BY <1>1, <1>4 DEF Local!Clock, Local!Go, LocalTypeOK
  <2>2. Served(c)'
    BY <2>1 DEF Served
  <2>3. CASE UNCHANGED <<tokens, allocated>>
    BY <2>2, <2>3
  <2>4. CASE Local!Allocate(c)
    <3>1. allocated' = allocated + 1 /\ allocated \in Nat
      BY <1>1, <2>4 DEF Local!Allocate, LocalTypeOK
    <3>2. tokens' = [tokens EXCEPT ![allocated + 1] = Capacity]
      BY <2>4, <3>1 DEF Local!Allocate
    <3>3. allocated + 1 <= MaxCalls
      BY <1>1, <2>1, RoomForOne
    <3>4. \A r \in 1..(allocated + 1) : tokens'[r] >= 0
      <4> SUFFICES ASSUME NEW r \in 1..(allocated + 1) PROVE tokens'[r] >= 0
        OBVIOUS
      <4>1. r \in 1..MaxCalls /\ (r = allocated + 1 \/ r \in 1..allocated)
        BY <3>1, <3>3, Constants
      <4> QED
        BY <1>1, <3>1, <3>2, <4>1 DEF LocalTypeOK
    <3> QED
      BY <2>2, <3>1, <3>4
  <2> QED
    BY <1>4, <2>3, <2>4 DEF Local!Clock, Local!fields
<1>5. CASE Local!Refill(c)
  <2>1. CASE Local!StoreTokens(c, "refill", "check")
    <3>1. "refill" \in Working
      BY DEF Working, Holding
    <3>2. /\ pc[c] = "refill" /\ pc'[c] = "check"
          /\ mine[c] \in 1..allocated /\ mine[c] \in 1..MaxCalls
          /\ tokens' = [tokens EXCEPT ![mine[c]] = read[c]]
          /\ UNCHANGED <<rate, timestamp, allocated, mine, stamp>>
      BY <2>1, <3>1, StoreTokensFacts
    <3>3. read[c] >= 0 /\ (read[c] >= 1 \/ Young(c))
      BY <3>2 DEF Served
    <3>4. tokens'[mine[c]] = read[c]
      BY <1>1, <3>2 DEF LocalTypeOK
    <3>5. Served(c)'
      BY <3>2, <3>3, <3>4 DEF Served, Young
    <3>6. \A r \in 1..allocated : tokens'[r] >= 0
      BY <1>1, <3>2, <3>3 DEF LocalTypeOK
    <3> QED
      BY <3>2, <3>5, <3>6
  <2>2. CASE stamp[c] > timestamp[mine[c]] /\ Local!Load(c, "delta", Local!Refilled(c), "refill")
    <3>1. /\ pc[c] = "delta" /\ pc'[c] = "refill" /\ read'[c] = Local!Refilled(c)
          /\ UNCHANGED <<rate, tokens, timestamp, allocated, mine, stamp>>
      BY <2>2, LoadFacts
    <3>2. pc[c] \in Holding /\ pc[c] \in Working
      BY <3>1 DEF Working, Holding
    <3>3. Local!Refilled(c) >= 0 /\ (Local!Refilled(c) >= 1 \/ Young(c))
      BY <1>1, <1>2, <2>2, <3>2, RefilledIsBounded
    <3>4. Young(c)' <=> Young(c)
      BY <3>1 DEF Young
    <3> QED
      BY <3>1, <3>3, <3>4 DEF Served
  <2>3. CASE ~(stamp[c] > timestamp[mine[c]]) /\ Local!Load(c, "delta", read[c], "check")
    <3>1. /\ pc[c] = "delta" /\ pc'[c] = "check"
          /\ UNCHANGED <<rate, tokens, timestamp, allocated, mine, stamp>>
      BY <2>3, LoadFacts
    <3>2. pc[c] \in Working
      BY <3>1 DEF Working, Holding
    <3>3. Young(c)
      <4> DEFINE delta == stamp[c] - timestamp[mine[c]]
      <4>1. timestamp[mine[c]] \in Nat /\ stamp[c] \in Nat
        BY <1>1, <1>2, <3>2 DEF LocalTypeOK
      <4>2. delta \in Int /\ delta <= 0
        BY <2>3, <4>1
      <4>3. rate[1] \in Nat /\ rate[2] \in Nat \ {0} /\ Second \in Nat \ {0}
        BY <1>1, Constants DEF SettingOK
      <4> HIDE DEF delta
      <4>4. (0 - delta) \in Nat
        BY <4>2
      <4>5. (0 - delta) * rate[1] \in Nat
        BY <4>3, <4>4
      <4>6. delta * rate[1] = 0 - ((0 - delta) * rate[1])
        BY <4>2, <4>3
      <4>7. rate[2] * Second \in Nat \ {0}
        BY <4>3
      <4>8. delta * rate[1] < rate[2] * Second
        BY <4>2, <4>3, <4>5, <4>6, <4>7
      <4> QED
        BY <4>8 DEF Young, delta
    <3>4. Young(c)'
      BY <3>1, <3>3 DEF Young
    <3> QED
      BY <3>1, <3>4 DEF Served
  <2> QED
    BY <1>5, <2>1, <2>2, <2>3 DEF Local!Refill
<1>6. CASE Local!Take(c)
  <2> DEFINE next == IF tokens[mine[c]] >= 1 THEN "take" ELSE "put"
  <2>1. CASE Local!Load(c, "check", tokens[mine[c]], next)
    BY <2>1, LoadFacts DEF Served
  <2>2. CASE Local!Load(c, "take", tokens[mine[c]] - 1, "taken")
    <3>1. /\ pc[c] = "take" /\ pc'[c] = "taken" /\ read'[c] = tokens[mine[c]] - 1
          /\ UNCHANGED <<tokens, allocated>>
      BY <2>2, LoadFacts
    <3>2. pc[c] \in Working
      BY <3>1 DEF Working, Holding
    <3> QED
      BY <1>2, <3>1, <3>2 DEF Served
  <2>3. CASE Local!StoreTokens(c, "taken", IF table = "kv" THEN "struck" ELSE "put")
    <3>1. "taken" \in Working
      BY DEF Working, Holding
    <3>2. /\ pc[c] = "taken" /\ pc'[c] \in {"struck", "put"}
          /\ mine[c] \in 1..allocated /\ mine[c] \in 1..MaxCalls
          /\ tokens' = [tokens EXCEPT ![mine[c]] = read[c]]
          /\ UNCHANGED allocated
      BY <2>3, <3>1, StoreTokensFacts
    <3>3. read[c] >= 0
      BY <3>2 DEF Served
    <3>4. \A r \in 1..allocated : tokens'[r] >= 0
      BY <1>1, <3>2, <3>3 DEF LocalTypeOK
    <3> QED
      BY <3>2, <3>4 DEF Served
  <2> QED
    BY <1>6, <2>1, <2>2, <2>3 DEF Local!Take
<1>7. CASE Local!Forgive(c) \/ Local!Change(c)
  <2>1. /\ pc'[c] \in {"forgive", "forgiven", "changed", "put"}
        /\ UNCHANGED <<tokens, allocated>>
    BY <1>1, <1>7 DEF Local!Forgive, Local!Change, Local!Load, Local!StoreStrikes,
                      Local!Go, Local!fields, LocalTypeOK
  <2> QED
    BY <2>1 DEF Served
<1> QED
  BY <1>3, <1>4, <1>5, <1>6, <1>7 DEF Steps

\* A call that begins while no other is under way is alone and has all of its
\* work to do.
LEMMA BeginExact ==
  ASSUME Typed, MapFirst, ExactInv, NEW c \in Callers, NEW o \in Local!Operations,
         Local!Begin(c, o), ~overlapped'
  PROVE  Solo(c) /\ Solo(c)' /\ ~overlapped /\ pc'[c] # "idle" /\ Exact(c)'
<1>1. /\ pc[c] = "idle" /\ op'[c] = o
      /\ UNCHANGED <<table, made, record, strikes>>
      /\ overlapped' = (overlapped \/ \E d \in Callers \ {c} : pc[d] # "idle")
  BY DEF Local!Begin, Local!setting, Local!fields, Typed, LocalTypeOK
<1>2. ~overlapped /\ Solo(c)
  BY <1>1 DEF Solo
<1>3. /\ pc'[c] \in {"make", "find"}
      /\ pc'[c] = "make" => ~made
      /\ \A d \in Callers \ {c} : pc'[d] = pc[d]
  BY DEF Local!Begin, Local!Go, Typed, LocalTypeOK
<1>4. Rest
  BY <1>1, <1>2 DEF Solo, ExactInv
<1>5. pc'[c] = "make" => record' = 0
  BY <1>1, <1>3 DEF MapFirst
<1>6. /\ o = "CreateCookie" => due' = Local!Start
      /\ o = "Increase" => due' = IF record = 0 THEN due ELSE due + 1
      /\ o = "ResetStrikes" => due' = IF record = 0 THEN due ELSE 0
      /\ o \in {"Allow", "Validate"} => due' = due
  BY DEF Local!Begin, Local!None
<1>7. o \in {"CreateCookie", "Increase", "ResetStrikes", "Allow", "Validate"}
  BY DEF Local!Operations
<1>8. Local!Start' = Local!Start
  BY <1>1 DEF Local!Start
<1>9. Exact(c)'
  BY <1>1, <1>3, <1>4, <1>5, <1>6, <1>7, <1>8 DEF Exact, Rest
<1> QED
  BY <1>2, <1>3, <1>9 DEF Solo

\* While calls do not overlap the strikes come out as due.
LEMMA NextExact == IInv /\ MapFirst /\ ExactInv /\ [Next]_vars => MapFirst' /\ ExactInv'
<1> SUFFICES ASSUME IInv, MapFirst, ExactInv, [Next]_vars PROVE MapFirst' /\ ExactInv'
  OBVIOUS
<1>1. Typed
  BY DEF IInv, Typed
<1>2. CASE Tick \/ (Valkey!Next /\ UNCHANGED <<table, localState>>) \/ UNCHANGED vars
  <2>1. UNCHANGED <<table, made, record, strikes, pc, op, mine, read, overlapped, due>>
    BY <1>2 DEF Tick, vars, localState
  <2> QED
    BY <2>1 DEF MapFirst, ExactInv, Exact, Rest, Local!Start
<1>3. ASSUME NEW c \in Callers, NEW o \in Local!Operations, Local!Begin(c, o)
      PROVE  MapFirst' /\ ExactInv'
  <2>1. MapFirst'
    BY <1>1, <1>3, MapFirstStep
  <2>2. CASE overlapped'
    BY <2>1, <2>2 DEF ExactInv
  <2>3. CASE ~overlapped'
    <3>1. Solo(c)' /\ pc'[c] # "idle" /\ Exact(c)'
      BY <1>1, <1>3, <2>3, BeginExact
    <3> QED
      BY <2>1, <3>1, AloneSuffices
  <2> QED
    BY <2>2, <2>3
<1>4. ASSUME NEW c \in Callers, Steps(c) PROVE MapFirst' /\ ExactInv'
  <2>1. MapFirst'
    BY <1>1, <1>4, MapFirstStep
  <2>2. /\ pc[c] # "idle"
        /\ \A d \in Callers \ {c} : pc'[d] = pc[d] /\ op'[d] = op[d]
        /\ overlapped' = overlapped
    BY <1>1, <1>4, StepsFrame
  <2>3. CASE overlapped
    BY <2>1, <2>2, <2>3 DEF ExactInv
  <2>4. CASE ~overlapped
    <3>1. Exact(c) /\ Solo(c)'
      BY <2>2, <2>4 DEF ExactInv, Solo
    <3>2. /\ pc'[c] # "idle" => Exact(c)'
          /\ pc'[c] = "idle" => Rest'
      BY <1>1, <1>4, <3>1, ExactStep
    <3> QED
      BY <2>1, <3>1, <3>2, AloneSuffices
  <2> QED
    BY <2>3, <2>4
<1> QED
  BY <1>2, <1>3, <1>4 DEF Next, Local!Next, Steps

\* Between calls that never overlapped, a cookie of an in-memory table has the
\* strikes it should have.
THEOREM SerialIsExact == Spec => []ExactWhenSerial
<1>1. Init => MapFirst /\ ExactInv
  <2> SUFFICES ASSUME Init PROVE MapFirst /\ ExactInv
    OBVIOUS
  <2>1. record = 0 /\ due = 0 /\ \A c \in Callers : pc[c] = "idle"
    BY DEF Init, Local!Init, Local!None
  <2> QED
    BY <2>1 DEF MapFirst, ExactInv, Rest
<1>2. ExactInv => ExactWhenSerial
  BY DEF ExactInv, ExactWhenSerial, Rest, Local!None
<1> QED
  BY <1>1, <1>2, NextExact, Invariance, PTL DEF Spec

\* While calls do not overlap a record with a token serves its caller.
LEMMA NextServed ==
  ASSUME Capacity >= 1
  PROVE  IInv /\ MapFirst /\ ExactInv /\ ServedInv /\ [Next]_vars => ServedInv'
<1> SUFFICES ASSUME IInv, MapFirst, ExactInv, ServedInv, [Next]_vars PROVE ServedInv'
  OBVIOUS
<1>1. Typed
  BY DEF IInv, Typed
<1>2. CASE Tick \/ (Valkey!Next /\ UNCHANGED <<table, localState>>) \/ UNCHANGED vars
  <2>1. /\ UNCHANGED <<allocated, tokens, timestamp, pc, mine, read, stamp, overlapped>>
        /\ UNCHANGED rate
    BY <1>2 DEF Tick, vars, localState, Valkey!Next, Valkey!CreateCookie,
                Valkey!ResetStrikes, Valkey!Increase, Valkey!Expire, Valkey!ReadClock,
                Valkey!Script, Valkey!Abandon, Valkey!setting
  <2> QED
    BY <2>1 DEF ServedInv, Served, Young
<1>3. ASSUME NEW c \in Callers, ~overlapped, ~overlapped', Solo(c)',
             Steps(c) \/ \E o \in Local!Operations : Local!Begin(c, o)
      PROVE  ServedInv'
  <2>1. Served(c) /\ \A r \in 1..allocated : tokens[r] >= 0
    BY <1>3 DEF ServedInv
  <2>2. Served(c)' /\ \A r \in 1..allocated' : tokens'[r] >= 0
    BY <1>1, <1>3, <2>1, ServedStep
  <2>3. \A d \in Callers \ {c} : Served(d)'
    BY <1>3 DEF Solo, Served
  <2> QED
    BY <2>2, <2>3 DEF ServedInv
<1>4. CASE overlapped'
  BY <1>4 DEF ServedInv
<1>5. ASSUME ~overlapped', NEW c \in Callers, NEW o \in Local!Operations, Local!Begin(c, o)
      PROVE  ServedInv'
  BY <1>1, <1>3, <1>5, BeginExact
<1>6. ASSUME ~overlapped', NEW c \in Callers, Steps(c) PROVE ServedInv'
  <2>1. /\ pc[c] # "idle" /\ ~overlapped
        /\ \A d \in Callers \ {c} : pc'[d] = pc[d]
    BY <1>1, <1>6, StepsFrame
  <2>2. Solo(c)'
    BY <2>1 DEF ExactInv, Solo
  <2> QED
    BY <1>3, <1>6, <2>1, <2>2
<1> QED
  BY <1>2, <1>4, <1>5, <1>6 DEF Next, Local!Next, Steps

\* A table that has room for a token denies, to calls that never overlapped,
\* only what comes before a record has earned its first.
THEOREM DenialsAreYoung == ASSUME Capacity >= 1 PROVE Spec => DeniedOnlyYoung
<1>1. Init => MapFirst /\ ExactInv /\ ServedInv
  <2> SUFFICES ASSUME Init PROVE MapFirst /\ ExactInv /\ ServedInv
    OBVIOUS
  <2>1. record = 0 /\ due = 0 /\ allocated = 0 /\ \A c \in Callers : pc[c] = "idle"
    BY DEF Init, Local!Init, Local!None
  <2> QED
    BY <2>1 DEF MapFirst, ExactInv, Rest, ServedInv, Served
<1>2. IInv /\ MapFirst /\ ExactInv /\ ServedInv /\ [Next]_vars =>
        [\A c \in Callers :
            (pc[c] = "check" /\ pc'[c] = "put" /\ ~overlapped)
            => (stamp[c] - timestamp[mine[c]]) * rate[1] < rate[2] * Second]_vars
  <2> SUFFICES ASSUME IInv, ExactInv, ServedInv, Next, NEW c \in Callers,
                      pc[c] = "check", pc'[c] = "put", ~overlapped
               PROVE  (stamp[c] - timestamp[mine[c]]) * rate[1] < rate[2] * Second
    BY DEF vars, localState
  <2>1. Typed /\ mine[c] \in 1..allocated /\ tokens[mine[c]] \in Int
    BY Numbered DEF IInv, Typed, LocalTypeOK, Pointers, Holding
  <2>2. tokens[mine[c]] >= 1 \/ Young(c)
    BY DEF ServedInv, Served
  <2>3. PICK d \in Callers : Steps(d) \/ \E o \in Local!Operations : Local!Begin(d, o)
    BY DEF Next, Tick, Local!Next, Steps, localState
  <2>4. d = c
    <3>1. CASE Steps(d)
      BY <2>1, <3>1, StepsFrame
    <3>2. CASE \E o \in Local!Operations : Local!Begin(d, o)
      BY <2>1, <3>2 DEF Local!Begin, Local!Go, Typed, LocalTypeOK
    <3> QED
      BY <2>3, <3>1, <3>2
  <2>5. Local!Take(c)
    BY <2>3, <2>4 DEF Steps, Local!Begin, Local!Make, Local!Find, Local!Clock, Local!Refill,
         Local!Forgive, Local!Change, Local!Validate, Local!Put,
         Local!Load, Local!StoreTokens, Local!StoreStrikes
  <2> DEFINE next == IF tokens[mine[c]] >= 1 THEN "take" ELSE "put"
  <2>6. Local!Load(c, "check", tokens[mine[c]], next)
    BY <2>5 DEF Local!Take, Local!Load, Local!StoreTokens
  <2>7. pc'[c] = next
    BY <2>1, <2>6, LoadFacts
  <2> QED
    BY <2>1, <2>2, <2>7 DEF Young
<1> QED
  BY <1>1, <1>2, NextExact, NextServed, Invariance, PTL DEF Spec, DeniedOnlyYoung
=============================================================================
