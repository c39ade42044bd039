---------------------------- MODULE ServingProofs ----------------------------
(***************************************************************************)
(* Two loops over the upstreams agree: the one that fills the map of the   *)
(* limiters leaves for each host the rules of the upstream that the other, *)
(* FindMatchingUpstream, finds for it.  The invariant says it of the       *)
(* upstreams the first loop has passed.                                    *)
(*                                                                         *)
(* Once the proxy serves the start-up has nothing left to do, so what the  *)
(* votes were cast on is still so when Rewrite looks the upstream up.      *)
(*                                                                         *)
(* The loops over data of any length, the cookies of a request and the     *)
(* lists of an upstream, are unrolled from one lemma, Loops, and followed  *)
(* from pass to pass with another, AlongList.                              *)
(***************************************************************************)
EXTENDS Serving, FiniteSetTheorems, WellFoundedInduction, TLAPS

\* i is the last upstream of the host before the n-th.
LastBefore(h, i, n) == /\ i \in DOMAIN upstreams /\ i < n
                       /\ upstreams[i].hostname = h
                       /\ \A j \in DOMAIN upstreams :
                             j < n /\ upstreams[j].hostname = h => j <= i

NoneBefore(h, n) ==
    \A j \in DOMAIN upstreams : j < n => upstreams[j].hostname # h

LimiterBefore(h, n) ==
    \/ NoneBefore(h, n) /\ tokenBucketMap[h] = None
    \/ \E i \in DOMAIN upstreams :
          LastBefore(h, i, n) /\ tokenBucketMap[h] = upstreams[i].rules

IInv == /\ upstreams \in Seq(Settings)
        /\ tokenBucketMap \in [Hosts -> Rules \cup {None}]
        /\ index \in Nat \ {0}
        /\ \A h \in Hosts : LimiterBefore(h, index)
        /\ "coraza" \in pluginMap => index > Len(upstreams)
        /\ todo \cup pluginMap = Plugins

\* Before the loop no host has a limiter.
LEMMA InitIInv == StartInit => IInv
<1> SUFFICES ASSUME StartInit PROVE IInv
  OBVIOUS
<1>1. upstreams \in Seq(Settings)
  BY DEF StartInit, UpTo
<1>2. \A h \in Hosts : NoneBefore(h, 1)
  BY <1>1 DEF NoneBefore
<1> QED
  BY <1>1, <1>2 DEF StartInit, IInv, LimiterBefore

\* The step of the loop that gives the next upstream its limiter.
LEMMA LimiterIInv == ASSUME IInv, NewLimiter PROVE IInv'
<1> USE DEF IInv
<1> DEFINE u == upstreams[index]
<1>1. /\ index \in DOMAIN upstreams /\ u \in Settings
      /\ tokenBucketMap' = [tokenBucketMap EXCEPT ![u.hostname] = u.rules]
      /\ index' = index + 1
      /\ UNCHANGED <<upstreams, pluginMap, todo>>
  BY DEF NewLimiter
<1>2. u.hostname \in Hosts /\ u.rules \in Rules
  BY <1>1, StartupAssumption
<1>3. \A j \in DOMAIN upstreams : j < index + 1 <=> j < index \/ j = index
  OBVIOUS
<1>4. ASSUME NEW h \in Hosts PROVE LimiterBefore(h, index)'
  <2>1. CASE h = u.hostname
    <3>1. tokenBucketMap'[h] = u.rules
      BY <1>1, <1>2, <2>1
    <3>2. LastBefore(h, index, index + 1)
      BY <1>1, <1>3, <2>1 DEF LastBefore
    <3> QED
      BY <1>1, <3>1, <3>2 DEF LimiterBefore, LastBefore
  <2>2. CASE h # u.hostname
    <3>1. tokenBucketMap'[h] = tokenBucketMap[h]
      BY <1>1, <1>2, <2>2
    <3>2. NoneBefore(h, index) => NoneBefore(h, index)'
      BY <1>1, <1>3, <2>2 DEF NoneBefore
    <3>3. \A i \in DOMAIN upstreams : LastBefore(h, i, index) => LastBefore(h, i, index)'
      BY <1>1, <1>3, <2>2 DEF LastBefore
    <3> QED
      BY <1>1, <3>1, <3>2, <3>3 DEF LimiterBefore
  <2> QED
    BY <2>1, <2>2
<1>5. tokenBucketMap' \in [Hosts -> Rules \cup {None}]
  BY <1>1, <1>2
<1>6. "coraza" \notin pluginMap'
  BY <1>1
<1> QED
  BY <1>1, <1>4, <1>5, <1>6

\* A step of the start-up keeps it.
LEMMA StartIInv == ASSUME IInv, StartNext PROVE IInv'
<1> USE DEF IInv
<1>1. CASE UNCHANGED <<upstreams, tokenBucketMap, index, pluginMap, todo>>
  BY <1>1 DEF LimiterBefore, LastBefore, NoneBefore
<1>2. CASE NewLimiter
  BY <1>2, LimiterIInv
<1>3. ASSUME NEW p \in Plugins, InitPlugin(p) PROVE IInv'
  <2>1. /\ UNCHANGED <<upstreams, tokenBucketMap, index>>
        /\ todo' = todo \ {p} /\ pluginMap' = pluginMap \cup {p}
        /\ p # "coraza"
    BY <1>3 DEF InitPlugin
  <2> QED
    BY <2>1 DEF LimiterBefore, LastBefore, NoneBefore
<1>4. CASE BuildCoraza
  <2>1. /\ UNCHANGED <<upstreams, tokenBucketMap, index>>
        /\ todo' = todo \ {"coraza"} /\ pluginMap' = pluginMap \cup {"coraza"}
        /\ index > Len(upstreams)
    BY <1>4 DEF BuildCoraza
  <2>2. "coraza" \in Plugins
    BY DEF Plugins
  <2> QED
    BY <2>1, <2>2 DEF LimiterBefore, LastBefore, NoneBefore
<1> QED
  BY <1>1, <1>2, <1>3, <1>4
     DEF StartNext, ParseEnvironment, NewWAF, determineRootFolder, PluginsReady,
         ModifyFunc, Fail

\* The steps of a request leave the start-up alone.
LEMMA RequestSteps ==
  ASSUME [Next]_vars PROVE (StartNext /\ UNCHANGED requestVars) \/ UNCHANGED startVars
BY DEF Next, Start, Arrive, Validate, Deny, Rewrite, vars

\* The limiters of the upstreams passed so far agree with FindMatchingUpstream.
THEOREM Inductive == Spec => []IInv
<1>1. Init => IInv
  BY InitIInv DEF Init
<1>2. IInv /\ [Next]_vars => IInv'
  <2> SUFFICES ASSUME IInv, [Next]_vars PROVE IInv'
    OBVIOUS
  <2>1. CASE StartNext
    BY <2>1, StartIInv
  <2>2. CASE UNCHANGED startVars
    BY <2>2 DEF startVars, IInv, LimiterBefore, LastBefore, NoneBefore
  <2> QED
    BY <2>1, <2>2, RequestSteps
<1> QED
  BY <1>1, <1>2, PTL DEF Spec

\* Once the loop over the plugins is over, coraza is among them: it has filled
\* the map of the limiters to the end.
Complete == pc \in {"modifiers", "serving"} => "coraza" \in pluginMap

\* main serves only with every plugin initialised.
THEOREM ServesComplete == Spec => []Complete
<1>1. Init => Complete
  BY DEF Init, StartInit, Complete
<1>2. IInv /\ Complete /\ [Next]_vars => Complete'
  <2> SUFFICES ASSUME IInv, Complete, [Next]_vars PROVE Complete'
    OBVIOUS
  <2>1. CASE StartNext
    BY <2>1
       DEF IInv, Complete, StartNext, ParseEnvironment, NewWAF, determineRootFolder,
           NewLimiter, BuildCoraza, PluginsReady, ModifyFunc, Fail, InitPlugin, Plugins
  <2>2. CASE UNCHANGED startVars
    BY <2>2 DEF startVars, Complete
  <2> QED
    BY <2>1, <2>2, RequestSteps
<1> QED
  BY <1>1, <1>2, Inductive, PTL DEF Spec

\* What FindMatchingUpstream finds once the loop is over: index 0 and no limiter,
\* or an upstream of the host whose rules its limiter has.
LEMMA Found ==
  ASSUME IInv, Complete, pc = "serving", NEW h \in Hosts
  PROVE  LET i == FindMatchingUpstream(h) IN
         \/ i = 0 /\ tokenBucketMap[h] = None
         \/ /\ i \in DOMAIN upstreams
            /\ upstreams[i].hostname = h
            /\ tokenBucketMap[h] = upstreams[i].rules
<1>1. \A j \in DOMAIN upstreams : j < index
  BY DEF IInv, Complete
<1>2. LimiterBefore(h, index)
  BY DEF IInv
<1>3. CASE NoneBefore(h, index) /\ tokenBucketMap[h] = None
  <2>1. FindMatchingUpstream(h) = 0
    BY <1>1, <1>3 DEF NoneBefore, FindMatchingUpstream
  <2> QED
    BY <1>3, <2>1
<1>4. ASSUME NEW i \in DOMAIN upstreams, LastBefore(h, i, index),
             tokenBucketMap[h] = upstreams[i].rules
      PROVE  FindMatchingUpstream(h) = i /\ upstreams[i].hostname = h
  <2> DEFINE named == {j \in DOMAIN upstreams : upstreams[j].hostname = h}
             IsLast(j) == \A k \in named : j >= k
  <2>1. DOMAIN upstreams \subseteq Nat \ {0}
    BY DEF IInv
  <2>2. i \in named /\ IsLast(i)
    BY <1>1, <1>4, <2>1 DEF LastBefore
  <2>3. \A j \in named : IsLast(j) => j = i
    BY <2>1, <2>2
  <2>4. FindMatchingUpstream(h) = CHOOSE j \in named : IsLast(j)
    BY <2>2 DEF FindMatchingUpstream
  <2> HIDE DEF named, IsLast
  <2>5. (CHOOSE j \in named : IsLast(j)) = i
    BY <2>2, <2>3
  <2> QED
    BY <1>4, <2>4, <2>5 DEF LastBefore
<1> QED
  BY <1>2, <1>3, <1>4 DEF LimiterBefore

\* However many upstreams, in whatever order and however often a host is named:
\* a serving proxy limits each host by the rules of its matching upstream.
THEOREM Limiters == Spec => []LimiterOfUpstream
<1>1. IInv /\ Complete => LimiterOfUpstream
  <2> SUFFICES ASSUME IInv, Complete, pc = "serving", NEW h \in Hosts
               PROVE  LET i == FindMatchingUpstream(h)
                      IN  tokenBucketMap[h] = IF i = 0 THEN None ELSE upstreams[i].rules
    BY DEF LimiterOfUpstream, Complete
  <2>1. 0 \notin DOMAIN upstreams
    BY DEF IInv
  <2> QED
    BY <2>1, Found
<1> QED
  BY <1>1, Inductive, ServesComplete, PTL
-----------------------------------------------------------------------------
\* What is known of a request on its way.
Decided ==
    /\ outcome # "none" => pc = "serving"
    /\ Passed => LET i == FindMatchingUpstream(request.host) IN
                 /\ i # 0
                 /\ Admits(upstreams[i], request.path, request.source)
    /\ outcome = "forwarded" => target = FindMatchingUpstream(request.host)

\* Nothing happens any more to the upstreams of a proxy that serves.
LEMMA Settled == ASSUME pc = "serving", [Next]_vars PROVE UNCHANGED startVars
<1>1. ~StartNext
  BY DEF StartNext, ParseEnvironment, NewWAF, determineRootFolder, NewLimiter, BuildCoraza,
         PluginsReady, ModifyFunc, Fail, InitPlugin
<1> QED
  BY <1>1, RequestSteps

THEOREM VotesStand == Spec => []Decided
<1>1. Init => Decided
  BY DEF Init, Decided, Passed
<1>2. Decided /\ [Next]_vars => Decided'
  <2> SUFFICES ASSUME Decided, [Next]_vars PROVE Decided'
    OBVIOUS
  <2> USE DEF Decided, Passed
  <2>1. CASE outcome = "none"
    <3>1. outcome' \in {"none", "arrived"}
      BY <2>1 DEF Next, Start, Arrive, Validate, Deny, Rewrite, vars, requestVars
    <3>2. outcome' = "arrived" => pc' = "serving"
      BY <2>1 DEF Next, Start, Arrive, Validate, Deny, Rewrite, vars, requestVars, startVars
    <3> QED
      BY <3>1, <3>2
  <2>2. CASE outcome # "none"
    <3>1. UNCHANGED startVars /\ pc' = "serving"
      BY <2>2, Settled DEF startVars
    <3>2. request' = request
      BY <2>2 DEF Next, Start, Arrive, Validate, Deny, Rewrite, vars, requestVars
    <3>3. FindMatchingUpstream(request.host)' = FindMatchingUpstream(request.host)
      BY <3>1, <3>2 DEF FindMatchingUpstream, startVars
    <3>4. /\ Passed' => \/ Passed
                        \/ \E allowed \in BOOLEAN : ValidateWAF(request, allowed)
          /\ outcome' = "forwarded" =>
                \/ outcome = "forwarded" /\ target' = target
                \/ target' = FindMatchingUpstream(request.host)
      BY <2>2 DEF Next, Start, Arrive, Validate, Deny, Rewrite, vars, requestVars
    <3> QED
      BY <3>1, <3>2, <3>3, <3>4 DEF startVars, ValidateWAF, Admits, Blocked, SourceAllowed
  <2> QED
    BY <2>1, <2>2
<1> QED
  BY <1>1, <1>2, PTL DEF Spec

\* A host that no upstream is named for has none.
LEMMA Strangers ==
  ASSUME IInv, NEW h, h \notin Hosts PROVE FindMatchingUpstream(h) = 0
<1>1. \A i \in DOMAIN upstreams : upstreams[i].hostname # h
  BY StartupAssumption DEF IInv
<1> QED
  BY <1>1 DEF FindMatchingUpstream

\* For any configuration: no request reaches an upstream whose lists keep it
\* out, and the limiter it paid was that upstream's.
THEOREM Honoured == Spec => []AccessHonoured
<1>1. IInv /\ Complete /\ Decided => AccessHonoured
  <2> SUFFICES ASSUME IInv, Complete, Decided, outcome = "forwarded"
               PROVE  AccessHonoured
    BY DEF AccessHonoured
  <2>1. /\ target # 0 /\ target = FindMatchingUpstream(request.host)
        /\ Admits(upstreams[target], request.path, request.source)
        /\ pc = "serving"
    BY DEF Decided, Passed
  <2>2. request.host \in Hosts
    BY <2>1, Strangers
  <2>3. /\ target \in DOMAIN upstreams
        /\ upstreams[target].hostname = request.host
        /\ upstreams[target].rules = tokenBucketMap[request.host]
    BY <2>1, <2>2, Found
  <2> QED
    BY <2>1, <2>3 DEF AccessHonoured, Admits, Blocked, SourceAllowed
<1> QED
  BY <1>1, Inductive, ServesComplete, VotesStand, PTL

-----------------------------------------------------------------------------
\* A set of natural numbers that has one has a least one.
LEMMA Least ==
  ASSUME NEW S \in SUBSET Nat, S # {}
  PROVE  \E m \in S : \A k \in S : m <= k
<1> DEFINE R == {p \in Nat \X Nat : p[1] < p[2]}
<1>1. IsWellFoundedOn(R, Nat)
  BY NatLessThanWellFounded, IsWellFoundedOn(OpToRel(<, Nat), Nat) DEF OpToRel
<1>2. \A x, y \in Nat : <<y, x>> \in R <=> y < x
  OBVIOUS
<1> HIDE DEF R
<1>3. PICK x \in S : \A y \in S : ~ (<<y, x>> \in R)
  BY <1>1, WFMin
<1>4. \A y \in S : ~ (y < x)
  BY <1>2, <1>3
<1>5. \A y \in S : x <= y
  BY <1>4
<1> QED
  BY <1>5

\* Induction along a list: what holds of nothing and of one more holds of all.
LEMMA AlongList ==
  ASSUME NEW length \in Nat, NEW S \in SUBSET Nat, 0 \in S,
         \A n \in Nat : n \in S /\ n < length => n + 1 \in S
  PROVE  length \in S
<1> DEFINE T == (0..length) \ S
<1> SUFFICES ASSUME T # {} PROVE FALSE
  OBVIOUS
<1>1. T \in SUBSET Nat
  OBVIOUS
<1>2. \E m \in T : \A k \in T : m <= k
  <2> HIDE DEF T
  <2> QED
    BY <1>1, Least
<1>3. PICK m \in T : \A k \in T : m <= k
  BY <1>2
<1>4. m \in 1..length /\ m - 1 \in 0..length /\ ~ (m <= m - 1)
  <2>1. m \in Nat /\ m <= length /\ m # 0
    OBVIOUS
  <2> QED
    BY <2>1
<1>5. m - 1 \in S
  BY <1>3, <1>4
<1>6. (m - 1) + 1 \in S
  BY <1>4, <1>5
<1> QED
  BY <1>4, <1>6

\* What a loop along a list does with its variable, and what the variable is
\* after each of the first n passes.
Steps(length, V) == [1..length -> [V -> V]]

Follows(f, V, first, step, n) == /\ f \in [0..n -> V]
                                 /\ f[0] = first
                                 /\ \A i \in 1..n : f[i] = step[i][f[i - 1]]

\* A loop has a value after each pass.
LEMMA Loops ==
  ASSUME NEW length \in Nat, NEW V, NEW first \in V, NEW step \in Steps(length, V)
  PROVE  \E f : Follows(f, V, first, step, length)
<1> DEFINE Runs(f, n) == Follows(f, V, first, step, n)
           S == {n \in Nat : \E f : Runs(f, n)}
<1> USE DEF Steps, Follows
<1>1. 0 \in S
  <2>1. Runs([i \in 0..0 |-> first], 0)
    OBVIOUS
  <2> QED
    BY <2>1
<1>2. ASSUME NEW n \in Nat, n \in S, n < length PROVE n + 1 \in S
  <2>1. PICK f : Runs(f, n)
    BY <1>2
  <2> DEFINE last == step[n + 1][f[n]]
             g == [i \in 0..(n + 1) |-> IF i = n + 1 THEN last ELSE f[i]]
  <2>2. last \in V
    <3>1. n + 1 \in 1..length /\ f[n] \in V
      BY <1>2, <2>1
    <3> QED
      BY <3>1
  <2>3. \A i \in 0..n : g[i] = f[i]
    OBVIOUS
  <2>4. g[n + 1] = last
    OBVIOUS
  <2>5. g \in [0..(n + 1) -> V]
    BY <2>1, <2>2
  <2> HIDE DEF g
  <2>6. g[0] = first
    BY <2>1, <2>3
  <2>7. ASSUME NEW i \in 1..(n + 1) PROVE g[i] = step[i][g[i - 1]]
    <3>1. CASE i = n + 1
      BY <2>3, <2>4, <3>1
    <3>2. CASE i \in 1..n
      <4>1. i \in 0..n /\ i - 1 \in 0..n
        BY <3>2
      <4> QED
        BY <2>1, <2>3, <3>2, <4>1
    <3> QED
      BY <3>1, <3>2
  <2>8. Runs(g, n + 1)
    BY <2>5, <2>6, <2>7
  <2> QED
    BY <2>8
<1> HIDE DEF S
<1>3. S \in SUBSET Nat
  BY DEF S
<1>4. length \in S
  BY <1>1, <1>2, <1>3, AlongList
<1> QED
  BY <1>4 DEF S

\* The loop over the cookies.
Loop(f, cookies) ==
    f = [i \in 0..Len(cookies) |->
            IF i = 0 THEN <<>>
            ELSE IF cookies[i] = "_gSession" THEN f[i - 1]
            ELSE Append(f[i - 1], cookies[i])]

\* It runs over any cookies.
LEMMA LoopRuns ==
  ASSUME NEW cookies \in Seq(STRING)
  PROVE  \E f : Loop(f, cookies)
<1> DEFINE V == Seq(STRING)
           length == Len(cookies)
           step == [i \in 1..length |->
                      [v \in V |-> IF cookies[i] = "_gSession" THEN v
                                   ELSE Append(v, cookies[i])]]
<1>1. length \in Nat /\ <<>> \in V
  OBVIOUS
<1>2. step \in Steps(length, V)
  <2>1. \A i \in 1..length : cookies[i] \in STRING
    OBVIOUS
  <2>2. \A i \in 1..length, v \in V : Append(v, cookies[i]) \in V
    BY <2>1
  <2> QED
    BY <2>2 DEF Steps
<1>3. \E f : Follows(f, V, <<>>, step, length)
  <2> HIDE DEF V, length, step
  <2> QED
    BY <1>1, <1>2, Loops
<1>4. PICK f \in [0..length -> V] : /\ f[0] = <<>>
                                    /\ \A i \in 1..length : f[i] = step[i][f[i - 1]]
  BY <1>3 DEF Follows
<1>5. ASSUME NEW i \in 0..length
      PROVE  f[i] = IF i = 0 THEN <<>>
                    ELSE IF cookies[i] = "_gSession" THEN f[i - 1]
                    ELSE Append(f[i - 1], cookies[i])
  <2>1. CASE i = 0
    BY <1>4, <2>1
  <2>2. CASE i # 0
    <3>1. i \in 1..length /\ f[i - 1] \in V
      BY <2>2
    <3>2. f[i] = step[i][f[i - 1]]
      BY <1>4, <3>1
    <3> QED
      BY <2>2, <3>1, <3>2
  <2> QED
    BY <2>1, <2>2
<1>6. f = [i \in 0..length |-> f[i]]
  OBVIOUS
<1>7. Loop(f, cookies)
  BY <1>5, <1>6 DEF Loop
<1> QED
  BY <1>7

\* What Rewrite sends on has none of the session's cookies and all others.
LEMMA WhatRemains ==
  ASSUME NEW cookies \in Seq(STRING)
  PROVE  /\ Remaining(cookies) \in Seq(STRING)
         /\ \A i \in DOMAIN Remaining(cookies) : Remaining(cookies)[i] # "_gSession"
         /\ Len(Remaining(cookies)) =
               Cardinality({i \in DOMAIN cookies : cookies[i] # "_gSession"})
<1> DEFINE kept == CHOOSE f : Loop(f, cookies)
           Others(n) == {i \in 1..n : cookies[i] # "_gSession"}
           S == {n \in 0..Len(cookies) :
                   /\ kept[n] \in Seq(STRING)
                   /\ \A i \in DOMAIN kept[n] : kept[n][i] # "_gSession"
                   /\ IsFiniteSet(Others(n))
                   /\ Len(kept[n]) = Cardinality(Others(n))}
<1>1. Loop(kept, cookies)
  BY LoopRuns
<1>2. Remaining(cookies) = kept[Len(cookies)]
  BY DEF Remaining, Loop
<1> HIDE DEF kept
<1>3. \A n \in 0..Len(cookies) : kept[n] = IF n = 0 THEN <<>>
                               ELSE IF cookies[n] = "_gSession" THEN kept[n - 1]
                               ELSE Append(kept[n - 1], cookies[n])
  BY <1>1 DEF Loop
<1>4. 0 \in S
  <2>1. kept[0] = <<>>
    BY <1>3
  <2>2. Others(0) = {}
    OBVIOUS
  <2>3. IsFiniteSet(Others(0)) /\ Cardinality(Others(0)) = 0
    BY <2>2, FS_EmptySet
  <2>4. 0 \in 0..Len(cookies)
    OBVIOUS
  <2> HIDE DEF Others
  <2>5. /\ kept[0] \in Seq(STRING)
        /\ \A i \in DOMAIN kept[0] : kept[0][i] # "_gSession"
        /\ Len(kept[0]) = 0
    BY <2>1
  <2> QED
    BY <2>3, <2>4, <2>5
<1>5. ASSUME NEW n \in Nat, n \in S, n < Len(cookies) PROVE n + 1 \in S
  <2>1. /\ kept[n] \in Seq(STRING)
        /\ \A i \in DOMAIN kept[n] : kept[n][i] # "_gSession"
        /\ IsFiniteSet(Others(n))
        /\ Len(kept[n]) = Cardinality(Others(n))
    BY <1>5
  <2>2. n + 1 \in 1..Len(cookies) /\ cookies[n + 1] \in STRING
    BY <1>5
  <2>3. CASE cookies[n + 1] = "_gSession"
    <3>1. kept[n + 1] = kept[n]
      BY <1>3, <2>2, <2>3
    <3>2. Others(n + 1) = Others(n)
      BY <2>3
    <3> HIDE DEF Others
    <3> QED
      BY <2>1, <2>2, <3>1, <3>2
  <2>4. CASE cookies[n + 1] # "_gSession"
    <3>1. kept[n + 1] = Append(kept[n], cookies[n + 1])
      <4>1. n + 1 \in 0..Len(cookies) /\ n + 1 # 0 /\ (n + 1) - 1 = n
        BY <2>2
      <4> QED
        BY <1>3, <2>4, <4>1
    <3>2. Others(n + 1) = Others(n) \cup {n + 1} /\ n + 1 \notin Others(n)
      BY <2>4
    <3> HIDE DEF Others
    <3>3. IsFiniteSet(Others(n + 1)) /\ Cardinality(Others(n + 1)) = Cardinality(Others(n)) + 1
      BY <2>1, <3>2, FS_AddElement
    <3>4. kept[n + 1] \in Seq(STRING) /\ Len(kept[n + 1]) = Len(kept[n]) + 1
      BY <2>1, <2>2, <3>1
    <3>5. \A i \in DOMAIN kept[n + 1] : kept[n + 1][i] # "_gSession"
      BY <2>1, <2>2, <2>4, <3>1
    <3> QED
      BY <2>1, <2>2, <3>3, <3>4, <3>5
  <2> QED
    BY <2>3, <2>4
<1> HIDE DEF S
<1>6. S \in SUBSET Nat
  BY DEF S
<1>7. Len(cookies) \in S
  <2>1. Len(cookies) \in Nat
    OBVIOUS
  <2>2. \A n \in Nat : n \in S /\ n < Len(cookies) => n + 1 \in S
    BY <1>5
  <2> QED
    BY <1>4, <1>6, <2>1, <2>2, AlongList
<1>8. Others(Len(cookies)) = {i \in DOMAIN cookies : cookies[i] # "_gSession"}
  OBVIOUS
<1> QED
  BY <1>2, <1>7, <1>8 DEF S

\* What is sent is what is left of the cookies of a request considered.
Sent == /\ outcome # "none" => request \in Requests
        /\ outcome = "forwarded" => sent = Remaining(request.cookies)

\* If the cookie has the name that Rewrite knows, no session is shown to an
\* upstream and no other cookie is lost.
THEOREM Session ==
  ASSUME CookieName = "_gSession" PROVE Spec => []SessionStays
<1>1. Init => Sent
  BY DEF Init, Sent
<1>2. Sent /\ [Next]_vars => Sent'
  <2> SUFFICES ASSUME Sent, [Next]_vars PROVE Sent'
    OBVIOUS
  <2>1. CASE Rewrite
    <3>1. outcome = "accepted" /\ request' = request /\ sent' = Remaining(request.cookies)
      BY <2>1 DEF Rewrite
    <3>2. sent' = Remaining(request'.cookies)
      BY <3>1
    <3> QED
      BY <3>1, <3>2 DEF Sent
  <2>2. ASSUME NEW q \in Requests, Arrive(q) PROVE Sent'
    BY <2>2 DEF Arrive, Sent
  <2>3. CASE Start \/ Validate \/ Deny \/ UNCHANGED vars
    <3>1. /\ UNCHANGED <<request, sent>>
          /\ outcome' # "none" => outcome # "none"
          /\ outcome' = "forwarded" => outcome = "forwarded"
      BY <2>3 DEF Start, Validate, Deny, vars, requestVars
    <3>2. Remaining(request.cookies)' = Remaining(request.cookies)
      BY <3>1
    <3> QED
      BY <3>1, <3>2 DEF Sent
  <2> QED
    BY <2>1, <2>2, <2>3 DEF Next
<1>3. Sent => SessionStays
  <2> SUFFICES ASSUME Sent, outcome = "forwarded" PROVE SessionStays
    BY DEF SessionStays
  <2>1. request.cookies \in Seq(STRING) /\ sent = Remaining(request.cookies)
    BY RequestsAssumption DEF Sent
  <2> QED
    BY <2>1, WhatRemains, CookieName = "_gSession" DEF SessionStays
<1> QED
  BY <1>1, <1>2, <1>3, PTL DEF Spec

-----------------------------------------------------------------------------
\* The upstream plugin's loops, pass by pass.
FindLoop(f, list, host) ==
    f = [n \in 0..Len(list) |->
            IF n = 0 THEN 0 ELSE IF list[n].hostname = host THEN n ELSE f[n - 1]]

PathLoop(f, paths, path) ==
    f = [n \in 0..Len(paths) |->
            IF n = 0 THEN "open"
            ELSE IF f[n - 1] = "open" /\ IsPrefix(paths[n], path) THEN "blocked"
            ELSE f[n - 1]]

SourceLoop(f, nets, source) ==
    f = [n \in 0..Len(nets) |->
            IF n = 0 THEN IF nets = <<>> THEN "allowed" ELSE "searching"
            ELSE IF f[n - 1] # "searching" THEN f[n - 1]
            ELSE IF nets[n] \notin DOMAIN Network THEN "unparsable"
            ELSE IF source \in Network[nets[n]] THEN "allowed"
            ELSE "searching"]

\* The first runs over any upstreams,
LEMMA FindLoopRuns ==
  ASSUME NEW list \in Seq(Settings), NEW host
  PROVE  \E f : FindLoop(f, list, host)
<1> DEFINE V == Nat
           length == Len(list)
           step == [i \in 1..length |-> [v \in V |-> IF list[i].hostname = host THEN i ELSE v]]
<1>1. length \in Nat /\ 0 \in V
  OBVIOUS
<1>2. step \in Steps(length, V)
  BY DEF Steps
<1>3. \E f : Follows(f, V, 0, step, length)
  <2> HIDE DEF V, length, step
  <2> QED
    BY <1>1, <1>2, Loops
<1>4. PICK f \in [0..length -> V] : /\ f[0] = 0
                                    /\ \A i \in 1..length : f[i] = step[i][f[i - 1]]
  BY <1>3 DEF Follows
<1>5. ASSUME NEW n \in 0..length
      PROVE  f[n] = IF n = 0 THEN 0 ELSE IF list[n].hostname = host THEN n ELSE f[n - 1]
  <2>1. CASE n = 0
    BY <1>4, <2>1
  <2>2. CASE n # 0
    <3>1. n \in 1..length /\ f[n - 1] \in V
      BY <2>2
    <3>2. f[n] = step[n][f[n - 1]]
      BY <1>4, <3>1
    <3> QED
      BY <2>2, <3>1, <3>2
  <2> QED
    BY <2>1, <2>2
<1>6. f = [n \in 0..length |-> f[n]]
  OBVIOUS
<1>7. FindLoop(f, list, host)
  BY <1>5, <1>6 DEF FindLoop
<1> QED
  BY <1>7

\* the second over any paths,
LEMMA PathLoopRuns ==
  ASSUME NEW paths \in Seq(Seq(STRING)), NEW path
  PROVE  \E f : PathLoop(f, paths, path)
<1> DEFINE V == {"open", "blocked"}
           length == Len(paths)
           step == [i \in 1..length |->
                      [v \in V |-> IF v = "open" /\ IsPrefix(paths[i], path) THEN "blocked"
                                   ELSE v]]
<1>1. length \in Nat /\ "open" \in V
  OBVIOUS
<1>2. step \in Steps(length, V)
  BY DEF Steps
<1>3. \E f : Follows(f, V, "open", step, length)
  <2> HIDE DEF V, length, step
  <2> QED
    BY <1>1, <1>2, Loops
<1>4. PICK f \in [0..length -> V] : /\ f[0] = "open"
                                    /\ \A i \in 1..length : f[i] = step[i][f[i - 1]]
  BY <1>3 DEF Follows
<1>5. ASSUME NEW n \in 0..length
      PROVE  f[n] = IF n = 0 THEN "open"
                    ELSE IF f[n - 1] = "open" /\ IsPrefix(paths[n], path) THEN "blocked"
                    ELSE f[n - 1]
  <2>1. CASE n = 0
    BY <1>4, <2>1
  <2>2. CASE n # 0
    <3>1. n \in 1..length /\ f[n - 1] \in V
      <4>1. n \in 1..length /\ n - 1 \in 0..length
        BY <2>2
      <4> QED
        BY <1>4, <4>1
    <3>2. f[n] = step[n][f[n - 1]]
      BY <1>4, <3>1
    <3> QED
      BY <2>2, <3>1, <3>2
  <2> QED
    BY <2>1, <2>2
<1>6. f = [n \in 0..length |-> f[n]]
  OBVIOUS
<1>7. PathLoop(f, paths, path)
  BY <1>5, <1>6 DEF PathLoop
<1> QED
  BY <1>7

\* and the third over any networks.
LEMMA SourceLoopRuns ==
  ASSUME NEW nets \in Seq(STRING), NEW source
  PROVE  \E f : SourceLoop(f, nets, source)
<1> DEFINE V == {"searching", "allowed", "unparsable"}
           length == Len(nets)
           first == IF nets = <<>> THEN "allowed" ELSE "searching"
           step == [i \in 1..length |->
                      [v \in V |-> IF v # "searching" THEN v
                                   ELSE IF nets[i] \notin DOMAIN Network THEN "unparsable"
                                   ELSE IF source \in Network[nets[i]] THEN "allowed"
                                   ELSE "searching"]]
<1>1. length \in Nat /\ first \in V
  OBVIOUS
<1>2. step \in Steps(length, V)
  BY DEF Steps
<1>3. \E f : Follows(f, V, first, step, length)
  <2> HIDE DEF V, length, first, step
  <2> QED
    BY <1>1, <1>2, Loops
<1>4. PICK f \in [0..length -> V] : /\ f[0] = first
                                    /\ \A i \in 1..length : f[i] = step[i][f[i - 1]]
  BY <1>3 DEF Follows
<1>5. ASSUME NEW n \in 0..length
      PROVE  f[n] = IF n = 0 THEN first
                    ELSE IF f[n - 1] # "searching" THEN f[n - 1]
                    ELSE IF nets[n] \notin DOMAIN Network THEN "unparsable"
                    ELSE IF source \in Network[nets[n]] THEN "allowed"
                    ELSE "searching"
  <2>1. CASE n = 0
    BY <1>4, <2>1
  <2>2. CASE n # 0
    <3>1. n \in 1..length /\ f[n - 1] \in V
      BY <2>2
    <3>2. f[n] = step[n][f[n - 1]]
      BY <1>4, <3>1
    <3> QED
      BY <2>2, <3>1, <3>2
  <2> QED
    BY <2>1, <2>2
<1>6. f = [n \in 0..length |-> f[n]]
  OBVIOUS
<1>7. SourceLoop(f, nets, source)
  BY <1>5, <1>6 DEF SourceLoop
<1> QED
  BY <1>7

\* The loop without a break ends with the last upstream of the name.
LEMMA FindsLast ==
  ASSUME NEW list \in Seq(Settings), NEW host
  PROVE  LET i == findMatchingUpstream(list, host) IN
         \/ i = 0 /\ \A j \in DOMAIN list : list[j].hostname # host
         \/ /\ i \in DOMAIN list /\ list[i].hostname = host
            /\ \A j \in DOMAIN list : list[j].hostname = host => j <= i
<1> DEFINE f == CHOOSE g : FindLoop(g, list, host)
           S == {n \in 0..Len(list) :
                   \/ f[n] = 0 /\ \A j \in 1..n : list[j].hostname # host
                   \/ /\ f[n] \in 1..n /\ list[f[n]].hostname = host
                      /\ \A j \in 1..n : list[j].hostname = host => j <= f[n]}
<1>1. FindLoop(f, list, host)
  BY FindLoopRuns
<1>2. findMatchingUpstream(list, host) = f[Len(list)]
  BY DEF findMatchingUpstream, FindLoop
<1> HIDE DEF f
<1>3. \A n \in 0..Len(list) :
         f[n] = IF n = 0 THEN 0 ELSE IF list[n].hostname = host THEN n ELSE f[n - 1]
  BY <1>1 DEF FindLoop
<1>4. 0 \in S
  BY <1>3
<1>5. ASSUME NEW n \in Nat, n \in S, n < Len(list) PROVE n + 1 \in S
  <2>1. /\ n + 1 \in 0..Len(list) /\ n + 1 # 0 /\ (n + 1) - 1 = n
        /\ \A j \in 1..(n + 1) : j \in 1..n \/ j = n + 1
    BY <1>5
  <2>2. f[n + 1] = IF list[n + 1].hostname = host THEN n + 1 ELSE f[n]
    BY <1>3, <2>1
  <2>3. CASE list[n + 1].hostname = host
    BY <2>1, <2>2, <2>3
  <2>4. CASE list[n + 1].hostname # host
    <3>1. f[n + 1] = f[n]
      BY <2>2, <2>4
    <3> QED
      BY <1>5, <2>1, <2>4, <3>1
  <2> QED
    BY <2>3, <2>4
<1> HIDE DEF S
<1>6. S \in SUBSET Nat
  BY DEF S
<1>7. Len(list) \in S
  <2>1. Len(list) \in Nat
    OBVIOUS
  <2>2. \A n \in Nat : n \in S /\ n < Len(list) => n + 1 \in S
    BY <1>5
  <2> QED
    BY <1>4, <1>6, <2>1, <2>2, AlongList
<1>8. DOMAIN list = 1..Len(list)
  OBVIOUS
<1> QED
  BY <1>2, <1>7, <1>8 DEF S

\* The loop over the blocked paths passes what none of them begins.
LEMMA PassesUnblocked ==
  ASSUME NEW paths \in Seq(Seq(STRING)), NEW path
  PROVE  pathCheck(paths, path) = "open" <=> ~ \E b \in DOMAIN paths : IsPrefix(paths[b], path)
<1> DEFINE f == CHOOSE g : PathLoop(g, paths, path)
           S == {n \in 0..Len(paths) :
                   \/ f[n] = "open" /\ \A b \in 1..n : ~IsPrefix(paths[b], path)
                   \/ f[n] = "blocked" /\ \E b \in 1..n : IsPrefix(paths[b], path)}
<1>1. PathLoop(f, paths, path)
  BY PathLoopRuns
<1>2. pathCheck(paths, path) = f[Len(paths)]
  BY DEF pathCheck, PathLoop
<1> HIDE DEF f
<1>3. \A n \in 0..Len(paths) :
         f[n] = IF n = 0 THEN "open"
                ELSE IF f[n - 1] = "open" /\ IsPrefix(paths[n], path) THEN "blocked"
                ELSE f[n - 1]
  BY <1>1 DEF PathLoop
<1>4. 0 \in S
  BY <1>3
<1>5. ASSUME NEW n \in Nat, n \in S, n < Len(paths) PROVE n + 1 \in S
  <2>1. /\ n + 1 \in 0..Len(paths) /\ n + 1 # 0 /\ (n + 1) - 1 = n
        /\ \A j \in 1..(n + 1) : j \in 1..n \/ j = n + 1
        /\ \A j \in 1..n : j \in 1..(n + 1)
    BY <1>5
  <2>2. f[n + 1] = IF f[n] = "open" /\ IsPrefix(paths[n + 1], path) THEN "blocked" ELSE f[n]
    BY <1>3, <2>1
  <2> QED
    BY <1>5, <2>1, <2>2
<1> HIDE DEF S
<1>6. S \in SUBSET Nat
  BY DEF S
<1>7. Len(paths) \in S
  <2>1. Len(paths) \in Nat
    OBVIOUS
  <2>2. \A n \in Nat : n \in S /\ n < Len(paths) => n + 1 \in S
    BY <1>5
  <2> QED
    BY <1>4, <1>6, <2>1, <2>2, AlongList
<1>8. DOMAIN paths = 1..Len(paths)
  OBVIOUS
<1> QED
  BY <1>2, <1>7, <1>8 DEF S

\* The loop over the networks stops at the first that holds the address, and
\* for good at one that does not parse.
LEMMA AllowsSource ==
  ASSUME NEW u \in Settings, NEW source
  PROVE  sourceCheck(u.allowedSources, source) = "allowed" <=> SourceAllowed(u, source)
<1> DEFINE nets == u.allowedSources
           f == CHOOSE g : SourceLoop(g, nets, source)
           Misses(n) == \A m \in 1..n : nets[m] \in DOMAIN Network /\ source \notin Network[nets[m]]
           S == {n \in 0..Len(nets) :
                   \/ f[n] = "searching" /\ Misses(n)
                   \/ /\ f[n] = "allowed"
                      /\ \E k \in 1..n : /\ Misses(k - 1)
                                         /\ nets[k] \in DOMAIN Network
                                         /\ source \in Network[nets[k]]
                   \/ /\ f[n] = "unparsable"
                      /\ \E k \in 1..n : Misses(k - 1) /\ nets[k] \notin DOMAIN Network}
<1>1. nets \in Seq(STRING)
  BY ListsAssumption
<1> HIDE DEF nets
<1>2. SourceLoop(f, nets, source)
  BY <1>1, SourceLoopRuns
<1>3. sourceCheck(nets, source) = f[Len(nets)]
  BY DEF sourceCheck, SourceLoop
<1> HIDE DEF f
<1>4. \A n \in 0..Len(nets) :
         f[n] = IF n = 0 THEN IF nets = <<>> THEN "allowed" ELSE "searching"
                ELSE IF f[n - 1] # "searching" THEN f[n - 1]
                ELSE IF nets[n] \notin DOMAIN Network THEN "unparsable"
                ELSE IF source \in Network[nets[n]] THEN "allowed"
                ELSE "searching"
  BY <1>2 DEF SourceLoop
<1>5. CASE nets = <<>>
  <2>1. Len(nets) = 0 /\ f[0] = "allowed"
    BY <1>4, <1>5
  <2> QED
    BY <1>3, <1>5, <2>1 DEF SourceAllowed, nets
<1>6. CASE nets # <<>>
  <2>1. 0 \in S
    BY <1>1, <1>4, <1>6
  <2>2. ASSUME NEW n \in Nat, n \in S, n < Len(nets) PROVE n + 1 \in S
    <3>1. /\ n + 1 \in 0..Len(nets) /\ n + 1 # 0 /\ (n + 1) - 1 = n
          /\ \A j \in 1..(n + 1) : j \in 1..n \/ j = n + 1
          /\ \A j \in 1..n : j \in 1..(n + 1)
          /\ n + 1 \in 1..(n + 1)
      BY <1>1, <2>2
    <3>2. f[n + 1] = IF f[n] # "searching" THEN f[n]
                     ELSE IF nets[n + 1] \notin DOMAIN Network THEN "unparsable"
                     ELSE IF source \in Network[nets[n + 1]] THEN "allowed"
                     ELSE "searching"
      BY <1>4, <3>1
    <3>3. Misses(n) /\ nets[n + 1] \in DOMAIN Network /\ source \notin Network[nets[n + 1]]
             => Misses(n + 1)
      BY <3>1
    <3> HIDE DEF Misses
    <3> QED
      BY <2>2, <3>1, <3>2, <3>3
  <2> HIDE DEF S
  <2>3. S \in SUBSET Nat
    BY DEF S
  <2>4. Len(nets) \in S
    <3>1. Len(nets) \in Nat
      BY <1>1
    <3>2. \A n \in Nat : n \in S /\ n < Len(nets) => n + 1 \in S
      BY <2>2
    <3> QED
      BY <2>1, <2>3, <3>1, <3>2, AlongList
  <2>5. DOMAIN nets = 1..Len(nets)
    BY <1>1
  <2>6. SourceAllowed(u, source) <=>
           \E n \in 1..Len(nets) : /\ \A m \in 1..(n - 1) : nets[m] \in DOMAIN Network
                                   /\ nets[n] \in DOMAIN Network
                                   /\ source \in Network[nets[n]]
    BY <1>6, <2>5 DEF SourceAllowed, nets
  <2>7. CASE f[Len(nets)] = "allowed"
    BY <1>1, <1>3, <2>4, <2>6, <2>7 DEF S, nets
  <2>8. CASE f[Len(nets)] = "searching"
    <3>1. Misses(Len(nets))
      BY <2>4, <2>8 DEF S
    <3> QED
      BY <1>3, <2>6, <2>8, <3>1 DEF nets
  <2>9. CASE f[Len(nets)] = "unparsable"
    <3>1. PICK k \in 1..Len(nets) : Misses(k - 1) /\ nets[k] \notin DOMAIN Network
      BY <2>4, <2>9 DEF S
    <3>2. ASSUME NEW n \in 1..Len(nets), \A m \in 1..(n - 1) : nets[m] \in DOMAIN Network,
                 nets[n] \in DOMAIN Network, source \in Network[nets[n]]
          PROVE  FALSE
      <4>1. n \in Int /\ k \in Int /\ n >= 1 /\ k >= 1
        BY <1>1
      <4>2. n < k => n \in 1..(k - 1)
        BY <4>1
      <4>3. k < n => k \in 1..(n - 1)
        BY <4>1
      <4> QED
        BY <3>1, <3>2, <4>1, <4>2, <4>3
    <3> QED
      BY <1>3, <2>6, <2>9, <3>2 DEF nets
  <2> QED
    BY <2>4, <2>7, <2>8, <2>9 DEF S
<1> QED
  BY <1>5, <1>6

\* The upstream plugin's loop and coraza's find the same upstream.
LEMMA SameUpstream ==
  ASSUME IInv, NEW host
  PROVE  findMatchingUpstream(upstreams, host) = FindMatchingUpstream(host)
<1> DEFINE i == findMatchingUpstream(upstreams, host)
           named == {j \in DOMAIN upstreams : upstreams[j].hostname = host}
           IsLast(j) == \A k \in named : j >= k
<1>1. upstreams \in Seq(Settings)
  BY DEF IInv
<1>2. \/ i = 0 /\ \A j \in DOMAIN upstreams : upstreams[j].hostname # host
      \/ /\ i \in DOMAIN upstreams /\ upstreams[i].hostname = host
         /\ \A j \in DOMAIN upstreams : upstreams[j].hostname = host => j <= i
  BY <1>1, FindsLast
<1>3. DOMAIN upstreams \subseteq Nat \ {0}
  BY <1>1
<1> HIDE DEF i
<1>4. CASE named = {}
  BY <1>2, <1>4 DEF FindMatchingUpstream, i
<1>5. CASE named # {}
  <2>1. i \in named /\ IsLast(i)
    BY <1>2, <1>3, <1>5
  <2>2. \A j \in named : IsLast(j) => j = i
    BY <1>3, <2>1
  <2>3. FindMatchingUpstream(host) = CHOOSE j \in named : IsLast(j)
    BY <1>5 DEF FindMatchingUpstream
  <2> HIDE DEF named, IsLast
  <2>4. (CHOOSE j \in named : IsLast(j)) = i
    BY <2>1, <2>2
  <2> QED
    BY <2>3, <2>4 DEF i
<1> QED
  BY <1>4, <1>5

\* For any upstreams and any request, the upstream plugin that is no longer
\* registered answers what coraza answers in its place once its limiter allows.
SamePlugin ==
    \A host, path, source :
        UpstreamValidate(upstreams, host, path, source) <=>
            LET i == FindMatchingUpstream(host)
            IN  i # 0 /\ Admits(upstreams[i], path, source)

THEOREM PluginReplaced == Spec => []SamePlugin
<1>1. IInv => SamePlugin
  <2> SUFFICES ASSUME IInv, NEW host, NEW path, NEW source
               PROVE  UpstreamValidate(upstreams, host, path, source) <=>
                         LET i == FindMatchingUpstream(host)
                         IN  i # 0 /\ Admits(upstreams[i], path, source)
    BY DEF SamePlugin
  <2> DEFINE i == FindMatchingUpstream(host)
             u == upstreams[i]
  <2>1. findMatchingUpstream(upstreams, host) = i
    BY SameUpstream
  <2>2. CASE i = 0
    BY <2>1, <2>2 DEF UpstreamValidate
  <2>3. CASE i # 0
    <3>1. u \in Settings
      <4>1. upstreams \in Seq(Settings)
        BY DEF IInv
      <4>2. i \in DOMAIN upstreams
        BY <2>1, <2>3, <4>1, FindsLast
      <4> QED
        BY <4>1, <4>2
    <3> HIDE DEF i
    <3>2. u.blockedPaths \in Seq(Seq(STRING))
      BY <3>1, ListsAssumption
    <3>3. pathCheck(u.blockedPaths, path) = "open" <=> ~Blocked(u, path)
      BY <3>2, PassesUnblocked DEF Blocked
    <3>4. sourceCheck(u.allowedSources, source) = "allowed" <=> SourceAllowed(u, source)
      BY <3>1, AllowsSource
    <3> QED
      BY <2>1, <2>3, <3>3, <3>4 DEF UpstreamValidate, Admits, i
  <2> QED
    BY <2>2, <2>3
<1> QED
  BY <1>1, Inductive, PTL
=============================================================================
