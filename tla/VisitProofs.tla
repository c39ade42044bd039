----------------------------- MODULE VisitProofs -----------------------------
(***************************************************************************)
(* A cookie in the jar never outlives its key.  The invariant compares the *)
(* two clocks: what is left of a cookie's max-age is at most what is left  *)
(* of its key's life, and the key of a cookie on a counting page, which no *)
(* other tab and no folder has, does not expire yet.                       *)
(***************************************************************************)
EXTENDS Visit, TLAPS

JarOf(f) ==
    jar[f] # NoCookie =>
        \/ jar[f] \in lost
        \/ /\ jar[f] \in known
           /\ left[f] > 0
           /\ expiry[jar[f]] = 0 \/ left[f] <= expiry[jar[f]]

CountingOf(t) ==
    tab[t] = "counting" =>
        /\ carried[t] \in Cookies
        /\ \/ carried[t] \in lost
           \/ carried[t] \in known /\ expiry[carried[t]] = 0
        /\ \A f \in Folders : jar[f] # carried[t]
        /\ \A u \in Tabs \ {t} : carried[u] # carried[t]

IInv == /\ TypeOK
        /\ \A f \in Folders : JarOf(f)
        /\ \A t \in Tabs : CountingOf(t)

LEMMA InitIInv == Init => IInv
BY VisitAssumption DEF Init, IInv, TypeOK, JarOf, CountingOf, Folders, TabStates

\* The cookie of a request is one of the jar, or none.
LEMMA SentFromJar ==
  ASSUME NEW f \in Folders, NEW j
  PROVE  Sent(f, j) \in {NoCookie} \cup {j[g] : g \in Folders}
BY DEF Sent, Folders

LEMMA OpenIInv == ASSUME IInv, NEW t \in Tabs, Open(t) PROVE IInv'
<1> USE VisitAssumption DEF IInv
<1>1. PICK f \in Folders : /\ folder' = [folder EXCEPT ![t] = f]
                           /\ carried' = [carried EXCEPT ![t] = Sent(f, jar)]
  BY DEF Open
<1>2. /\ tab' = [tab EXCEPT ![t] = "pending"]
      /\ UNCHANGED <<jar, left, known, expiry, lost, flushes>>
  BY DEF Open, Show, browser, store
<1>3. Sent(f, jar) \in {NoCookie} \cup {jar[g] : g \in Folders}
  BY SentFromJar
<1>4. TypeOK'
  BY <1>1, <1>2, <1>3 DEF TypeOK, TabStates
<1>5. \A g \in Folders : JarOf(g)'
  BY <1>2 DEF JarOf
<1>6. ASSUME NEW u \in Tabs PROVE CountingOf(u)'
  <2>1. CASE u = t
    BY <1>2, <2>1 DEF CountingOf, TypeOK
  <2>2. CASE u # t
    <3>1. tab'[u] = tab[u] /\ carried'[u] = carried[u] /\ CountingOf(u)
      BY <1>1, <1>2, <2>2 DEF TypeOK
    <3>2. carried[u] \in Cookies 
         => \/ Sent(f, jar) # carried[u]
            \/ \E g \in Folders : jar[g] = carried[u]
      BY <1>3
    <3>3. carried'[t] = Sent(f, jar)
      BY <1>1 DEF TypeOK
    <3>4. \A v \in Tabs \ {t} : carried'[v] = carried[v]
      BY <1>1 DEF TypeOK
    <3> QED
      BY <1>2, <2>2, <3>1, <3>2, <3>3, <3>4 DEF CountingOf
  <2> QED
    BY <2>1, <2>2
<1> QED
  BY <1>4, <1>5, <1>6

\* The cookie enters the jar with a full max-age, its key without an expiry.
LEMMA CountdownIInv == ASSUME IInv, NEW t \in Tabs, Countdown(t) PROVE IInv'
<1> USE VisitAssumption DEF IInv
<1> DEFINE f == folder[t]
           c == carried[t]
<1>1. /\ tab[t] = "counting" /\ f \in Folders
      /\ jar' = [jar EXCEPT ![f] = c]
      /\ left' = [left EXCEPT ![f] = Day]
      /\ tab' = [tab EXCEPT ![t] = "pending"]
      /\ carried' = [carried EXCEPT ![t] = Sent(f, jar')]
      /\ UNCHANGED <<known, expiry, lost, flushes, folder>>
  BY DEF Countdown, Show, store, TypeOK
<1>2. /\ c \in Cookies
      /\ c \in lost \/ (c \in known /\ expiry[c] = 0)
      /\ \A g \in Folders : jar[g] # c
      /\ \A u \in Tabs \ {t} : carried[u] # c
  BY <1>1 DEF CountingOf
<1>3. Sent(f, jar') \in {NoCookie, c}
  BY <1>1, <1>2 DEF Sent, Folders, TypeOK
<1> HIDE DEF f, c
<1>4. TypeOK'
  BY <1>1, <1>2, <1>3 DEF TypeOK, TabStates
<1>5. ASSUME NEW g \in Folders PROVE JarOf(g)'
  <2>1. CASE g = f
    BY <1>1, <1>2, <2>1 DEF JarOf, TypeOK
  <2>2. CASE g # f
    BY <1>1, <2>2 DEF JarOf, TypeOK
  <2> QED
    BY <2>1, <2>2
<1>6. ASSUME NEW u \in Tabs PROVE CountingOf(u)'
  <2>1. CASE u = t
    BY <1>1, <2>1 DEF CountingOf, TypeOK
  <2>2. CASE u # t
    <3>1. tab'[u] = tab[u] /\ carried'[u] = carried[u] /\ CountingOf(u)
      BY <1>1, <2>2 DEF TypeOK
    <3>2. carried[u] # c
      BY <1>2, <2>2
    <3>3. carried'[t] \in {NoCookie, c} /\ \A v \in Tabs \ {t} : carried'[v] = carried[v]
      BY <1>1, <1>3 DEF TypeOK
    <3>4. \A g \in Folders : jar'[g] \in {c, jar[g]}
      BY <1>1 DEF TypeOK
    <3> QED
      BY <1>1, <2>2, <3>1, <3>2, <3>3, <3>4 DEF CountingOf
  <2> QED
    BY <2>1, <2>2
<1> QED
  BY <1>4, <1>5, <1>6

\* A new cookie is in no jar and in no tab.
LEMMA GiveIInv == ASSUME IInv, NEW t \in Tabs, Give(t) PROVE IInv'
<1> USE VisitAssumption DEF IInv
<1>1. PICK c \in Cookies \ Held :
        /\ known' = known \cup {c}
        /\ expiry' = [expiry EXCEPT ![c] = 0]
        /\ lost' = lost \ {c}
        /\ carried' = [carried EXCEPT ![t] = c]
  BY DEF Give, CreateCookie
<1>2. /\ tab' = [tab EXCEPT ![t] = "counting"]
      /\ UNCHANGED <<jar, left, flushes, folder>>
  BY DEF Give, Show, browser
<1>3. /\ \A f \in Folders : jar[f] # c
      /\ \A u \in Tabs : carried[u] # c
      /\ c # NoCookie
  BY DEF Held
<1>4. TypeOK'
  BY <1>1, <1>2 DEF TypeOK, TabStates
<1>5. ASSUME NEW f \in Folders PROVE JarOf(f)'
  BY <1>1, <1>2, <1>3 DEF JarOf, TypeOK
<1>6. ASSUME NEW u \in Tabs PROVE CountingOf(u)'
  <2>1. CASE u = t
    BY <1>1, <1>2, <1>3, <2>1 DEF CountingOf, TypeOK
  <2>2. CASE u # t
    BY <1>1, <1>2, <1>3, <2>2 DEF CountingOf, TypeOK
  <2> QED
    BY <2>1, <2>2
<1> QED
  BY <1>4, <1>5, <1>6

\* The other answers renew the key of the request's cookie, or no key.
LEMMA AnsweredIInv ==
  ASSUME IInv, NEW t \in Tabs, Unknown(t) \/ Serve(t) \/ Refuse(t) \/ Fail(t)
  PROVE  IInv'
<1> USE VisitAssumption DEF IInv
<1>1. PICK s \in {"forbidden", "served", "error"} :
        /\ tab[t] = "pending"
        /\ tab' = [tab EXCEPT ![t] = s]
        /\ UNCHANGED <<jar, left, known, lost, flushes, folder, carried>>
        /\ \/ expiry' = expiry
           \/ /\ carried[t] \in known
              /\ expiry' = [expiry EXCEPT ![carried[t]] = Day]
  BY DEF Unknown, Serve, Refuse, Fail, Renew, Show, browser, store
<1>2. TypeOK'
  BY <1>1 DEF TypeOK, TabStates
<1>3. ASSUME NEW f \in Folders PROVE JarOf(f)'
  BY <1>1 DEF JarOf, TypeOK
<1>4. ASSUME NEW u \in Tabs PROVE CountingOf(u)'
  BY <1>1 DEF CountingOf, TypeOK
<1> QED
  BY <1>2, <1>3, <1>4

\* A cookie leaves the jar no later than its key leaves valkey.
LEMMA TickIInv == ASSUME IInv, Tick PROVE IInv'
<1> USE VisitAssumption DEF IInv
<1>1. /\ jar' = [f \in Folders |-> IF left[f] = 1 THEN NoCookie ELSE jar[f]]
      /\ left' = [f \in Folders |-> IF left[f] = 0 THEN 0 ELSE left[f] - 1]
      /\ known' = known \ {c \in Cookies : expiry[c] = 1}
      /\ expiry' = [c \in Cookies |-> IF expiry[c] = 0 THEN 0 ELSE expiry[c] - 1]
      /\ UNCHANGED <<lost, flushes, tab, folder, carried>>
  BY DEF Tick, tabs
<1>2. TypeOK'
  BY <1>1 DEF TypeOK
<1>3. ASSUME NEW f \in Folders PROVE JarOf(f)'
  <2> SUFFICES ASSUME jar'[f] # NoCookie, jar'[f] \notin lost'
               PROVE  /\ jar'[f] \in known'
                      /\ left'[f] > 0
                      /\ expiry'[jar'[f]] = 0 \/ left'[f] <= expiry'[jar'[f]]
    BY DEF JarOf
  <2>1. /\ jar'[f] = jar[f] /\ left[f] # 1
        /\ left'[f] = IF left[f] = 0 THEN 0 ELSE left[f] - 1
    BY <1>1
  <2>2. /\ jar[f] \in known /\ left[f] > 0 /\ left[f] \in 0..Day
        /\ expiry[jar[f]] = 0 \/ left[f] <= expiry[jar[f]]
        /\ jar[f] \in Cookies /\ expiry[jar[f]] \in 0..Day
    BY <1>1, <2>1 DEF JarOf, TypeOK
  <2>3. expiry'[jar[f]] = IF expiry[jar[f]] = 0 THEN 0 ELSE expiry[jar[f]] - 1
    BY <1>1, <2>2
  <2>4. expiry[jar[f]] # 1
    BY <2>1, <2>2
  <2> QED
    BY <1>1, <2>1, <2>2, <2>3, <2>4
<1>4. ASSUME NEW u \in Tabs PROVE CountingOf(u)'
  BY <1>1 DEF CountingOf, TypeOK
<1> QED
  BY <1>2, <1>3, <1>4

LEMMA FlushIInv == ASSUME IInv, Flush PROVE IInv'
<1> USE VisitAssumption DEF IInv
<1>1. TypeOK'
  BY DEF Flush, browser, tabs, TypeOK
<1>2. \A f \in Folders : JarOf(f)'
  BY DEF Flush, browser, tabs, JarOf
<1>3. \A t \in Tabs : CountingOf(t)'
  BY DEF Flush, browser, tabs, CountingOf
<1> QED
  BY <1>1, <1>2, <1>3

THEOREM Inductive == Spec => []IInv
<1>1. IInv /\ [Next]_vars => IInv'
  <2> SUFFICES ASSUME IInv, [Next]_vars PROVE IInv'
    OBVIOUS
  <2>1. CASE Next
    BY <2>1, OpenIInv, CountdownIInv, GiveIInv, AnsweredIInv, TickIInv, FlushIInv
       DEF Next, Answer
  <2>2. CASE UNCHANGED vars
    BY <2>2 DEF vars, browser, store, tabs, IInv, TypeOK, JarOf, CountingOf
  <2> QED
    BY <2>1, <2>2
<1> QED
  BY <1>1, InitIInv, PTL DEF Spec

THEOREM TypeCorrect == Spec => []TypeOK
<1>1. IInv => TypeOK
  BY DEF IInv
<1> QED
  BY <1>1, Inductive, PTL

\* For any number of tabs and any Day: a cookie the browser keeps is known,
\* unless a restart of valkey took its key.
THEOREM NeverOutlived == Spec => []KnownWhileHeld
<1>1. IInv => KnownWhileHeld
  BY DEF IInv, JarOf, KnownWhileHeld
<1> QED
  BY <1>1, Inductive, PTL
=============================================================================
