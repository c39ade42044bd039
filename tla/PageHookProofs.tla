--------------------------- MODULE PageHookProofs ---------------------------
(***************************************************************************)
(* Proofs about PageHook for any delays and any number of strikes: what a  *)
(* page shows was deserved, and the intervals that blur keep their         *)
(* distance.                                                               *)
(***************************************************************************)
EXTENDS PageHook, TLAPS

Awake == {"fetching", "answered", "sleeping"}

TypeOK == /\ strikes \in Nat /\ most \in Nat
          /\ answer \in Int
          /\ wait \in 0..Every /\ since \in 0..Every
          /\ timers \subseteq [effect : Effects, left : Nat]
          /\ shown \subseteq Effects

\* The store, an answer under way, the timers and the page: none is ahead of
\* the strikes that the client has had.
Deserved == /\ strikes <= most
            /\ answer <= most
            /\ EffectsDeserved

Blurs == {t \in timers : t.effect = "blur"}

\* The timers that blur are Every apart, and so is the first of them from the
\* blur before.  A loop that may ask again has wait ticks until then, and as
\* the timer that it will start comes BlurAfter later, those that there are
\* and the blur before leave it the distance.
Spaced ==
    /\ \A t, u \in Blurs : t # u => t.left >= u.left + Every \/ u.left >= t.left + Every
    /\ \A t \in Blurs : since + t.left >= Every
    /\ loop \in Awake =>
         /\ loop # "sleeping" => wait = 0
         /\ since + wait + BlurAfter >= Every
         /\ \A t \in Blurs : t.left + Every <= BlurAfter + wait

IInv == TypeOK /\ Deserved /\ Spaced

-----------------------------------------------------------------------------
\* The effects, what they take and how long they wait.
LEMMA EffectFacts ==
  /\ Effects = {"blur", "distort", "gravity", "ship"}
  /\ \A e \in Effects : Threshold[e] \in Nat
  /\ \A e \in Effects \ {"ship"} : Delay[e] \in Nat
  /\ Delay["blur"] = BlurAfter
  /\ Every \in Nat \ {0} /\ BlurAfter \in Nat \ {0}
<1>1. Effects = {"blur", "distort", "gravity", "ship"}
  BY DEF Effects, Threshold
<1>2. \A e \in Effects : Threshold[e] \in Nat
  BY <1>1 DEF Threshold
<1>3. \A e \in Effects \ {"ship"} : Delay[e] \in Nat
  BY <1>1, PageHookAssumption DEF Delay
<1> QED
  BY <1>1, <1>2, <1>3, PageHookAssumption DEF Delay

\* The steps of the store and of the loop that leave the page alone.
LEMMA QuietStep ==
  ASSUME IInv, IncreaseStrikes \/ Expire \/ DropCookie \/ checkIn \/ Reject \/ Wake \/ Close
  PROVE  IInv'
<1>1. UNCHANGED <<timers, shown, since, wait>>
  BY DEF IncreaseStrikes, Expire, DropCookie, checkIn, Reject, Wake, Close, poll, page
<1>2. /\ strikes' \in Nat /\ most' \in Nat /\ answer' \in Int
      /\ strikes' <= most' /\ answer' <= most' /\ most <= most'
  BY DEF IncreaseStrikes, Expire, DropCookie, checkIn, Reject, Wake, Close,
         store, poll, Text, IInv, TypeOK, Deserved
<1>3. /\ loop' \in Awake => loop \in Awake
      /\ loop' \in Awake /\ loop' # "sleeping" => loop # "sleeping" \/ wait = 0
  BY DEF IncreaseStrikes, Expire, DropCookie, checkIn, Reject, Wake, Close, poll, Awake
<1>4. TypeOK'
  BY <1>1, <1>2 DEF IInv, TypeOK
<1>5. Deserved'
  <2>1. \A e \in shown \cup {t.effect : t \in timers} : Threshold[e] \in Nat
    BY EffectFacts DEF IInv, TypeOK
  <2>2. most \in Nat
    BY DEF IInv, TypeOK
  <2> QED
    BY <1>1, <1>2, <2>1, <2>2 DEF IInv, Deserved, EffectsDeserved
<1>6. Spaced'
  BY <1>1, <1>3 DEF IInv, Spaced, Blurs
<1> QED
  BY <1>4, <1>5, <1>6 DEF IInv

\* The loop hears an answer: it starts timers for what the answer earns, the
\* one that blurs Every after the one before at the earliest.
LEMMA PollStep == ASSUME IInv, pollHook PROVE IInv'
<1> DEFINE new == {[effect |-> e, left |-> Delay[e]] : e \in Earned(answer) \ {"ship"}}
<1>1. /\ loop = "answered" /\ loop' = "sleeping" /\ wait' = Every
      /\ timers' = timers \cup new
      /\ shown' = shown \cup (Earned(answer) \cap {"ship"})
      /\ UNCHANGED <<strikes, most, answer, since>>
  BY DEF pollHook, Heard, store
<1>2. Earned(answer) \subseteq Effects /\ \A e \in Earned(answer) : answer >= Threshold[e]
  BY DEF Earned
<1>3. \A t \in new : /\ t \in [effect : Effects, left : Nat]
                     /\ t.effect \in Earned(answer)
                     /\ t.effect = "blur" => t.left = BlurAfter
  BY <1>2, EffectFacts
<1> HIDE DEF new
<1>4. TypeOK'
  <2>1. timers' \subseteq [effect : Effects, left : Nat] /\ shown' \subseteq Effects
    BY <1>1, <1>2, <1>3 DEF IInv, TypeOK
  <2>2. wait' \in 0..Every
    BY <1>1, EffectFacts
  <2> QED
    BY <1>1, <2>1, <2>2 DEF IInv, TypeOK
<1>5. Deserved'
  <2>1. \A e \in Earned(answer) : most >= Threshold[e]
    BY <1>2, EffectFacts DEF IInv, TypeOK, Deserved
  <2> QED
    BY <1>1, <1>3, <2>1 DEF IInv, Deserved, EffectsDeserved
<1>6. Spaced'
  <2>1. /\ \A t, u \in Blurs : t # u => t.left >= u.left + Every \/ u.left >= t.left + Every
        /\ \A t \in Blurs : since + t.left >= Every
        /\ since + BlurAfter >= Every
        /\ \A t \in Blurs : t.left + Every <= BlurAfter /\ t.left \in Nat
        /\ since \in Nat /\ Every \in Nat /\ BlurAfter \in Nat
    BY <1>1, EffectFacts DEF IInv, TypeOK, Spaced, Awake, Blurs
  <2>2. \A t \in Blurs' : t \in Blurs \/ (t \in new /\ t.effect = "blur" /\ t.left = BlurAfter)
    BY <1>1, <1>3 DEF Blurs
  <2>3. \A t, u \in new : t.effect = "blur" /\ u.effect = "blur" => t = u
    BY DEF new
  <2>4. \A t, u \in Blurs' : t # u => t.left >= u.left + Every \/ u.left >= t.left + Every
    BY <2>1, <2>2, <2>3
  <2>5. \A t \in Blurs' : since + t.left >= Every /\ t.left + Every <= BlurAfter + Every
    BY <2>1, <2>2
  <2> QED
    BY <1>1, <2>1, <2>4, <2>5 DEF Spaced
<1> QED
  BY <1>4, <1>5, <1>6 DEF IInv

\* A timer is due: the next that blurs has Every ticks left.
LEMMA FireStep == ASSUME IInv, NEW t \in timers, Fire(t) PROVE IInv'
<1>1. /\ t.left = 0 /\ timers' = timers \ {t} /\ shown' = shown \cup {t.effect}
      /\ since' = IF t.effect = "blur" THEN 0 ELSE since
      /\ UNCHANGED <<strikes, most, loop, answer, wait>>
  BY DEF Fire, store, poll
<1>2. t \in [effect : Effects, left : Nat]
  BY DEF IInv, TypeOK
<1>3. TypeOK'
  <2>1. timers' \subseteq [effect : Effects, left : Nat] /\ shown' \subseteq Effects
    BY <1>1, <1>2 DEF IInv, TypeOK
  <2>2. since' \in 0..Every
    BY <1>1, EffectFacts DEF IInv, TypeOK
  <2> QED
    BY <1>1, <2>1, <2>2 DEF IInv, TypeOK
<1>4. Deserved'
  BY <1>1 DEF IInv, Deserved, EffectsDeserved
<1>5. Spaced'
  <2>1. /\ \A u, v \in Blurs : u # v => u.left >= v.left + Every \/ v.left >= u.left + Every
        /\ \A u \in Blurs : u.left \in Nat /\ since + u.left >= Every
        /\ since \in Nat /\ wait \in Nat /\ Every \in Nat \ {0} /\ BlurAfter \in Nat
    BY EffectFacts DEF IInv, TypeOK, Spaced, Blurs
  <2>2. Blurs' \subseteq Blurs /\ \A u \in Blurs' : u # t
    BY <1>1 DEF Blurs
  <2>3. CASE t.effect = "blur"
    <3>1. t \in Blurs /\ since' = 0
      BY <1>1, <2>3 DEF Blurs
    <3>2. \A u \in Blurs' : u.left >= Every
      BY <1>1, <2>1, <2>2, <3>1
    <3>3. loop \in Awake => t.left + Every <= BlurAfter + wait
      BY <3>1 DEF IInv, Spaced
    <3>4. loop \in Awake => wait + BlurAfter >= Every
      BY <1>1, <2>1, <3>3
    <3>5. /\ \A u, v \in Blurs' : u # v => u.left >= v.left + Every \/ v.left >= u.left + Every
          /\ \A u \in Blurs' : since' + u.left >= Every
      BY <2>1, <2>2, <3>1, <3>2
    <3>6. loop' \in Awake =>
             /\ loop' # "sleeping" => wait' = 0
             /\ since' + wait' + BlurAfter >= Every
             /\ \A u \in Blurs' : u.left + Every <= BlurAfter + wait'
      BY <1>1, <2>1, <2>2, <3>1, <3>4 DEF IInv, Spaced
    <3> QED
      BY <3>5, <3>6 DEF Spaced
  <2>4. CASE t.effect # "blur"
    BY <1>1, <2>2, <2>4 DEF IInv, Spaced
  <2> QED
    BY <2>3, <2>4
<1> QED
  BY <1>3, <1>4, <1>5 DEF IInv

\* A tick brings the timers, the wait and the blur before on by one alike.
LEMMA TickStep == ASSUME IInv, Tick PROVE IInv'
<1>1. /\ \A t \in timers : t.left > 0
      /\ ~(loop = "sleeping" /\ wait = 0)
      /\ wait' = IF wait > 0 THEN wait - 1 ELSE 0
      /\ timers' = {[t EXCEPT !.left = @ - 1] : t \in timers}
      /\ since' = IF since < Every THEN since + 1 ELSE since
      /\ UNCHANGED <<strikes, most, loop, answer, shown>>
  BY DEF Tick, store
<1>2. /\ wait \in 0..Every /\ since \in 0..Every /\ Every \in Nat \ {0} /\ BlurAfter \in Nat
      /\ timers \subseteq [effect : Effects, left : Nat]
  BY EffectFacts DEF IInv, TypeOK
<1>3. \A t \in timers' : \E u \in timers :
         /\ t = [u EXCEPT !.left = @ - 1]
         /\ t \in [effect : Effects, left : Nat]
         /\ t.effect = u.effect /\ t.left = u.left - 1
         /\ u.left \in Nat
  <2> SUFFICES ASSUME NEW u \in timers, NEW t, t = [u EXCEPT !.left = @ - 1]
               PROVE  /\ t \in [effect : Effects, left : Nat]
                      /\ t.effect = u.effect /\ t.left = u.left - 1
                      /\ u.left \in Nat
    BY <1>1
  <2>1. u \in [effect : Effects, left : Nat] /\ u.left > 0
    BY <1>1, <1>2
  <2> QED
    BY <2>1
<1>4. TypeOK'
  BY <1>1, <1>2, <1>3 DEF IInv, TypeOK
<1>5. Deserved'
  BY <1>1, <1>3 DEF IInv, Deserved, EffectsDeserved
<1>6. Spaced'
  <2>1. \A t \in Blurs' : \E u \in Blurs : /\ t = [u EXCEPT !.left = @ - 1]
                                           /\ t.left = u.left - 1 /\ u.left \in Nat
    BY <1>3 DEF Blurs
  <2>2. \A t, u \in Blurs' : t # u => t.left >= u.left + Every \/ u.left >= t.left + Every
    <3> SUFFICES ASSUME NEW t \in Blurs', NEW u \in Blurs', t # u
                 PROVE  t.left >= u.left + Every \/ u.left >= t.left + Every
      OBVIOUS
    <3>1. PICK v \in Blurs : t = [v EXCEPT !.left = @ - 1] /\ t.left = v.left - 1 /\ v.left \in Nat
      BY <2>1
    <3>2. PICK w \in Blurs : u = [w EXCEPT !.left = @ - 1] /\ u.left = w.left - 1 /\ w.left \in Nat
      BY <2>1
    <3>3. v # w
      BY <3>1, <3>2
    <3>4. v.left >= w.left + Every \/ w.left >= v.left + Every
      BY <3>3 DEF IInv, Spaced
    <3> QED
      BY <1>2, <3>1, <3>2, <3>4
  <2>3. \A t \in Blurs' : since' + t.left >= Every
    <3> SUFFICES ASSUME NEW t \in Blurs' PROVE since' + t.left >= Every
      OBVIOUS
    <3>1. PICK u \in Blurs : t.left = u.left - 1 /\ u.left \in Nat
      BY <2>1
    <3>2. since + u.left >= Every /\ u.left > 0
      BY <1>1 DEF IInv, Spaced, Blurs
    <3> QED
      BY <1>1, <1>2, <3>1, <3>2
  <2>4. ASSUME loop \in Awake
        PROVE  /\ loop # "sleeping" => wait' = 0
               /\ since' + wait' + BlurAfter >= Every
               /\ \A t \in Blurs' : t.left + Every <= BlurAfter + wait'
    <3>1. /\ loop # "sleeping" => wait = 0
          /\ since + wait + BlurAfter >= Every
      BY <2>4 DEF IInv, Spaced
    <3>2. wait' \in Nat /\ wait' >= wait - 1 /\ (wait = 0 => wait' = 0)
      BY <1>1, <1>2
    <3>3. since' + wait' + BlurAfter >= Every
      BY <1>1, <1>2, <3>1, <3>2
    <3>4. \A t \in Blurs' : t.left + Every <= BlurAfter + wait'
      <4> SUFFICES ASSUME NEW t \in Blurs' PROVE t.left + Every <= BlurAfter + wait'
        OBVIOUS
      <4>1. PICK u \in Blurs : t.left = u.left - 1 /\ u.left \in Nat
        BY <2>1
      <4>2. u.left + Every <= BlurAfter + wait
        BY <2>4 DEF IInv, Spaced
      <4> QED
        BY <1>2, <3>2, <4>1, <4>2
    <3> QED
      BY <3>1, <3>2, <3>3, <3>4
  <2> QED
    BY <1>1, <2>2, <2>3, <2>4 DEF Spaced
<1> QED
  BY <1>4, <1>5, <1>6 DEF IInv

\* Every step keeps the invariant.
LEMMA NextIInv == IInv /\ [Next]_vars => IInv'
<1> SUFFICES ASSUME IInv, [Next]_vars PROVE IInv'
  OBVIOUS
<1>1. CASE UNCHANGED vars
  BY <1>1 DEF vars, store, poll, page, IInv, TypeOK, Deserved, EffectsDeserved, Spaced, Blurs
<1> QED
  BY <1>1, QuietStep, PollStep, FireStep, TickStep DEF Next, FireDue

\* A page starts in the invariant.
LEMMA InitIInv == Init => IInv
  BY EffectFacts DEF Init, IInv, TypeOK, Deserved, EffectsDeserved, Spaced, Blurs, Text

\* The invariant holds in every state of every behaviour.
THEOREM Invariance == Spec => []IInv
  BY InitIInv, NextIInv, PTL DEF Spec

\* No page shows, or has a timer for, an effect that its client did not have
\* the strikes for.
THEOREM EffectsAreDeserved == Spec => []EffectsDeserved
<1>1. IInv => EffectsDeserved
  BY DEF IInv, Deserved
<1> QED
  BY <1>1, Invariance, PTL

\* Between the starts of two intervals that blur the loop has waited once.
THEOREM IntervalsAreApart == Spec => IntervalsApart
<1>1. IInv /\ [Next]_vars =>
        [(\E t \in timers \ timers' : t.effect = "blur" /\ t.left = 0) => since = Every]_vars
  <2> SUFFICES ASSUME IInv, [Next]_vars, NEW t \in timers \ timers',
                      t.effect = "blur", t.left = 0
               PROVE  since = Every
    OBVIOUS
  <2>1. since + t.left >= Every /\ since \in 0..Every /\ Every \in Nat
    BY EffectFacts DEF IInv, TypeOK, Spaced, Blurs
  <2> QED
    BY <2>1
<1> QED
  BY <1>1, Invariance, PTL DEF Spec, IntervalsApart
=============================================================================
