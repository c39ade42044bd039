------------------------- MODULE RunValidationProofs -------------------------
(***************************************************************************)
(* Proofs about RunValidation, for any finite set of plugins.  The         *)
(* inductive invariant IInv ties the WaitGroup counter to the goroutines   *)
(* that are alive, and says which rejections have left their goroutine:    *)
(* at most one, the one the caller returned with.                          *)
(***************************************************************************)
EXTENDS RunValidation, FiniteSetTheorems, TLAPS

\* The plugins whose rejection has been received.
Delivered == {p \in Rejecters : goroutine[p] \in {"returning", "done"}}

WgCountsLive == wg = Cardinality(Live)

Phases == /\ closer = "unborn" <=> collector = "spawning"
          /\ collector # "spawning" => \A p \in Plugins : goroutine[p] # "unborn"
          /\ closed <=> closer = "done"
          /\ closer \in {"closing", "done"} => Live = {}
          /\ result # "none" <=> collector = "returned"

Votes == \A p \in Plugins :
            /\ verdict[p] = "none" <=> goroutine[p] \in {"unborn", "validating"}
            /\ goroutine[p] = "sending" => verdict[p] = "reject"

FirstRejection == /\ result # "false" => Delivered = {}
                  /\ result = "false" => \E p \in Plugins : Delivered = {p}

IInv == TypeOK /\ WgCountsLive /\ Phases /\ Votes /\ FirstRejection /\ ResultIsSound

-----------------------------------------------------------------------------
\* The goroutines alive are finitely many, so that they can be counted.
LEMMA LiveIsFinite == IsFiniteSet(Live) /\ Cardinality(Live) \in Nat
<1>1. Live \subseteq Plugins
  BY DEF Live
<1> QED
  BY <1>1, PluginsAssumption, FS_Subset, FS_CardinalityType

\* The program starts in the invariant.
LEMMA InitIInv == Init => IInv
<1> SUFFICES ASSUME Init PROVE IInv
  OBVIOUS
<1> USE DEF Init
<1>1. TypeOK
  BY DEF TypeOK
<1>2. Live = {}
  BY DEF Live
<1>3. WgCountsLive
  BY <1>2, FS_EmptySet DEF WgCountsLive
<1>4. Phases /\ Votes /\ ResultIsSound
  BY <1>2 DEF Phases, Votes, ResultIsSound, Rejecters
<1>5. FirstRejection
  BY DEF FirstRejection, Delivered, Rejecters
<1> QED
  BY <1>1, <1>3, <1>4, <1>5 DEF IInv

\* wg.Add(1) and the new goroutine keep the counter equal to the number alive.
LEMMA SpawnIInv == ASSUME IInv, NEW p \in Plugins, Spawn(p) PROVE IInv'
<1> USE DEF IInv, Spawn
<1>1. TypeOK'
  BY DEF TypeOK
<1>2. Live' = Live \cup {p} /\ p \notin Live
  BY DEF TypeOK, Live
<1>3. WgCountsLive'
  BY <1>2, LiveIsFinite, FS_AddElement DEF WgCountsLive
<1>4. Phases'
  BY DEF Phases, TypeOK
<1>5. Votes' /\ ResultIsSound'
  BY DEF Votes, TypeOK, ResultIsSound, Rejecters
<1>6. Delivered' = Delivered
  BY DEF Delivered, Rejecters, TypeOK
<1>7. FirstRejection'
  BY <1>6 DEF FirstRejection
<1> QED
  BY <1>1, <1>3, <1>4, <1>5, <1>7

\* A vote leaves the goroutine alive, in its send or on its way to Done.
LEMMA VoteIInv == ASSUME IInv, NEW p \in Plugins, Vote(p) PROVE IInv'
<1> USE DEF IInv
<1>1. PICK v \in {"accept", "reject"} :
         /\ verdict' = [verdict EXCEPT ![p] = v]
         /\ goroutine' = [goroutine EXCEPT ![p] =
                             IF v = "reject" THEN "sending" ELSE "returning"]
  BY DEF Vote
<1>2. /\ goroutine[p] = "validating"
      /\ UNCHANGED <<collector, result, wg, closer, closed>>
  BY DEF Vote
<1>3. TypeOK'
  BY <1>1, <1>2 DEF TypeOK
<1>4. Live' = Live /\ Live # {}
  BY <1>1, <1>2 DEF TypeOK, Live
<1>5. WgCountsLive'
  BY <1>2, <1>4 DEF WgCountsLive
<1>6. Phases'
  BY <1>1, <1>2, <1>4 DEF Phases, TypeOK
<1>7. Votes'
  BY <1>1, <1>2 DEF Votes, TypeOK
<1>8. Delivered' = Delivered
  BY <1>1, <1>2 DEF Delivered, Rejecters, TypeOK, Votes
<1>9. FirstRejection'
  BY <1>2, <1>8 DEF FirstRejection
<1>10. ResultIsSound'
  BY <1>1, <1>2 DEF ResultIsSound, Rejecters, Votes, TypeOK
<1> QED
  BY <1>3, <1>5, <1>6, <1>7, <1>9, <1>10

\* The rendezvous on the channel makes p's rejection the first and only one.
LEMMA DeliverIInv == ASSUME IInv, NEW p \in Plugins, Deliver(p) PROVE IInv'
<1> USE DEF IInv, Deliver
<1>1. TypeOK'
  BY DEF TypeOK
<1>2. Live' = Live
  BY DEF TypeOK, Live
<1>3. WgCountsLive'
  BY <1>2 DEF WgCountsLive
<1>4. Phases'
  BY <1>2 DEF Phases, TypeOK
<1>5. Votes'
  BY DEF Votes, TypeOK
<1>6. Delivered = {}
  BY DEF FirstRejection, Phases
<1>7. Delivered' = {p}
  BY <1>6 DEF Delivered, Rejecters, TypeOK, Votes
<1>8. FirstRejection' /\ ResultIsSound'
  BY <1>7 DEF FirstRejection, ResultIsSound, Delivered
<1> QED
  BY <1>1, <1>3, <1>4, <1>5, <1>8

\* A deferred Done takes one goroutine out of the count.
LEMMA DoneIInv == ASSUME IInv, NEW p \in Plugins, Done(p) PROVE IInv'
<1> USE DEF IInv, Done
<1>1. p \in Live /\ Live' = Live \ {p}
  BY DEF TypeOK, Live
<1>2. Cardinality(Live') = Cardinality(Live) - 1
  BY <1>1, LiveIsFinite, FS_RemoveElement
<1>3. WgCountsLive'
  BY <1>2 DEF WgCountsLive
<1>4. Cardinality(Live') \in Nat
  BY <1>1, LiveIsFinite, FS_RemoveElement, FS_CardinalityType
<1>5. TypeOK'
  BY <1>2, <1>4 DEF TypeOK, WgCountsLive
<1>6. Phases'
  BY <1>1 DEF Phases, TypeOK
<1>7. Votes' /\ ResultIsSound'
  BY DEF Votes, TypeOK, ResultIsSound, Rejecters
<1>8. Delivered' = Delivered
  BY DEF Delivered, Rejecters, TypeOK
<1>9. FirstRejection'
  BY <1>8 DEF FirstRejection
<1> QED
  BY <1>3, <1>5, <1>6, <1>7, <1>9

\* The steps of the closer and the two other steps of the caller change no
\* goroutine of a plugin.
LEMMA OthersIInv ==
  ASSUME IInv, SpawnCloser \/ WaitReturns \/ Close \/ ReturnTrue
  PROVE  IInv'
<1> USE DEF IInv
<1>1. UNCHANGED <<goroutine, verdict, wg>>
  BY DEF SpawnCloser, WaitReturns, Close, ReturnTrue
<1>2. TypeOK'
  BY DEF TypeOK, SpawnCloser, WaitReturns, Close, ReturnTrue
<1>3. Live' = Live /\ Rejecters' = Rejecters /\ Delivered' = Delivered
  BY <1>1 DEF Live, Rejecters, Delivered
<1>4. WgCountsLive' /\ Votes'
  BY <1>1, <1>3 DEF WgCountsLive, Votes
<1>5. WaitReturns => Live = {}
  BY LiveIsFinite, FS_EmptySet DEF WaitReturns, WgCountsLive
<1>6. Phases'
  BY <1>3, <1>5 DEF Phases, SpawnCloser, WaitReturns, Close, ReturnTrue, TypeOK
<1>7. CASE ReturnTrue
  <2>1. Live = {} /\ Delivered = {} /\ \A p \in Plugins : goroutine[p] # "unborn"
    BY <1>7 DEF ReturnTrue, Phases, FirstRejection
  <2>2. \A p \in Plugins : goroutine[p] = "done"
    BY <2>1 DEF Live, TypeOK
  <2>3. \A p \in Plugins : verdict[p] = "accept"
    BY <2>1, <2>2 DEF Votes, Delivered, Rejecters, TypeOK
  <2> QED
    BY <1>2, <1>3, <1>4, <1>6, <1>7, <2>1, <2>3
    DEF ReturnTrue, FirstRejection, ResultIsSound
<1>8. CASE ~ReturnTrue
  <2>1. UNCHANGED result
    BY <1>8 DEF SpawnCloser, WaitReturns, Close
  <2> QED
    BY <1>1, <1>2, <1>3, <1>4, <1>6, <2>1 DEF FirstRejection, ResultIsSound
<1> QED
  BY <1>7, <1>8

\* Every step of the program keeps the invariant.
LEMMA NextIInv == IInv /\ [Next]_vars => IInv'
<1> SUFFICES ASSUME IInv, [Next]_vars PROVE IInv'
  OBVIOUS
<1>1. ASSUME NEW p \in Plugins, Spawn(p) PROVE IInv'
  BY <1>1, SpawnIInv
<1>2. ASSUME NEW p \in Plugins, Vote(p) PROVE IInv'
  BY <1>2, VoteIInv
<1>3. ASSUME NEW p \in Plugins, Deliver(p) PROVE IInv'
  BY <1>3, DeliverIInv
<1>4. ASSUME NEW p \in Plugins, Done(p) PROVE IInv'
  BY <1>4, DoneIInv
<1>5. CASE SpawnCloser \/ WaitReturns \/ Close \/ ReturnTrue
  BY <1>5, OthersIInv
<1>6. CASE UNCHANGED vars
  BY <1>6 DEF vars, IInv, TypeOK, WgCountsLive, Live, Phases, Votes,
              FirstRejection, Delivered, Rejecters, ResultIsSound
<1> QED
  BY <1>1, <1>2, <1>3, <1>4, <1>5, <1>6
  DEF Next, CollectorStep, CloserStep, GoroutineStep

\* The invariant holds in every state of every behaviour.
THEOREM Invariance == Spec => []IInv
<1>1. Init => IInv
  BY InitIInv
<1>2. IInv /\ [Next]_vars => IInv'
  BY NextIInv
<1> QED
  BY <1>1, <1>2, PTL DEF Spec

\* Every variable keeps its type; the WaitGroup never goes below zero.
THEOREM TypeCorrect == Spec => []TypeOK
<1>1. IInv => TypeOK
  BY DEF IInv
<1> QED
  BY <1>1, Invariance, PTL

\* What RunValidation returns is what the plugins voted.
THEOREM Soundness == Spec => []ResultIsSound
<1>1. IInv => ResultIsSound
  BY DEF IInv
<1> QED
  BY <1>1, Invariance, PTL

\* No goroutine sends on the closed channel: the panic cannot happen.
THEOREM NoPanic == Spec => []NoSendOnClosed
<1>1. IInv => NoSendOnClosed
  <2> SUFFICES ASSUME IInv, closed, NEW p \in Plugins
               PROVE  goroutine[p] \in {"returning", "done"}
    BY DEF NoSendOnClosed
  <2>1. Live = {} /\ goroutine[p] # "unborn"
    BY DEF IInv, Phases
  <2> QED
    BY <2>1 DEF IInv, Live, TypeOK
<1> QED
  BY <1>1, Invariance, PTL

\* Of n rejections, n - 1 leave a goroutine blocked forever, and then the
\* closer is blocked as well.
THEOREM Leak == Spec => []LeakIsExact
<1>1. IInv => LeakIsExact
  <2> SUFFICES ASSUME IInv, Quiescent
               PROVE  /\ Cardinality(Blocked) = IF Rejecters = {} THEN 0
                                                ELSE Cardinality(Rejecters) - 1
                      /\ closer = "done" <=> Blocked = {}
    BY DEF LeakIsExact
  <2> USE DEF IInv
  <2>1. Blocked = Rejecters \ Delivered
    BY DEF Quiescent, Blocked, Delivered, Rejecters, Votes, TypeOK
  <2>2. IsFiniteSet(Rejecters)
    BY PluginsAssumption, FS_Subset, Rejecters \subseteq Plugins DEF Rejecters
  <2>3. Cardinality(Blocked) = IF Rejecters = {} THEN 0
                               ELSE Cardinality(Rejecters) - 1
    <3>1. CASE result = "false"
      <4>1. PICK p \in Plugins : Delivered = {p}
        BY <3>1 DEF FirstRejection
      <4>2. p \in Rejecters /\ Blocked = Rejecters \ {p}
        BY <2>1, <4>1 DEF Delivered
      <4> QED
        BY <2>2, <4>2, FS_RemoveElement
    <3>2. CASE result = "true"
      <4>1. Rejecters = {} /\ Blocked = {}
        BY <2>1, <3>2 DEF ResultIsSound, Rejecters
      <4> QED
        BY <4>1, FS_EmptySet
    <3> QED
      BY <3>1, <3>2 DEF Quiescent, Phases, TypeOK
  <2>4. Live = Blocked
    BY DEF Quiescent, Live, Blocked
  <2>5. closer = "done" => Blocked = {}
    BY <2>4 DEF Phases
  <2>6. Blocked = {} => closer = "done"
    BY <2>4, FS_EmptySet DEF WgCountsLive, Quiescent
  <2> QED
    BY <2>3, <2>5, <2>6
<1> QED
  BY <1>1, Invariance, PTL

\* RunValidation implements Verdict: it votes, refuses and admits as promised.
THEOREM Refinement == Spec => ImplementsVerdict
<1>1. Init => Abstract!Init
  BY DEF Init, Abstract!Init
<1>2. IInv /\ IInv' /\ [Next]_vars => [Abstract!Next]_Abstract!vars
  <2> SUFFICES ASSUME IInv, IInv', [Next]_vars
               PROVE  [Abstract!Next]_Abstract!vars
    OBVIOUS
  <2> USE DEF Abstract!vars
  <2>1. ASSUME NEW p \in Plugins, Vote(p) PROVE Abstract!Vote(p)
    BY <2>1 DEF Vote, Abstract!Vote, IInv, Votes
  <2>2. ASSUME NEW p \in Plugins, Deliver(p) PROVE Abstract!Refuse
    BY <2>2 DEF Deliver, Abstract!Refuse, IInv, Votes, Phases
  <2>3. ASSUME ReturnTrue PROVE Abstract!Admit
    <3>1. \A p \in Plugins : verdict'[p] = "accept"
      BY <2>3 DEF ReturnTrue, IInv, ResultIsSound
    <3> QED
      BY <2>3, <3>1 DEF ReturnTrue, Abstract!Admit, IInv, Phases
  <2>4. ASSUME NEW p \in Plugins, Spawn(p) \/ Done(p)
        PROVE  UNCHANGED Abstract!vars
    BY <2>4 DEF Spawn, Done
  <2>5. ASSUME SpawnCloser \/ WaitReturns \/ Close \/ UNCHANGED vars
        PROVE  UNCHANGED Abstract!vars
    BY <2>5 DEF SpawnCloser, WaitReturns, Close, vars
  <2> QED
    BY <2>1, <2>2, <2>3, <2>4, <2>5
    DEF Next, CollectorStep, CloserStep, GoroutineStep, Abstract!Next
<1> QED
  BY <1>1, <1>2, Invariance, PTL DEF Spec, ImplementsVerdict, Abstract!Spec
=============================================================================
