---------------------------- MODULE RunValidation ----------------------------
(***************************************************************************)
(* RunValidation of internal/plugins/plugin.go (RunVerification is the     *)
(* same program with Verify for Validate): one goroutine per plugin, an    *)
(* unbuffered channel on which a goroutine sends only when its plugin      *)
(* rejects, a WaitGroup, one goroutine that closes the channel once the    *)
(* WaitGroup is at zero, and the calling goroutine, here the collector,    *)
(* which ranges over the channel and returns at the first rejection.       *)
(***************************************************************************)
EXTENDS Naturals, FiniteSets

CONSTANTS Plugins,      \* keys of the plugin map
          CanReject     \* the plugins whose Validate can return false

ASSUME PluginsAssumption == /\ IsFiniteSet(Plugins)
                            /\ CanReject \subseteq Plugins

VARIABLES collector,    \* the caller: "spawning", "receiving" or "returned"
          result,       \* what RunValidation returned: "none", "true", "false"
          goroutine,    \* goroutine[p]: state of the goroutine of plugin p
          verdict,      \* verdict[p]: what p.Validate returned
          wg,           \* counter of validationWg
          closer,       \* the goroutine that waits for wg and closes
          closed        \* validationChannel is closed

vars == <<collector, result, goroutine, verdict, wg, closer, closed>>

Rejecters == {p \in Plugins : verdict[p] = "reject"}
Blocked   == {p \in Plugins : goroutine[p] = "sending"}

\* The goroutines that were added to the WaitGroup and are not done with it.
Live == {p \in Plugins : goroutine[p] \in {"validating", "sending", "returning"}}
-----------------------------------------------------------------------------
Init == /\ collector = "spawning"
        /\ result = "none"
        /\ goroutine = [p \in Plugins |-> "unborn"]
        /\ verdict = [p \in Plugins |-> "none"]
        /\ wg = 0
        /\ closer = "unborn"
        /\ closed = FALSE

(***************************************************************************)
(* The loop over the map: its order is random in Go, so any unborn plugin  *)
(* may be next.  Add(1) comes before the go statement and nobody else      *)
(* reads the counter yet, so the two are one step.                         *)
(***************************************************************************)
Spawn(p) == /\ collector = "spawning"
            /\ goroutine[p] = "unborn"
            /\ wg' = wg + 1
            /\ goroutine' = [goroutine EXCEPT ![p] = "validating"]
            /\ UNCHANGED <<collector, result, verdict, closer, closed>>

\* Mutant: the closer is started before the loop.
SpawnCloserFirst == /\ collector = "spawning"
                    /\ closer' = "waiting"
                    /\ collector' = "receiving"
                    /\ UNCHANGED <<result, goroutine, verdict, wg, closed>>

\* After the loop the closer starts and the caller goes on to the range loop.
SpawnCloser == /\ collector = "spawning"
               /\ \A p \in Plugins : goroutine[p] # "unborn"
               /\ closer' = "waiting"
               /\ collector' = "receiving"
               /\ UNCHANGED <<result, goroutine, verdict, wg, closed>>

\* Mutant: every plugin reports on the channel, whatever it found.
VoteAlwaysSends(p) ==
    /\ goroutine[p] = "validating"
    /\ \E v \in {"accept", "reject"} :
          /\ v = "reject" => p \in CanReject
          /\ verdict' = [verdict EXCEPT ![p] = v]
    /\ goroutine' = [goroutine EXCEPT ![p] = "sending"]
    /\ UNCHANGED <<collector, result, wg, closer, closed>>

\* Mutant: Done is called before the send instead of being deferred.
VoteDoneFirst(p) ==
    /\ goroutine[p] = "validating"
    /\ \E v \in {"accept", "reject"} :
          /\ v = "reject" => p \in CanReject
          /\ verdict' = [verdict EXCEPT ![p] = v]
          /\ goroutine' = [goroutine EXCEPT ![p] =
                              IF v = "reject" THEN "sending" ELSE "done"]
    /\ wg' = wg - 1
    /\ UNCHANGED <<collector, result, closer, closed>>

\* p.Validate(c) returns; only a rejection goes to the channel.
Vote(p) == /\ goroutine[p] = "validating"
           /\ \E v \in {"accept", "reject"} :
                 /\ v = "reject" => p \in CanReject
                 /\ verdict' = [verdict EXCEPT ![p] = v]
                 /\ goroutine' = [goroutine EXCEPT ![p] =
                                     IF v = "reject" THEN "sending" ELSE "returning"]
           /\ UNCHANGED <<collector, result, wg, closer, closed>>

\* Mutant: the caller drains the channel instead of returning at once.
DeliverAndDrain(p) == /\ collector = "receiving"
                      /\ goroutine[p] = "sending"
                      /\ goroutine' = [goroutine EXCEPT ![p] = "returning"]
                      /\ UNCHANGED <<collector, result, verdict, wg, closer, closed>>

\* Mutant: the results of the two returns are swapped.
DeliverSwapped(p) == /\ collector = "receiving"
                     /\ goroutine[p] = "sending"
                     /\ goroutine' = [goroutine EXCEPT ![p] = "returning"]
                     /\ collector' = "returned"
                     /\ result' = "true"
                     /\ UNCHANGED <<verdict, wg, closer, closed>>

(***************************************************************************)
(* The channel is unbuffered: a send and a receive happen together, and    *)
(* the caller returns false with the first value.  After that nobody ever  *)
(* receives again.                                                         *)
(***************************************************************************)
Deliver(p) == /\ collector = "receiving"
              /\ goroutine[p] = "sending"
              /\ goroutine' = [goroutine EXCEPT ![p] = "returning"]
              /\ collector' = "returned"
              /\ result' = "false"
              /\ UNCHANGED <<verdict, wg, closer, closed>>

\* Mutant: the deferred Done is forgotten.
DoneForgotten(p) == /\ goroutine[p] = "returning"
                    /\ goroutine' = [goroutine EXCEPT ![p] = "done"]
                    /\ UNCHANGED <<collector, result, verdict, wg, closer, closed>>

\* The deferred validationWg.Done().
Done(p) == /\ goroutine[p] = "returning"
           /\ wg' = wg - 1
           /\ goroutine' = [goroutine EXCEPT ![p] = "done"]
           /\ UNCHANGED <<collector, result, verdict, closer, closed>>

\* validationWg.Wait() returns.
WaitReturns == /\ closer = "waiting"
               /\ wg = 0
               /\ closer' = "closing"
               /\ UNCHANGED <<collector, result, goroutine, verdict, wg, closed>>

\* close(validationChannel).
Close == /\ closer = "closing"
         /\ closed' = TRUE
         /\ closer' = "done"
         /\ UNCHANGED <<collector, result, goroutine, verdict, wg>>

\* The range loop ends on the closed channel.
ReturnTrue == /\ collector = "receiving"
              /\ closed
              /\ collector' = "returned"
              /\ result' = "true"
              /\ UNCHANGED <<goroutine, verdict, wg, closer, closed>>

CollectorStep == SpawnCloser \/ ReturnTrue \/ (\E p \in Plugins : Spawn(p) \/ Deliver(p))
GoroutineStep(p) == Vote(p) \/ Done(p)
CloserStep == WaitReturns \/ Close

Next == CollectorStep \/ CloserStep \/ \E p \in Plugins : GoroutineStep(p)

Spec == Init /\ [][Next]_vars

(***************************************************************************)
(* The Go scheduler runs every runnable goroutine, and Validate returns.   *)
(***************************************************************************)
FairSpec == /\ Spec
            /\ WF_vars(CollectorStep)
            /\ WF_vars(CloserStep)
            /\ \A p \in Plugins : WF_vars(GoroutineStep(p))
-----------------------------------------------------------------------------
\* Every variable keeps its type; the WaitGroup counter in particular never
\* goes below zero, where Go panics.
TypeOK == /\ collector \in {"spawning", "receiving", "returned"}
          /\ result \in {"none", "true", "false"}
          /\ goroutine \in [Plugins -> {"unborn", "validating", "sending",
                                        "returning", "done"}]
          /\ verdict \in [Plugins -> {"none", "accept", "reject"}]
          /\ wg \in Nat
          /\ closer \in {"unborn", "waiting", "closing", "done"}
          /\ closed \in BOOLEAN

\* The caller is told true only when every plugin has voted and accepted, and
\* false only when one rejected, however the goroutines interleave.
ResultIsSound == /\ result = "true" => \A p \in Plugins : verdict[p] = "accept"
                 /\ result = "false" => Rejecters # {}

\* No goroutine can still send once the channel is closed: such a send
\* panics in a goroutine nobody recovers and takes the whole proxy down.
NoSendOnClosed ==
    closed => \A p \in Plugins : goroutine[p] \in {"returning", "done"}

\* When nothing can run any more, all the rejections but the first are stuck
\* in their send, and the closer ended only if none is.
Quiescent == /\ collector = "returned"
             /\ \A p \in Plugins : goroutine[p] \in {"sending", "done"}
             /\ closer = "done" \/ (closer = "waiting" /\ wg > 0)

LeakIsExact ==
    Quiescent =>
        /\ Cardinality(Blocked) = IF Rejecters = {} THEN 0
                                  ELSE Cardinality(Rejecters) - 1
        /\ closer = "done" <=> Blocked = {}

AllFinished == /\ collector = "returned"
               /\ closer = "done"
               /\ \A p \in Plugins : goroutine[p] = "done"

\* The request is never held up by the fan-out: RunValidation returns.
CollectorReturns == <>(collector = "returned")

\* As long as at most one plugin rejects, every goroutine that was started
\* also ends.
CleanExit == [](Cardinality(Rejecters) <= 1) => <>AllFinished

\* RunValidation returns a verdict in the sense of Verdict.
Abstract == INSTANCE Verdict
ImplementsVerdict == Abstract!Spec
=============================================================================
