------------------------------- MODULE Verdict -------------------------------
(***************************************************************************)
(* What a fan-out over the plugins promises its caller, whatever the way   *)
(* the votes are collected: the caller is told FALSE only when some plugin *)
(* rejected, TRUE only when every plugin accepted, and it is told once.    *)
(* RunValidation implements this with goroutines and a channel, HandleProxy*)
(* relies on it for every request.                                         *)
(***************************************************************************)
CONSTANTS Plugins,      \* the registered plugins
          CanReject     \* the plugins whose vote can be "reject"

VARIABLES verdict,      \* verdict[p]: "none" until plugin p has voted
          result        \* "none" until the caller has its answer

vars == <<verdict, result>>

Init == /\ verdict = [p \in Plugins |-> "none"]
        /\ result = "none"

Vote(p) == /\ verdict[p] = "none"
           /\ \E v \in {"accept", "reject"} :
                 /\ v = "reject" => p \in CanReject
                 /\ verdict' = [verdict EXCEPT ![p] = v]
           /\ UNCHANGED result

Refuse == /\ result = "none"
          /\ \E p \in Plugins : verdict[p] = "reject"
          /\ result' = "false"
          /\ UNCHANGED verdict

Admit == /\ result = "none"
         /\ \A p \in Plugins : verdict[p] = "accept"
         /\ result' = "true"
         /\ UNCHANGED verdict

Next == \/ \E p \in Plugins : Vote(p)
        \/ Refuse
        \/ Admit

Spec == Init /\ [][Next]_vars
=============================================================================
