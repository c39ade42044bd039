------------------------------ MODULE PageHook ------------------------------
(***************************************************************************)
(* A page with the injected hook, left open: its loop asks /_gsHook for    *)
(* the strikes of the client's cookie, waits and asks again, and what it   *)
(* hears starts timers in the page.  checkIn answers from the store, where *)
(* other requests of the client add strikes, the key expires and commands  *)
(* fail.  Timers of the page are on time, answers take any time.           *)
(***************************************************************************)
EXTENDS Integers

CONSTANTS Every, BlurAfter, DistortAfter, GravityAfter,   \* delays in ticks
          MaxStrikes                                      \* bound of a run

ASSUME PageHookAssumption ==
    /\ {Every, BlurAfter, DistortAfter, GravityAfter} \subseteq Nat \ {0}
    /\ MaxStrikes \in Nat

VARIABLES strikes,    \* of the cookie in the store; a missing key counts 0
          held,       \* whether the browser still has the cookie
          most,       \* history: the most strikes the cookie has ever had
          loop,       \* "fetching", "answered", "sleeping", "dead", "closed"
          answer,     \* of checkIn: the strikes, or Text for what is not JSON
          wait,       \* ticks until the loop asks again
          timers,     \* of the page: records [effect, left], with the ticks
                      \* left to it
          shown,      \* effects the page has shown
          since       \* history: ticks since the last interval that blurs
                      \* was started, up to Every

store == <<strikes, held, most>>
poll  == <<loop, answer, wait>>
page  == <<timers, shown, since>>
vars  == <<store, poll, page>>

Text      == -1
Threshold == [blur |-> 1, distort |-> 3, gravity |-> 5, ship |-> 10]
Effects   == DOMAIN Threshold
Delay     == [blur |-> BlurAfter, distort |-> DistortAfter, gravity |-> GravityAfter]

Init == /\ strikes = 0 /\ held = TRUE /\ most = 0
        /\ loop = "fetching" /\ answer = Text /\ wait = 0
        /\ timers = {} /\ shown = {} /\ since = Every
-----------------------------------------------------------------------------
\* Another request of the client is refused.
IncreaseStrikes == /\ strikes < MaxStrikes
                   /\ strikes' = strikes + 1
                   /\ most' = IF strikes' > most THEN strikes' ELSE most
                   /\ UNCHANGED <<held, poll, page>>

\* The key goes with its strikes.
Expire == /\ strikes > 0
          /\ strikes' = 0
          /\ UNCHANGED <<held, most, poll, page>>

\* The max-age of the cookie is over.
DropCookie == /\ held
              /\ held' = FALSE
              /\ UNCHANGED <<strikes, most, poll, page>>

\* No cookie is 403 with a text, a failing store 500 with a page, and either is
\* like an answer that never comes; else what the store says at this moment.
checkIn == /\ loop = "fetching"
           /\ loop' = "answered"
           /\ \/ answer' = Text
              \/ held /\ answer' = strikes
           /\ UNCHANGED <<store, wait, page>>
-----------------------------------------------------------------------------
\* Mutant: what distorts the pointer is what blurs.
EarnedByOne(n) == {e \in Effects : n >= Threshold[e]}
                  \cup (IF n >= 1 THEN {"distort"} ELSE {})

\* What an answer of n strikes brings about.  (The overlay for two strikes and
\* more is in the else of one strike and more.)
Earned(n) == {e \in Effects : n >= Threshold[e]}

Heard(n) == /\ timers' = timers \cup
                         {[effect |-> e, left |-> Delay[e]] : e \in Earned(n) \ {"ship"}}
            /\ shown' = shown \cup (Earned(n) \cap {"ship"})

\* Mutant: the loop asks again as soon as it has been answered.
pollHookAtOnce == /\ loop = "answered" /\ answer # Text
                  /\ Heard(answer)
                  /\ loop' = "sleeping" /\ wait' = 0
                  /\ UNCHANGED <<store, answer, since>>

\* Mutant: an answer without strikes ends the loop.
pollHookOnce == /\ loop = "answered" /\ answer # Text
                /\ Heard(answer)
                /\ answer > 0
                /\ loop' = "sleeping" /\ wait' = Every
                /\ UNCHANGED <<store, answer, since>>

pollHook == /\ loop = "answered" /\ answer # Text
            /\ Heard(answer)
            /\ loop' = "sleeping" /\ wait' = Every
            /\ UNCHANGED <<store, answer, since>>

\* res.json() throws, nothing catches it, and the loop is over.
Reject == /\ loop = "answered" /\ answer = Text
          /\ loop' = "dead"
          /\ UNCHANGED <<store, answer, wait, page>>

Wake == /\ loop = "sleeping" /\ wait = 0
        /\ loop' = "fetching"
        /\ UNCHANGED <<store, answer, wait, page>>

\* A timer is due.  Each blur starts one more interval that is never cleared.
Fire(t) == /\ loop # "closed"
           /\ t \in timers /\ t.left = 0
           /\ timers' = timers \ {t}
           /\ shown' = shown \cup {t.effect}
           /\ since' = IF t.effect = "blur" THEN 0 ELSE since
           /\ UNCHANGED <<store, poll>>

Tick == /\ loop # "closed"
        /\ \A t \in timers : t.left > 0
        /\ ~(loop = "sleeping" /\ wait = 0)
        /\ wait' = IF wait > 0 THEN wait - 1 ELSE 0
        /\ timers' = {[t EXCEPT !.left = @ - 1] : t \in timers}
        /\ since' = IF since < Every THEN since + 1 ELSE since
        /\ UNCHANGED <<store, loop, answer, shown>>

Close == /\ loop # "closed"
         /\ loop' = "closed"
         /\ UNCHANGED <<store, answer, wait, page>>

FireDue == \E t \in timers : Fire(t)

Next == \/ IncreaseStrikes \/ Expire \/ DropCookie \/ Close
        \/ checkIn \/ pollHook \/ Reject \/ Wake \/ Tick \/ FireDue

\* The proxy answers, and the page runs on.
Fairness == /\ WF_vars(checkIn) /\ WF_vars(pollHook) /\ WF_vars(Reject)
            /\ WF_vars(Wake) /\ WF_vars(Tick) /\ WF_vars(FireDue)

Spec == Init /\ [][Next]_vars /\ Fairness
-----------------------------------------------------------------------------
\* A page is blurred, distorted or set swinging only for a client that had the
\* strikes it takes, however late the answer and the timer, and whatever has
\* become of the key since.
EffectsDeserved ==
    \A e \in shown \cup {t.effect : t \in timers} : most >= Threshold[e]

\* Intervals that blur pile up, as nothing clears one; but no faster than the
\* loop asks: a wait of Every lies between the starts of two of them.
IntervalsApart ==
    [][(\E t \in timers \ timers' : t.effect = "blur" /\ t.left = 0) => since = Every]_vars

\* A client that has strikes and leaves its page open sees it blurred, unless
\* its key expires or the loop dies of an answer that is not JSON.
StruckBlurred ==
    strikes > 0 ~> "blur" \in shown \/ strikes = 0 \/ loop \in {"dead", "closed"}
=============================================================================
