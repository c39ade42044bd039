----------------------------- MODULE HandleProxy -----------------------------
(***************************************************************************)
(* handleProxy of cmd/api/handlers.go with the plugins it runs and the     *)
(* valkey store they share: concurrent requests, each a handler goroutine  *)
(* and the two validators that can reject it.  A validator keeps running   *)
(* after the handler has answered, any call to valkey can fail before or   *)
(* after it took effect, and keys expire.                                  *)
(*                                                                         *)
(* The fan-out is the one of Verdict (RunValidation implements it); the    *)
(* arithmetic of the limiter is in ValkeyBucket: here a bucket earns a     *)
(* token when it will.  scriptinjector.Validate and the three Verify       *)
(* methods always return true and are left out.                            *)
(***************************************************************************)
EXTENDS Naturals, FiniteSets

CONSTANTS Requests,         \* each arrives at most once
          Cookies,          \* cookie values, issued or made up by a client
          Returning,        \* those issued and used before the run starts
          Capacity,         \* size of a bucket
          NoCookie

ASSUME ProxyAssumption == /\ IsFiniteSet(Requests)
                          /\ Returning \subseteq Cookies
                          /\ Capacity \in Nat
                          /\ NoCookie \notin Cookies

VARIABLES known, ttl,       \* the keys in valkey; those with an expiry
          tokens, strikes,  \* fields of a key; without a tokens field: full
          issued, lost,     \* history: cookies given out; keys that expired
          cookie, hosted,   \* of a request: its cookie; its host is configured
          stage,            \* where its handler is
          vote,             \* vote[r][v]: what validator v returned for r
          coraza,           \* where coraza.Validate is
          denied,           \* the WAF denied the request or its response
          injected,         \* postprocessors that have run
          forwarded, struck, answer

store   == <<known, ttl, tokens, strikes>>
history == <<issued, lost>>
request == <<cookie, hosted>>
votes   == <<vote, coraza>>
handler == <<denied, injected, forwarded, struck>>
vars    == <<store, history, request, stage, votes, handler, answer>>

Validators     == {"browser", "coraza"}
Postprocessors == {"scriptinjector", "coraza"}
Verdicts       == {"accept", "reject"}
-----------------------------------------------------------------------------
Init == /\ known = Returning
        /\ ttl = Returning
        /\ tokens \in {f \in [Cookies -> 0..Capacity] :
                          \A c \in Cookies \ Returning : f[c] = Capacity}
        /\ strikes = [c \in Cookies |-> 0]
        /\ issued = Returning
        /\ lost = {}
        /\ cookie = [r \in Requests |-> NoCookie]
        /\ hosted = [r \in Requests |-> FALSE]
        /\ stage = [r \in Requests |-> "idle"]
        /\ vote = [r \in Requests |-> [v \in Validators |-> "none"]]
        /\ coraza = [r \in Requests |-> "off"]
        /\ denied = [r \in Requests |-> FALSE]
        /\ injected = [r \in Requests |-> {}]
        /\ forwarded = [r \in Requests |-> FALSE]
        /\ struck = [r \in Requests |-> 0]
        /\ answer = [r \in Requests |-> "none"]

\* Commands of the store (tbl.go), each atomic in valkey.
Hmset(c) == /\ known' = known \cup {c}
            /\ UNCHANGED <<ttl, tokens, strikes>>

\* HINCRBY creates a missing key, without an expiry.
Hincrby(c) == /\ known' = known \cup {c}
              /\ strikes' = [strikes EXCEPT ![c] = @ + 1]
              /\ UNCHANGED <<ttl, tokens>>

\* Mutant: the script does not renew the expiry.
AllowScriptNoExpiry(c) ==
    /\ known' = known \cup {c}
    /\ tokens' = [tokens EXCEPT ![c] = IF @ >= 1 THEN @ - 1 ELSE @]
    /\ UNCHANGED <<ttl, strikes>>

\* The script creates a missing key as well, with a full bucket and an expiry.
AllowScript(c) == /\ known' = known \cup {c}
                  /\ ttl' = ttl \cup {c}
                  /\ tokens' = [tokens EXCEPT ![c] = IF @ >= 1 THEN @ - 1 ELSE @]
                  /\ UNCHANGED strikes

\* A key goes a day after its last script run, whoever is holding the cookie.
Expire(c) == /\ c \in ttl
             /\ known' = known \ {c}
             /\ ttl' = ttl \ {c}
             /\ tokens' = [tokens EXCEPT ![c] = Capacity]
             /\ strikes' = [strikes EXCEPT ![c] = 0]
             /\ lost' = lost \cup {c}
             /\ UNCHANGED <<issued, request, stage, votes, handler, answer>>

\* Mutant: the refill is not limited to the capacity.
RefillUncapped(c) == /\ c \in ttl
                     /\ tokens' = [tokens EXCEPT ![c] = @ + 1]
                     /\ UNCHANGED <<known, ttl, strikes, history, request, stage,
                                    votes, handler, answer>>

\* Time passes: the next script run will find one more token.
Refill(c) == /\ tokens[c] < Capacity
             /\ tokens' = [tokens EXCEPT ![c] = @ + 1]
             /\ UNCHANGED <<known, ttl, strikes, history, request, stage, votes,
                            handler, answer>>
-----------------------------------------------------------------------------
Goto(r, s) == stage' = [stage EXCEPT ![r] = s]

\* The handler writes its answer and returns.
Answer(r, a) == /\ Goto(r, "done")
                /\ answer' = [answer EXCEPT ![r] = a]

Arrive(r) == /\ stage[r] = "idle"
             /\ \E c \in Cookies \cup {NoCookie}, h \in BOOLEAN :
                   /\ cookie' = [cookie EXCEPT ![r] = c]
                   /\ hosted' = [hosted EXCEPT ![r] = h]
                   /\ Goto(r, IF c = NoCookie THEN "missing" ELSE "lookup")
             /\ UNCHANGED <<store, history, votes, handler, answer>>

\* handleMissingCookie: an AJAX request is told "NO".
RefuseAjax(r) == /\ stage[r] = "missing"
                 /\ Answer(r, "forbidden")
                 /\ UNCHANGED <<store, history, request, votes, handler>>

\* It creates a cookie, never seen before, and answers with the script that
\* sets it; on an error of valkey the client never learns the cookie.
IssueCookie(r) ==
    /\ stage[r] = "missing"
    /\ hosted[r]
    /\ \E c \in Cookies \ issued :
          \/ /\ Hmset(c)
             /\ issued' = issued \cup {c}
             /\ Answer(r, "script")
          \/ /\ Hmset(c) \/ UNCHANGED store
             /\ issued' = issued \cup {c}
             /\ Answer(r, "error")
    /\ UNCHANGED <<lost, request, votes, handler>>

\* GenerateCookie fails.
NoNewCookie(r) == /\ stage[r] = "missing"
                  /\ Answer(r, "error")
                  /\ UNCHANGED <<store, history, request, votes, handler>>

\* The map has no limiter for the host: the call on the nil interface panics
\* and net/http closes the connection.
NilLimiter(r) == /\ stage[r] \in {"missing", "lookup"}
                 /\ ~hosted[r]
                 /\ Answer(r, "aborted")
                 /\ UNCHANGED <<store, history, request, votes, handler>>

\* Mutant: a client with an unknown cookie gets a strike as well.
LookupStrikesUnknown(r) ==
    /\ stage[r] = "lookup"
    /\ hosted[r]
    /\ \/ /\ cookie[r] \in known
          /\ Goto(r, "validating")
          /\ coraza' = [coraza EXCEPT ![r] = "start"]
          /\ UNCHANGED <<store, answer>>
       \/ /\ cookie[r] \notin known
          /\ Hincrby(cookie[r])
          /\ Answer(r, "forbidden")
          /\ UNCHANGED coraza
    /\ UNCHANGED <<history, request, vote, handler>>

\* tbi.Exists; with a known cookie the validators start.
Lookup(r) ==
    /\ stage[r] = "lookup"
    /\ hosted[r]
    /\ \/ /\ cookie[r] \in known
          /\ Goto(r, "validating")
          /\ coraza' = [coraza EXCEPT ![r] = "start"]
          /\ UNCHANGED answer
       \/ /\ cookie[r] \notin known
          /\ Answer(r, "forbidden")
          /\ UNCHANGED coraza
       \/ /\ Answer(r, "error")
          /\ UNCHANGED coraza
    /\ UNCHANGED <<store, history, request, vote, handler>>
-----------------------------------------------------------------------------
Cast(r, v, x) == vote' = [vote EXCEPT ![r][v] = x]

BrowserValidate(r) == /\ coraza[r] # "off"
                      /\ vote[r]["browser"] = "none"
                      /\ \E x \in Verdicts : Cast(r, "browser", x)
                      /\ UNCHANGED <<store, history, request, stage, coraza,
                                     handler, answer>>

\* coraza.Validate reads the strikes and logs whether there are 20 of them; the
\* request goes on either way, and so it does after an error.
ReadStrikes(r) == /\ coraza[r] = "start"
                  /\ coraza' = [coraza EXCEPT ![r] = "read"]
                  /\ UNCHANGED <<store, history, request, stage, vote, handler,
                                 answer>>

\* Mutant: a limiter that cannot be reached lets the request pass.
AllowFailsOpen(r) ==
    /\ coraza[r] = "read"
    /\ \/ /\ AllowScript(cookie[r])
          /\ tokens[cookie[r]] >= 1
          /\ coraza' = [coraza EXCEPT ![r] = "paid"]
          /\ UNCHANGED vote
       \/ /\ AllowScript(cookie[r])
          /\ tokens[cookie[r]] = 0
          /\ coraza' = [coraza EXCEPT ![r] = "refused"]
          /\ Cast(r, "coraza", "reject")
       \/ /\ AllowScript(cookie[r]) \/ UNCHANGED store
          /\ coraza' = [coraza EXCEPT ![r] = "refused"]
          /\ Cast(r, "coraza", "accept")
    /\ UNCHANGED <<history, request, stage, handler, answer>>

\* It has the script take a token.  The request's context is cancelled when
\* the handler returns or the client goes away: then, as on an error of valkey,
\* the script may or may not have run.
Allow(r) ==
    /\ coraza[r] = "read"
    /\ \/ /\ AllowScript(cookie[r])
          /\ tokens[cookie[r]] >= 1
          /\ coraza' = [coraza EXCEPT ![r] = "paid"]
          /\ UNCHANGED vote
       \/ /\ AllowScript(cookie[r])
          /\ tokens[cookie[r]] = 0
          /\ coraza' = [coraza EXCEPT ![r] = "refused"]
          /\ Cast(r, "coraza", "reject")
       \/ /\ AllowScript(cookie[r]) \/ UNCHANGED store
          /\ coraza' = [coraza EXCEPT ![r] = "refused"]
          /\ Cast(r, "coraza", "reject")
    /\ UNCHANGED <<history, request, stage, handler, answer>>

\* Blocked paths and allowed sources of the upstream.
StaticChecks(r) == /\ coraza[r] = "paid"
                   /\ vote[r]["coraza"] = "none"
                   /\ \E x \in Verdicts : Cast(r, "coraza", x)
                   /\ UNCHANGED <<store, history, request, stage, coraza,
                                  handler, answer>>
-----------------------------------------------------------------------------
\* Mutant: a request is refused only when all validators reject it.
RefuseUnanimous(r) == /\ stage[r] = "validating"
                      /\ \A v \in Validators : vote[r][v] = "reject"
                      /\ Goto(r, "striking")
                      /\ UNCHANGED <<store, history, request, votes, handler,
                                     answer>>

\* RunValidation returns false: with the first rejection.
Refuse(r) == /\ stage[r] = "validating"
             /\ \E v \in Validators : vote[r][v] = "reject"
             /\ Goto(r, "striking")
             /\ UNCHANGED <<store, history, request, votes, handler, answer>>

\* Mutant: the handler goes on when no plugin has rejected yet.
AdmitEarly(r) == /\ stage[r] = "validating"
                 /\ \A v \in Validators : vote[r][v] # "reject"
                 /\ Goto(r, "preprocess")
                 /\ UNCHANGED <<store, history, request, votes, handler, answer>>

\* RunValidation returns true.
Admit(r) == /\ stage[r] = "validating"
            /\ \A v \in Validators : vote[r][v] = "accept"
            /\ Goto(r, "preprocess")
            /\ UNCHANGED <<store, history, request, votes, handler, answer>>

Deny(r) == /\ denied' = [denied EXCEPT ![r] = TRUE]
           /\ Goto(r, "striking")

\* RunPreprocessor: coraza inspects the request; then the proxy forwards it.
Preprocess(r) ==
    /\ stage[r] = "preprocess"
    /\ \/ /\ forwarded' = [forwarded EXCEPT ![r] = TRUE]
          /\ Goto(r, "upstream")
          /\ UNCHANGED <<denied, answer>>
       \/ Deny(r) /\ UNCHANGED <<forwarded, answer>>
       \/ Answer(r, "error") /\ UNCHANGED <<denied, forwarded>>
    /\ UNCHANGED <<store, history, request, votes, injected, struck>>

\* The upstream answers, or a 502 is recorded in its place, and RunVerification
\* returns true; an upstream whose body breaks off makes ServeHTTP panic and
\* net/http close the connection.
Upstream(r) ==
    /\ stage[r] = "upstream"
    /\ \/ Goto(r, "postprocess") /\ UNCHANGED answer
       \/ Answer(r, "aborted")
    /\ UNCHANGED <<store, history, request, votes, handler>>

\* RunPostprocessor: the plugins in the random order of a Go map; an error or
\* a denial ends the loop, and so does a page over which the script injector
\* panics (ScriptInjector): net/http closes the connection.
Postprocess(r, p) ==
    /\ stage[r] = "postprocess"
    /\ p \in Postprocessors \ injected[r]
    /\ \/ /\ injected' = [injected EXCEPT ![r] = @ \cup {p}]
          /\ Goto(r, IF injected'[r] = Postprocessors THEN "replay" ELSE "postprocess")
          /\ UNCHANGED <<denied, answer>>
       \/ p = "coraza" /\ Deny(r) /\ UNCHANGED <<injected, answer>>
       \/ p = "scriptinjector" /\ Answer(r, "aborted") /\ UNCHANGED <<denied, injected>>
       \/ Answer(r, "error") /\ UNCHANGED <<denied, injected>>
    /\ UNCHANGED <<store, history, request, votes, forwarded, struck>>

Replay(r) == /\ stage[r] = "replay"
             /\ Answer(r, "relayed")
             /\ UNCHANGED <<store, history, request, votes, handler>>

Struck(r) == struck' = [struck EXCEPT ![r] = @ + 1]

\* Mutant: a failing IncreaseStrikes is ignored, the client is told 403.
StrikeErrorIgnored(r) ==
    /\ stage[r] = "striking"
    /\ \/ Hincrby(cookie[r]) /\ Struck(r)
       \/ UNCHANGED <<store, struck>>
    /\ Answer(r, "forbidden")
    /\ UNCHANGED <<history, request, votes, denied, injected, forwarded>>

\* Mutant: IncreaseStrikes is tried again when its answer is lost.
StrikeRetried(r) ==
    /\ stage[r] = "striking"
    /\ Hincrby(cookie[r]) /\ Struck(r)
    /\ (Answer(r, "forbidden") \/ UNCHANGED <<stage, answer>>)
    /\ UNCHANGED <<history, request, votes, denied, injected, forwarded>>

\* The three refusals: one strike for the cookie and a 403, or a 500 when
\* valkey fails, with the strike counted or not.
Strike(r) ==
    /\ stage[r] = "striking"
    /\ \/ Hincrby(cookie[r]) /\ Struck(r) /\ Answer(r, "forbidden")
       \/ Hincrby(cookie[r]) /\ Struck(r) /\ Answer(r, "error")
       \/ UNCHANGED <<store, struck>> /\ Answer(r, "error")
    /\ UNCHANGED <<history, request, votes, denied, injected, forwarded>>
-----------------------------------------------------------------------------
Handle(r) == \/ RefuseAjax(r) \/ IssueCookie(r) \/ NoNewCookie(r) \/ NilLimiter(r)
             \/ Lookup(r) \/ Refuse(r) \/ Admit(r) \/ Preprocess(r) \/ Upstream(r)
             \/ \E p \in Postprocessors : Postprocess(r, p)
             \/ Replay(r) \/ Strike(r)

CorazaValidate(r) == ReadStrikes(r) \/ Allow(r) \/ StaticChecks(r)

Next == \/ \E r \in Requests : \/ Arrive(r) \/ Handle(r)
                               \/ BrowserValidate(r) \/ CorazaValidate(r)
        \/ \E c \in Cookies : Expire(c) \/ Refill(c)

Spec == Init /\ [][Next]_vars

(***************************************************************************)
(* The goroutines of a request run, and valkey and the upstream answer or  *)
(* fail: no call blocks for ever.  Clients and expiry owe nothing.         *)
(***************************************************************************)
FairSpec == /\ Spec
            /\ \A r \in Requests : /\ WF_vars(Handle(r))
                                   /\ WF_vars(BrowserValidate(r))
                                   /\ WF_vars(CorazaValidate(r))
-----------------------------------------------------------------------------
Stages == {"idle", "missing", "lookup", "validating", "striking", "preprocess",
           "upstream", "postprocess", "replay", "done"}
Answers == {"none", "script", "forbidden", "error", "relayed", "aborted"}

\* Every variable keeps its type.
TypeOK == /\ {known, ttl, issued, lost} \subseteq SUBSET Cookies
          /\ tokens \in [Cookies -> 0..Capacity]
          /\ strikes \in [Cookies -> Nat]
          /\ cookie \in [Requests -> Cookies \cup {NoCookie}]
          /\ hosted \in [Requests -> BOOLEAN]
          /\ stage \in [Requests -> Stages]
          /\ vote \in [Requests -> [Validators -> Verdicts \cup {"none"}]]
          /\ coraza \in [Requests -> {"off", "start", "read", "paid", "refused"}]
          /\ denied \in [Requests -> BOOLEAN]
          /\ injected \in [Requests -> SUBSET Postprocessors]
          /\ forwarded \in [Requests -> BOOLEAN]
          /\ struck \in [Requests -> Nat]
          /\ answer \in [Requests -> Answers]

\* A request reaches the upstream only when both validators accepted it and a
\* token was taken for it, whatever failed or expired meanwhile; a response
\* reaches the client only when every postprocessor has passed it.
ForwardedEarned ==
    \A r \in Requests :
        /\ forwarded[r] => /\ coraza[r] = "paid"
                           /\ \A v \in Validators : vote[r][v] = "accept"
        /\ answer[r] = "relayed" => /\ forwarded[r]
                                    /\ ~denied[r]
                                    /\ injected[r] = Postprocessors

\* "We can enforce tracking cookies onto visitors. Without it, the WAF stops
\* you." (README.md:13): a cookie the proxy did not give out never gets a
\* request through; in particular no refusal creates a key for it.
OnlyIssuedPass ==
    \A r \in Requests : forwarded[r] => cookie[r] \in issued

\* The strikes of a cookie that never expired are the strikes its requests
\* were given, each at most once: concurrent refusals lose and repeat none.
StrikesAreExact ==
    /\ \A r \in Requests : struck[r] <= 1
    /\ \A c \in Cookies \ lost :
          strikes[c] = Cardinality({r \in Requests : cookie[r] = c /\ struck[r] > 0})

\* The client of a request that a plugin refused sees the 403 only after the
\* strike is counted, and only such requests are struck.
RefusalRecorded ==
    \A r \in Requests :
        LET rejected == denied[r] \/ \E v \in Validators : vote[r][v] = "reject"
        IN  /\ answer[r] = "forbidden" /\ coraza[r] # "off" => struck[r] > 0
            /\ struck[r] > 0 => rejected
            /\ struck[r] > 0 => answer[r] \in {"forbidden", "error"}

\* Only the script gives a key an expiry; HMSET and HINCRBY make keys that stay
\* in valkey for ever (tbl.go:43-57).  Which are they?  Keys that no request
\* has had a token from: of clients that never came back, or who were refused
\* before the limiter answered.  And keys of cookies whose day was over when a
\* refusal was still to be counted: the strike makes them again.
KeysForEver ==
    \A c \in known \ ttl :
        IF c \in lost THEN strikes[c] > 0
        ELSE \A r \in Requests : cookie[r] = c => coraza[r] # "paid"

\* What RunValidation means to a request: it is not called or has not returned,
\* or it has, with the verdict of Verdict.
Waiting(r) == coraza[r] = "off" \/ stage[r] \in {"idle", "missing", "lookup", "validating"}

Returned(r) == CASE Waiting(r) -> "none"
                 [] ~Waiting(r) /\ (\A v \in Validators : vote[r][v] = "accept") -> "true"
                 [] ~Waiting(r) /\ (\E v \in Validators : vote[r][v] # "accept") -> "false"

Validation(r) == INSTANCE Verdict WITH Plugins <- Validators,
                                       CanReject <- Validators,
                                       verdict <- vote[r],
                                       result <- Returned(r)

\* Every request's validation is a Verdict: once the handler has its answer,
\* the votes that come in later do not change it.
VerdictPerRequest ==
    /\ \A r \in Requests : Validation(r)!Init
    /\ [][\A r \in Requests : [Validation(r)!Next]_(Validation(r)!vars)]_vars

\* Every request that arrives is answered, or its connection closed.
EveryRequestAnswered == \A r \in Requests : stage[r] # "idle" ~> answer[r] # "none"
=============================================================================
