-------------------------- MODULE HandleProxyProofs --------------------------
(***************************************************************************)
(* Proofs about HandleProxy for any finite set of requests, any cookies    *)
(* and any capacity.  The invariant has a part about the keys in valkey    *)
(* and a part about each request, which says what its stage presupposes.   *)
(***************************************************************************)
EXTENDS HandleProxy, FiniteSetTheorems, TLAPS

\* Keys exist only for issued cookies.
Keys == ttl \subseteq known /\ known \subseteq issued

\* What the votes of a request say.
VotesOf(r) ==
    /\ coraza[r] = "off" => \A v \in Validators : vote[r][v] = "none"
    /\ coraza[r] \in {"start", "read"} => vote[r]["coraza"] = "none"
    /\ coraza[r] = "refused" => vote[r]["coraza"] = "reject"

Rejected(r) == denied[r] \/ \E v \in Validators : vote[r][v] = "reject"
Accepted(r) == /\ vote[r]["browser"] = "accept"
               /\ vote[r]["coraza"] = "accept"

\* What the stage of a request says.
StageOf(r) ==
    /\ stage[r] \in {"idle", "missing", "lookup"} => coraza[r] = "off"
    /\ coraza[r] = "off" => stage[r] \in {"idle", "missing", "lookup", "done"}
    /\ coraza[r] # "off" => cookie[r] \in issued
    /\ coraza[r] = "off" => ~forwarded[r] /\ ~denied[r] /\ struck[r] = 0
    /\ stage[r] = "lookup" => cookie[r] \in Cookies
    /\ stage[r] \in {"preprocess", "upstream", "postprocess", "replay"} =>
          Accepted(r) /\ ~denied[r]
    /\ stage[r] \in {"upstream", "postprocess", "replay"} => forwarded[r]
    /\ stage[r] = "replay" => injected[r] = Postprocessors
    /\ stage[r] = "validating" => ~denied[r]
    /\ stage[r] = "striking" => Rejected(r)
    /\ stage[r] # "done" => answer[r] = "none" /\ struck[r] = 0
    /\ forwarded[r] => Accepted(r)
    /\ answer[r] = "relayed" => /\ forwarded[r]
                                /\ ~denied[r]
                                /\ injected[r] = Postprocessors
    /\ struck[r] > 0 => Rejected(r) /\ answer[r] \in {"forbidden", "error"}
    /\ answer[r] = "forbidden" /\ coraza[r] # "off" => struck[r] > 0
    /\ struck[r] <= 1

RequestsInv == \A r \in Requests : VotesOf(r) /\ StageOf(r)

IInv == TypeOK /\ Keys /\ RequestsInv
-----------------------------------------------------------------------------
\* The program starts in the invariant.
LEMMA InitIInv == Init => IInv
<1> SUFFICES ASSUME Init PROVE IInv
  OBVIOUS
<1> USE DEF Init
<1>1. TypeOK
  BY ProxyAssumption DEF TypeOK, Stages, Answers, Verdicts
<1>2. Keys
  BY DEF Keys
<1>3. RequestsInv
  BY DEF RequestsInv, VotesOf, StageOf
<1> QED
  BY <1>1, <1>2, <1>3 DEF IInv

\* The steps that leave the requests alone.
LEMMA EnvironmentIInv ==
  ASSUME IInv, NEW c \in Cookies, Expire(c) \/ Refill(c)
  PROVE  IInv'
<1> USE DEF IInv
<1>1. UNCHANGED <<issued, request, stage, votes, handler, answer>>
  BY DEF Expire, Refill, history
<1>2. TypeOK'
  <2>1. /\ tokens' \in [Cookies -> 0..Capacity]
        /\ strikes' \in [Cookies -> Nat]
        /\ {known', ttl', lost'} \subseteq SUBSET Cookies
    <3>1. CASE Expire(c)
      BY <3>1, ProxyAssumption DEF Expire, TypeOK
    <3>2. CASE Refill(c)
      BY <3>2, ProxyAssumption DEF Refill, history, TypeOK
    <3> QED
      BY <3>1, <3>2
  <2> QED
    BY <1>1, <2>1 DEF request, votes, handler, TypeOK
<1>3. Keys'
  BY <1>1 DEF Expire, Refill, history, Keys, TypeOK
<1>4. RequestsInv'
  BY <1>1 DEF request, votes, handler, RequestsInv, VotesOf, StageOf, Rejected,
              Accepted
<1> QED
  BY <1>2, <1>3, <1>4

\* A step of request r leaves the other requests, and so what is said of them.
OnlyRequest(r) ==
    \A q \in Requests \ {r} :
        /\ cookie'[q] = cookie[q] /\ stage'[q] = stage[q] /\ vote'[q] = vote[q]
        /\ coraza'[q] = coraza[q] /\ denied'[q] = denied[q]
        /\ injected'[q] = injected[q] /\ forwarded'[q] = forwarded[q]
        /\ struck'[q] = struck[q] /\ answer'[q] = answer[q]

LEMMA OneRequest ==
  ASSUME IInv, TypeOK', Keys', NEW r \in Requests, OnlyRequest(r),
         issued \subseteq issued', VotesOf(r)', StageOf(r)'
  PROVE  IInv'
<1>1. ASSUME NEW q \in Requests, q # r PROVE VotesOf(q)' /\ StageOf(q)'
  BY <1>1 DEF IInv, RequestsInv, OnlyRequest, VotesOf, StageOf, Rejected, Accepted
<1> QED
  BY <1>1 DEF IInv, RequestsInv

\* The steps before validation that end the request.
LEMMA EarlyEndIInv ==
  ASSUME IInv, NEW r \in Requests, RefuseAjax(r) \/ NoNewCookie(r) \/ NilLimiter(r)
  PROVE  IInv'
<1>1. PICK a \in {"forbidden", "error", "aborted"} : Answer(r, a)
  BY DEF RefuseAjax, NoNewCookie, NilLimiter
<1>2. /\ stage[r] \in {"missing", "lookup"}
      /\ UNCHANGED <<store, history, request, votes, handler>>
  BY DEF RefuseAjax, NoNewCookie, NilLimiter
<1> USE <1>1, <1>2
    DEF IInv, Answer, Goto, store, history, request, votes, handler
<1>3. TypeOK'
  BY DEF TypeOK, Stages, Answers
<1>4. Keys' /\ OnlyRequest(r)
  BY DEF Keys, OnlyRequest, TypeOK
<1>5. VotesOf(r)' /\ StageOf(r)'
  BY DEF RequestsInv, VotesOf, StageOf, Rejected, Accepted, TypeOK
<1> QED
  BY <1>3, <1>4, <1>5, OneRequest

\* A request arrives, with or without a cookie.
LEMMA ArriveIInv == ASSUME IInv, NEW r \in Requests, Arrive(r) PROVE IInv'
<1>1. PICK c \in Cookies \cup {NoCookie}, h \in BOOLEAN :
         /\ cookie' = [cookie EXCEPT ![r] = c]
         /\ hosted' = [hosted EXCEPT ![r] = h]
         /\ stage' = [stage EXCEPT ![r] =
                         IF c = NoCookie THEN "missing" ELSE "lookup"]
  BY DEF Arrive, Goto
<1>2. /\ stage[r] = "idle"
      /\ UNCHANGED <<store, history, votes, handler, answer>>
  BY DEF Arrive
<1> USE <1>1, <1>2 DEF IInv, store, history, votes, handler
<1>3. TypeOK'
  BY DEF TypeOK, Stages
<1>4. Keys' /\ OnlyRequest(r)
  BY DEF Keys, OnlyRequest, TypeOK
<1>5. VotesOf(r)' /\ StageOf(r)'
  BY ProxyAssumption DEF RequestsInv, VotesOf, StageOf, Rejected, Accepted, TypeOK
<1> QED
  BY <1>3, <1>4, <1>5, OneRequest

\* A cookie is given out; its key is new and unused.
LEMMA IssueIInv == ASSUME IInv, NEW r \in Requests, IssueCookie(r) PROVE IInv'
<1>1. PICK c \in Cookies \ issued, a \in {"script", "error"} :
         /\ Hmset(c) \/ UNCHANGED store
         /\ issued' = issued \cup {c}
         /\ Answer(r, a)
  BY DEF IssueCookie
<1>2. /\ stage[r] = "missing"
      /\ UNCHANGED <<lost, request, votes, handler>>
  BY DEF IssueCookie
<1>3. /\ known' \subseteq known \cup {c}
      /\ UNCHANGED <<ttl, tokens, strikes>>
  BY <1>1 DEF Hmset, store
<1> USE DEF IInv, Answer, Goto, request, votes, handler
<1>4. TypeOK'
  BY <1>1, <1>2, <1>3 DEF TypeOK, Stages, Answers
<1>5. Keys'
  BY <1>1, <1>3, <1>2 DEF Keys, Hmset, store
<1>6. OnlyRequest(r)
  BY <1>1, <1>2 DEF OnlyRequest, TypeOK
<1>7. VotesOf(r)' /\ StageOf(r)'
  BY <1>1, <1>2 DEF RequestsInv, VotesOf, StageOf, Rejected, Accepted, TypeOK
<1> QED
  BY <1>1, <1>4, <1>5, <1>6, <1>7, OneRequest

\* Only a known, and so an issued, cookie starts the validators.
LEMMA LookupIInv == ASSUME IInv, NEW r \in Requests, Lookup(r) PROVE IInv'
<1> USE DEF IInv, Answer, Goto, store, history, request, handler
<1>1. /\ stage[r] = "lookup"
      /\ UNCHANGED <<store, history, request, vote, handler>>
  BY DEF Lookup
<1>2. TypeOK'
  BY DEF Lookup, TypeOK, Stages, Answers
<1>3. Keys' /\ OnlyRequest(r)
  BY DEF Lookup, Keys, OnlyRequest, TypeOK
<1>4. ASSUME cookie[r] \in known,
             stage' = [stage EXCEPT ![r] = "validating"],
             coraza' = [coraza EXCEPT ![r] = "start"],
             UNCHANGED answer
      PROVE  VotesOf(r)' /\ StageOf(r)'
  <2>1. coraza[r] = "off" /\ \A v \in Validators : vote[r][v] = "none"
    BY <1>1 DEF RequestsInv, VotesOf, StageOf
  <2>2. /\ cookie[r] \in issued /\ struck[r] = 0 /\ answer[r] = "none" /\ ~forwarded[r]
        /\ ~denied[r]
    BY <1>1, <1>4, <2>1 DEF RequestsInv, StageOf, Keys
  <2>3. VotesOf(r)'
    BY <1>1, <1>4, <2>1 DEF VotesOf, TypeOK, Validators
  <2>4. stage'[r] = "validating" /\ coraza'[r] = "start"
    BY <1>4 DEF TypeOK
  <2>5. StageOf(r)'
    BY <1>1, <1>4, <2>2, <2>4 DEF StageOf
  <2> QED
    BY <2>3, <2>5
<1>5. ASSUME NEW a \in {"forbidden", "error"}, Answer(r, a), UNCHANGED coraza
      PROVE  VotesOf(r)' /\ StageOf(r)'
  BY <1>1, <1>5
  DEF RequestsInv, VotesOf, StageOf, Rejected, Accepted, TypeOK
<1>6. VotesOf(r)' /\ StageOf(r)'
  BY <1>4, <1>5 DEF Lookup
<1> QED
  BY <1>1, <1>2, <1>3, <1>6, OneRequest

\* A vote, also one that comes in after the handler has answered.
LEMMA CastIInv ==
  ASSUME IInv, NEW r \in Requests, BrowserValidate(r) \/ StaticChecks(r)
  PROVE  IInv'
<1>1. PICK v \in Validators, x \in Verdicts : /\ vote[r][v] = "none"
                                              /\ Cast(r, v, x)
                                              /\ v = "coraza" => coraza[r] = "paid"
  BY DEF BrowserValidate, StaticChecks, Validators
<1>2. /\ coraza[r] # "off"
      /\ UNCHANGED <<store, history, request, stage, coraza, handler, answer>>
  BY DEF BrowserValidate, StaticChecks
<1> USE <1>1, <1>2 DEF IInv, Cast, store, history, request, handler
<1>3. TypeOK'
  BY DEF TypeOK
<1>4. Keys' /\ OnlyRequest(r)
  BY DEF Keys, OnlyRequest, TypeOK
<1>5. VotesOf(r)' /\ StageOf(r)'
  BY DEF RequestsInv, VotesOf, StageOf, Rejected, Accepted, TypeOK, Validators
<1> QED
  BY <1>3, <1>4, <1>5, OneRequest

\* coraza reads the strikes.
LEMMA ReadStrikesIInv ==
  ASSUME IInv, NEW r \in Requests, ReadStrikes(r) PROVE IInv'
<1> USE DEF IInv, ReadStrikes, store, history, request, handler
<1>1. coraza[r] = "start" /\ cookie[r] \in Cookies
  BY DEF RequestsInv, StageOf, TypeOK
<1>2. strikes[cookie[r]] \in Nat
  BY <1>1 DEF TypeOK
<1>3. TypeOK'
  BY <1>2 DEF TypeOK
<1>4. Keys' /\ OnlyRequest(r)
  BY DEF Keys, OnlyRequest, TypeOK
<1>5. VotesOf(r)' /\ StageOf(r)'
  BY <1>1 DEF RequestsInv, VotesOf, StageOf, Rejected, Accepted, TypeOK
<1> QED
  BY <1>3, <1>4, <1>5, OneRequest

\* The script leaves keys that expire; a request it refuses is rejected.
LEMMA AllowIInv == ASSUME IInv, NEW r \in Requests, Allow(r) PROVE IInv'
<1> DEFINE c == cookie[r]
<1>1. /\ coraza[r] = "read"
      /\ UNCHANGED <<history, request, stage, handler, answer>>
  BY DEF Allow
<1>2. c \in issued /\ c \in Cookies
  BY <1>1 DEF IInv, RequestsInv, StageOf, TypeOK
<1>3. AllowScript(c) \/ UNCHANGED store
  BY DEF Allow
<1>4. \/ coraza' = [coraza EXCEPT ![r] = "paid"] /\ UNCHANGED vote
      \/ /\ coraza' = [coraza EXCEPT ![r] = "refused"]
         /\ vote' = [vote EXCEPT ![r]["coraza"] = "reject"]
  BY DEF Allow, Cast
<1>5. /\ known' \subseteq Cookies /\ ttl' \subseteq Cookies
      /\ tokens' \in [Cookies -> 0..Capacity]
      /\ UNCHANGED strikes
  BY <1>2, <1>3, ProxyAssumption DEF AllowScript, store, IInv, TypeOK
<1> HIDE DEF c
<1> USE DEF IInv, history, request, handler
<1>6. TypeOK'
  <2>1. coraza' \in [Requests -> {"off", "start", "read", "paid", "refused"}]
    BY <1>4 DEF TypeOK
  <2>2. [vote EXCEPT ![r]["coraza"] = "reject"]
           \in [Requests -> [Validators -> Verdicts \cup {"none"}]]
    BY DEF TypeOK, Validators, Verdicts
  <2>3. vote' \in [Requests -> [Validators -> Verdicts \cup {"none"}]]
    BY <1>4, <2>2 DEF TypeOK
  <2> QED
    BY <1>1, <1>5, <2>1, <2>3 DEF TypeOK
<1>7. Keys'
  BY <1>1, <1>2, <1>3 DEF Keys, AllowScript, store, TypeOK
<1>8. OnlyRequest(r)
  BY <1>1, <1>4 DEF OnlyRequest, TypeOK
<1>9. VotesOf(r)' /\ StageOf(r)'
  BY <1>1, <1>4
  DEF RequestsInv, VotesOf, StageOf, Rejected, Accepted, TypeOK, Validators
<1> QED
  BY <1>1, <1>6, <1>7, <1>8, <1>9, OneRequest
-----------------------------------------------------------------------------
\* The caller of RunValidation goes on, or refuses, as the votes say.
LEMMA DecideIInv ==
  ASSUME IInv, NEW r \in Requests, Refuse(r) \/ Admit(r) PROVE IInv'
<1>1. PICK s \in {"striking", "preprocess"} :
        /\ stage' = [stage EXCEPT ![r] = s]
        /\ s = "striking" => Rejected(r)
        /\ s = "preprocess" => Accepted(r)
  BY DEF Refuse, Admit, Goto, Rejected, Accepted, Validators
<1>2. /\ stage[r] = "validating"
      /\ UNCHANGED <<store, history, request, votes, handler, answer>>
  BY DEF Refuse, Admit
<1>3. s = "preprocess" => ~denied[r]
  BY <1>2 DEF IInv, RequestsInv, StageOf
<1> USE <1>1, <1>2 DEF IInv, store, history, request, votes, handler
<1>4. TypeOK'
  BY DEF TypeOK, Stages
<1>5. Keys' /\ OnlyRequest(r)
  BY DEF Keys, OnlyRequest, TypeOK
<1>6. stage'[r] = s
  BY DEF TypeOK
<1>7. VotesOf(r)'
  BY DEF RequestsInv, VotesOf
<1>8. StageOf(r)'
  BY <1>3, <1>6 DEF RequestsInv, StageOf, Rejected, Accepted
<1> QED
  BY <1>4, <1>5, <1>7, <1>8, OneRequest

\* The stages that only an accepted request reaches.
Pipeline == {"preprocess", "upstream", "postprocess", "replay"}

\* In the pipeline an error ends the request with a 500, and a panic closes its
\* connection.
LEMMA ErrorIInv ==
  ASSUME IInv, NEW r \in Requests, stage[r] \in Pipeline,
         Answer(r, "error") \/ Answer(r, "aborted"),
         UNCHANGED <<store, history, request, votes, handler>>
  PROVE  IInv'
<1> USE DEF IInv, Answer, Goto, store, history, request, votes, handler, Pipeline
<1>1. TypeOK'
  BY DEF TypeOK, Stages, Answers
<1>2. Keys' /\ OnlyRequest(r)
  BY DEF Keys, OnlyRequest, TypeOK
<1>3. VotesOf(r)' /\ StageOf(r)'
  BY DEF RequestsInv, VotesOf, StageOf, Rejected, Accepted, TypeOK
<1> QED
  BY <1>1, <1>2, <1>3, OneRequest

\* A denial of the WAF leads to the strike.
LEMMA DenyIInv ==
  ASSUME IInv, NEW r \in Requests, stage[r] \in Pipeline, Deny(r),
         UNCHANGED <<store, history, request, votes, injected, forwarded, struck, answer>>
  PROVE  IInv'
<1> USE DEF IInv, Deny, Goto, store, history, request, votes, Pipeline
<1>1. TypeOK'
  BY DEF TypeOK, Stages
<1>2. Keys' /\ OnlyRequest(r)
  BY DEF Keys, OnlyRequest, TypeOK
<1>3. VotesOf(r)' /\ StageOf(r)'
  BY DEF RequestsInv, VotesOf, StageOf, Rejected, Accepted, TypeOK
<1> QED
  BY <1>1, <1>2, <1>3, OneRequest

\* The request is inspected and forwarded, denied or failed.
LEMMA PreprocessIInv == ASSUME IInv, NEW r \in Requests, Preprocess(r) PROVE IInv'
<1>1. /\ stage[r] = "preprocess"
      /\ UNCHANGED <<store, history, request, votes, injected, struck>>
  BY DEF Preprocess
<1>2. CASE /\ forwarded' = [forwarded EXCEPT ![r] = TRUE]
           /\ Goto(r, "upstream")
           /\ UNCHANGED <<denied, answer>>
  <2> USE <1>1, <1>2 DEF IInv, Goto, store, history, request, votes
  <2>1. TypeOK'
    BY DEF TypeOK, Stages
  <2>2. Keys' /\ OnlyRequest(r)
    BY DEF Keys, OnlyRequest, TypeOK
  <2>3. stage'[r] = "upstream" /\ forwarded'[r]
    BY DEF TypeOK
  <2>4. /\ Accepted(r)' /\ ~denied'[r]
        /\ coraza[r] # "off" /\ cookie[r] \in issued
        /\ answer[r] = "none" /\ struck[r] = 0
    BY DEF RequestsInv, StageOf, Accepted
  <2>5. VotesOf(r)'
    BY DEF RequestsInv, VotesOf
  <2>6. StageOf(r)'
    BY <2>3, <2>4 DEF StageOf
  <2> QED
    BY <2>1, <2>2, <2>5, <2>6, OneRequest
<1>3. CASE Deny(r) /\ UNCHANGED <<forwarded, answer>>
  BY <1>1, <1>3, DenyIInv DEF Pipeline
<1>4. CASE Answer(r, "error") /\ UNCHANGED <<denied, forwarded>>
  BY <1>1, <1>4, ErrorIInv DEF Pipeline, handler
<1> QED
  BY <1>2, <1>3, <1>4 DEF Preprocess

\* The upstream answers; the answer is replayed.
LEMMA RelayIInv ==
  ASSUME IInv, NEW r \in Requests, Upstream(r) \/ Replay(r) PROVE IInv'
<1>1. /\ stage[r] \in {"upstream", "replay"}
      /\ UNCHANGED <<store, history, request, votes, handler>>
  BY DEF Upstream, Replay
<1>2. PICK s \in {"postprocess", "done"}, a \in Answers :
        /\ stage' = [stage EXCEPT ![r] = s]
        /\ answer' = [answer EXCEPT ![r] = a]
        /\ \/ s = "postprocess" /\ a = answer[r] /\ stage[r] = "upstream"
           \/ s = "done" /\ a = "aborted" /\ stage[r] = "upstream"
           \/ s = "done" /\ a = "relayed" /\ stage[r] = "replay"
  <2>1. answer[r] \in Answers /\ answer = [answer EXCEPT ![r] = answer[r]]
    BY DEF IInv, TypeOK
  <2>2. CASE Upstream(r) /\ Goto(r, "postprocess") /\ UNCHANGED answer
    BY <2>1, <2>2 DEF Upstream, Goto
  <2>3. CASE Upstream(r) /\ Answer(r, "aborted")
    BY <2>3 DEF Upstream, Answer, Goto, Answers
  <2>4. CASE Replay(r)
    BY <2>4 DEF Replay, Answer, Goto, Answers
  <2> QED
    BY <2>2, <2>3, <2>4 DEF Upstream
<1> USE <1>1, <1>2 DEF IInv, store, history, request, votes, handler
<1>3. TypeOK'
  BY DEF TypeOK, Stages
<1>4. Keys' /\ OnlyRequest(r)
  BY DEF Keys, OnlyRequest, TypeOK
<1>5. stage'[r] = s /\ answer'[r] = a
  BY DEF TypeOK
<1>6. VotesOf(r)'
  BY DEF RequestsInv, VotesOf
<1>7. /\ Accepted(r) /\ ~denied[r] /\ forwarded[r]
      /\ struck[r] = 0 /\ answer[r] = "none"
      /\ stage[r] = "replay" => injected[r] = Postprocessors
      /\ StageOf(r)
  BY DEF RequestsInv, StageOf
<1>8. Accepted(r)'
  BY <1>7 DEF Accepted
<1>9. StageOf(r)'
  <2>1. a # "forbidden" /\ (a = "relayed" => injected[r] = Postprocessors)
    BY <1>7
  <2> QED
    BY <1>5, <1>7, <1>8, <2>1 DEF StageOf
<1> QED
  BY <1>3, <1>4, <1>6, <1>9, OneRequest

\* A postprocessor passes, denies or fails the response.
LEMMA PostprocessIInv ==
  ASSUME IInv, NEW r \in Requests, NEW p \in Postprocessors, Postprocess(r, p)
  PROVE  IInv'
<1>1. /\ stage[r] = "postprocess"
      /\ UNCHANGED <<store, history, request, votes, forwarded, struck>>
  BY DEF Postprocess
<1>2. CASE /\ injected' = [injected EXCEPT ![r] = @ \cup {p}]
           /\ Goto(r, IF injected'[r] = Postprocessors THEN "replay" ELSE "postprocess")
           /\ UNCHANGED <<denied, answer>>
  <2>1. PICK i \in SUBSET Postprocessors, s \in {"postprocess", "replay"} :
          /\ injected' = [injected EXCEPT ![r] = i]
          /\ stage' = [stage EXCEPT ![r] = s]
          /\ s = "replay" => i = Postprocessors
    <3>1. injected[r] \cup {p} \in SUBSET Postprocessors
      BY DEF IInv, TypeOK
    <3>2. injected' = [injected EXCEPT ![r] = injected[r] \cup {p}]
      BY <1>2
    <3>3. injected'[r] = injected[r] \cup {p}
      BY <3>2 DEF IInv, TypeOK
    <3>4. CASE injected'[r] = Postprocessors
      BY <1>2, <3>1, <3>2, <3>3, <3>4 DEF Goto
    <3>5. CASE injected'[r] # Postprocessors
      BY <1>2, <3>1, <3>2, <3>3, <3>5 DEF Goto
    <3> QED
      BY <3>4, <3>5
  <2> USE <1>1, <1>2, <2>1 DEF IInv, store, history, request, votes
  <2> HIDE <1>2
  <2>2. UNCHANGED <<denied, answer>>
    BY <1>2
  <2>3. TypeOK'
    BY <2>2 DEF TypeOK, Stages
  <2>4. Keys' /\ OnlyRequest(r)
    BY <2>2 DEF Keys, OnlyRequest, TypeOK
  <2>5. VotesOf(r)' /\ StageOf(r)'
    BY <2>2 DEF RequestsInv, VotesOf, StageOf, Rejected, Accepted, TypeOK
  <2> QED
    BY <2>3, <2>4, <2>5, OneRequest
<1>3. CASE Deny(r) /\ UNCHANGED <<injected, answer>>
  BY <1>1, <1>3, DenyIInv DEF Pipeline
<1>4. CASE /\ Answer(r, "error") \/ Answer(r, "aborted")
           /\ UNCHANGED <<denied, injected>>
  BY <1>1, <1>4, ErrorIInv DEF Pipeline, handler
<1> QED
  BY <1>2, <1>3, <1>4 DEF Postprocess

\* A refusal: one strike at most, on an issued cookie.
LEMMA StrikeIInv == ASSUME IInv, NEW r \in Requests, Strike(r) PROVE IInv'
<1>1. /\ stage[r] = "striking"
      /\ UNCHANGED <<history, request, votes, denied, injected, forwarded>>
  BY DEF Strike
<1>2. coraza[r] # "off" /\ cookie[r] \in issued /\ cookie[r] \in Cookies /\ struck[r] = 0
  BY <1>1 DEF IInv, RequestsInv, StageOf, TypeOK
<1>3. PICK a \in {"forbidden", "error"} :
        /\ Answer(r, a)
        /\ \/ Hincrby(cookie[r]) /\ struck' = [struck EXCEPT ![r] = 1]
           \/ a = "error" /\ UNCHANGED <<store, struck>>
  BY <1>2 DEF Strike, Struck, IInv, TypeOK
<1>4. /\ known' \subseteq known \cup {cookie[r]}
      /\ known \subseteq known'
      /\ strikes' \in [Cookies -> Nat]
      /\ UNCHANGED <<ttl, tokens>>
  <2>1. strikes[cookie[r]] + 1 \in Nat /\ strikes \in [Cookies -> Nat]
    BY <1>2 DEF IInv, TypeOK
  <2>2. CASE Hincrby(cookie[r])
    BY <1>2, <2>1, <2>2 DEF Hincrby
  <2>3. CASE UNCHANGED store
    BY <2>1, <2>3 DEF store
  <2> QED
    BY <1>3, <2>2, <2>3
<1> USE DEF IInv, Answer, Goto, history, request, votes
<1>5. TypeOK'
  BY <1>1, <1>2, <1>3, <1>4 DEF TypeOK, Stages, Answers
<1>6. Keys'
  BY <1>1, <1>2, <1>4 DEF Keys
<1>7. OnlyRequest(r)
  BY <1>1, <1>3 DEF OnlyRequest, TypeOK
<1>8. VotesOf(r)' /\ StageOf(r)'
  BY <1>1, <1>2, <1>3
  DEF RequestsInv, VotesOf, StageOf, Rejected, Accepted, TypeOK
<1> QED
  BY <1>1, <1>5, <1>6, <1>7, <1>8, OneRequest

\* Every step keeps the invariant.
LEMMA NextIInv == IInv /\ [Next]_vars => IInv'
<1> SUFFICES ASSUME IInv, [Next]_vars PROVE IInv'
  OBVIOUS
<1>1. ASSUME NEW c \in Cookies, Expire(c) \/ Refill(c) PROVE IInv'
  BY <1>1, EnvironmentIInv
<1>2. ASSUME NEW r \in Requests, Handle(r) PROVE IInv'
  BY <1>2, EarlyEndIInv, IssueIInv, LookupIInv, DecideIInv, PreprocessIInv,
     RelayIInv, PostprocessIInv, StrikeIInv
  DEF Handle
<1>3. ASSUME NEW r \in Requests, Arrive(r) \/ BrowserValidate(r) \/ CorazaValidate(r)
      PROVE  IInv'
  BY <1>3, ArriveIInv, CastIInv, ReadStrikesIInv, AllowIInv DEF CorazaValidate
<1>4. CASE UNCHANGED vars
  BY <1>4 DEF vars, store, history, request, votes, handler, IInv, TypeOK, Keys,
              RequestsInv, VotesOf, StageOf, Rejected, Accepted
<1> QED
  BY <1>1, <1>2, <1>3, <1>4 DEF Next

\* The invariant holds in every state of every behaviour.
THEOREM Invariance == Spec => []IInv
  BY InitIInv, NextIInv, PTL DEF Spec

\* Every variable keeps its type.
THEOREM TypeCorrect == Spec => []TypeOK
<1>1. IInv => TypeOK
  BY DEF IInv
<1> QED
  BY <1>1, Invariance, PTL

\* Only what both validators accepted and a token paid for is forwarded.
THEOREM Earned == Spec => []ForwardedEarned
<1>1. IInv => ForwardedEarned
  <2> SUFFICES ASSUME IInv, NEW r \in Requests
               PROVE  /\ forwarded[r] => /\ coraza[r] = "paid"
                                         /\ \A v \in Validators : vote[r][v] = "accept"
                      /\ answer[r] = "relayed" => /\ forwarded[r]
                                                  /\ ~denied[r]
                                                  /\ injected[r] = Postprocessors
    BY DEF ForwardedEarned
  <2> QED
    BY DEF IInv, RequestsInv, VotesOf, StageOf, Accepted, TypeOK, Validators
<1> QED
  BY <1>1, Invariance, PTL

\* Without a cookie that was given out, the proxy stops the visitor.
THEOREM Issued == Spec => []OnlyIssuedPass
<1>1. IInv => OnlyIssuedPass
  BY DEF IInv, RequestsInv, StageOf, OnlyIssuedPass
<1> QED
  BY <1>1, Invariance, PTL

\* A 403 of a plugin comes after its strike, and only refusals are struck.
THEOREM Recorded == Spec => []RefusalRecorded
<1>1. IInv => RefusalRecorded
  BY DEF IInv, RequestsInv, StageOf, Rejected, RefusalRecorded
<1> QED
  BY <1>1, Invariance, PTL

\* The script gives the key of a request that paid an expiry: it still has it,
\* or has expired.  Only HINCRBY makes a key again.
Expiring == \A r \in Requests : coraza[r] = "paid" => cookie[r] \in ttl \cup lost
Remade == /\ lost \subseteq issued
          /\ \A c \in (known \ ttl) \cap lost : strikes[c] > 0

\* A key goes.
LEMMA ExpireRemade ==
  ASSUME IInv, Expiring, Remade, NEW c \in Cookies, Expire(c)
  PROVE  Expiring' /\ Remade'
<1>1. /\ c \in ttl /\ c \in issued
      /\ known' = known \ {c} /\ ttl' = ttl \ {c} /\ lost' = lost \cup {c}
      /\ strikes' = [strikes EXCEPT ![c] = 0]
      /\ UNCHANGED <<issued, cookie, coraza>>
  BY DEF Expire, IInv, Keys, request, votes
<1>2. \A d \in Cookies \ {c} : strikes'[d] = strikes[d]
  BY <1>1 DEF IInv, TypeOK
<1>3. Expiring'
  BY <1>1 DEF Expiring
<1> QED
  BY <1>1, <1>2, <1>3 DEF Remade, IInv, TypeOK

\* The script gives its key an expiry.
LEMMA AllowRemade ==
  ASSUME IInv, Expiring, Remade, NEW r \in Requests, Allow(r)
  PROVE  Expiring' /\ Remade'
<1>1. UNCHANGED <<strikes, lost, issued, cookie>>
  BY DEF Allow, AllowScript, store, history, request
<1>2. /\ ttl \subseteq ttl' /\ known' \ ttl' \subseteq known \ ttl
      /\ coraza'[r] = "paid" => cookie[r] \in ttl'
      /\ \A q \in Requests \ {r} : coraza'[q] = coraza[q]
  BY DEF Allow, AllowScript, store, IInv, TypeOK
<1>3. Expiring'
  BY <1>1, <1>2 DEF Expiring
<1> QED
  BY <1>1, <1>2, <1>3 DEF Remade

\* The steps that make a key without expiry: for a new cookie, which has never
\* expired, or with a strike.
LEMMA MakesKey ==
  ASSUME IInv, Expiring, Remade, NEW r \in Requests, IssueCookie(r) \/ Strike(r)
  PROVE  Expiring' /\ Remade'
<1>1. UNCHANGED <<ttl, lost, cookie, coraza>>
  BY DEF IssueCookie, Strike, Hmset, Hincrby, store, history, request, votes
<1>2. Expiring'
  BY <1>1 DEF Expiring
<1>3. CASE IssueCookie(r)
  <2>1. PICK c \in Cookies \ issued :
              known' \subseteq known \cup {c} /\ issued' = issued \cup {c} /\ strikes' = strikes
    BY <1>3 DEF IssueCookie, Hmset, store
  <2> QED
    BY <1>1, <1>2, <2>1 DEF Remade
<1>4. CASE Strike(r) /\ UNCHANGED store
  BY <1>1, <1>2, <1>4 DEF Strike, history, store, Remade
<1>5. CASE Strike(r) /\ Hincrby(cookie[r])
  <2>1. cookie[r] \in Cookies
    BY <1>5 DEF Strike, IInv, RequestsInv, StageOf, VotesOf, Keys, TypeOK
  <2>2. strikes'[cookie[r]] > 0 /\ \A c \in Cookies \ {cookie[r]} : strikes'[c] = strikes[c]
    BY <1>5, <2>1 DEF Hincrby, IInv, TypeOK
  <2>3. known' = known \cup {cookie[r]} /\ issued' = issued
    BY <1>5 DEF Hincrby, Strike, history
  <2> QED
    BY <1>1, <1>2, <2>2, <2>3 DEF Remade, IInv, TypeOK
<1> QED
  BY <1>3, <1>4, <1>5 DEF Strike

\* The other steps leave the keys alone; a request that arrives has not paid.
LEMMA LeavesKeys ==
  ASSUME IInv, Expiring, Remade, UNCHANGED <<known, ttl, strikes, history>>,
         \A r \in Requests : coraza'[r] = "paid" =>
                               coraza[r] = "paid" /\ cookie'[r] = cookie[r]
  PROVE  Expiring' /\ Remade'
<1>1. Expiring'
  BY DEF Expiring, history
<1> QED
  BY <1>1 DEF Remade, history

LEMMA NextRemade == IInv /\ Expiring /\ Remade /\ [Next]_vars => Expiring' /\ Remade'
<1> SUFFICES ASSUME IInv, Expiring, Remade, [Next]_vars PROVE Expiring' /\ Remade'
  OBVIOUS
<1>1. ASSUME NEW r \in Requests, Handle(r), ~IssueCookie(r), ~Strike(r)
      PROVE  Expiring' /\ Remade'
  <2>1. /\ UNCHANGED <<known, ttl, strikes, history, cookie>>
        /\ \A q \in Requests : coraza'[q] = "paid" => coraza[q] = "paid"
    BY <1>1 DEF Handle, RefuseAjax, NoNewCookie, NilLimiter, Lookup, Refuse, Admit,
                Preprocess, Upstream, Postprocess, Replay, store, history, request, votes,
                IInv, TypeOK
  <2> QED
    BY <2>1, LeavesKeys
<1>2. ASSUME NEW r \in Requests, BrowserValidate(r) \/ ReadStrikes(r) \/ StaticChecks(r)
      PROVE  Expiring' /\ Remade'
  <2>1. /\ UNCHANGED <<known, ttl, strikes, history, cookie>>
        /\ \A q \in Requests : coraza'[q] = "paid" => coraza[q] = "paid"
    BY <1>2 DEF BrowserValidate, ReadStrikes, StaticChecks, store, history, request,
                IInv, TypeOK
  <2> QED
    BY <2>1, LeavesKeys
<1>3. ASSUME NEW r \in Requests, Arrive(r) PROVE Expiring' /\ Remade'
  <2>1. /\ UNCHANGED <<known, ttl, strikes, history, coraza>>
        /\ coraza[r] = "off"
        /\ \A q \in Requests \ {r} : cookie'[q] = cookie[q]
    BY <1>3 DEF Arrive, store, history, votes, IInv, RequestsInv, StageOf, TypeOK
  <2> QED
    BY <2>1, LeavesKeys
<1>4. CASE UNCHANGED <<known, ttl, strikes, history, cookie, coraza>>
  BY <1>4, LeavesKeys
<1>5. ASSUME NEW c \in Cookies, Refill(c) PROVE Expiring' /\ Remade'
  BY <1>4, <1>5 DEF Refill, request, votes
<1>6. CASE UNCHANGED vars
  BY <1>4, <1>6 DEF vars, store, request, votes
<1> QED
  BY <1>1, <1>2, <1>3, <1>5, <1>6, ExpireRemade, AllowRemade, MakesKey
  DEF Next, CorazaValidate

\* The keys that no expiry will ever remove: of a cookie that no token was taken
\* for, or struck after its day.
THEOREM ForEver == Spec => []KeysForEver
<1>1. Init => Expiring /\ Remade
  BY DEF Init, Expiring, Remade
<1>2. IInv /\ Expiring /\ Remade => KeysForEver
  BY DEF Expiring, Remade, KeysForEver
<1> QED
  BY <1>1, <1>2, NextRemade, Invariance, PTL DEF Spec
-----------------------------------------------------------------------------
\* The requests a cookie was struck for.
StruckFor(c) == {r \in Requests : cookie[r] = c /\ struck[r] > 0}
StrikesCount == \A c \in Cookies \ lost : strikes[c] = Cardinality(StruckFor(c))

\* Every strike is counted once, whatever runs concurrently.
LEMMA NextStrikesCount == IInv /\ StrikesCount /\ [Next]_vars => StrikesCount'
<1> SUFFICES ASSUME IInv, StrikesCount, [Next]_vars PROVE StrikesCount'
  OBVIOUS
<1>1. ASSUME NEW c \in Cookies, Expire(c) PROVE StrikesCount'
  <2>1. UNCHANGED <<cookie, struck>> /\ lost' = lost \cup {c}
    BY <1>1 DEF Expire, request, handler
  <2>2. \A d \in Cookies \ lost' : strikes'[d] = strikes[d]
    BY <1>1 DEF Expire, IInv, TypeOK
  <2> QED
    BY <2>1, <2>2 DEF StrikesCount, StruckFor
<1>2. ASSUME NEW r \in Requests, Arrive(r) PROVE StrikesCount'
  <2>1. /\ \A q \in Requests \ {r} : cookie'[q] = cookie[q]
        /\ UNCHANGED <<strikes, lost, struck>>
    BY <1>2 DEF Arrive, store, history, handler, IInv, TypeOK
  <2>2. struck[r] = 0
    BY <1>2 DEF Arrive, IInv, RequestsInv, StageOf
  <2>3. \A c \in Cookies : StruckFor(c)' = StruckFor(c)
    BY <2>1, <2>2 DEF StruckFor
  <2> QED
    BY <2>1, <2>3 DEF StrikesCount
<1>3. ASSUME NEW r \in Requests, Strike(r) PROVE StrikesCount'
  <2>1. stage[r] = "striking" /\ UNCHANGED <<cookie, lost>>
    BY <1>3 DEF Strike, history, request
  <2>2. struck[r] = 0 /\ cookie[r] \in Cookies
    BY <2>1 DEF IInv, RequestsInv, StageOf, TypeOK
  <2>3. CASE UNCHANGED <<store, struck>>
    BY <2>1, <2>3 DEF store, StrikesCount, StruckFor
  <2>4. CASE Hincrby(cookie[r]) /\ Struck(r)
    <3>1. /\ strikes' = [strikes EXCEPT ![cookie[r]] = @ + 1]
          /\ struck'[r] = 1
          /\ \A q \in Requests \ {r} : struck'[q] = struck[q]
      BY <2>2, <2>4 DEF Hincrby, Struck, IInv, TypeOK
    <3>2. ASSUME NEW c \in Cookies \ lost, c # cookie[r]
          PROVE  strikes'[c] = Cardinality(StruckFor(c)')
      <4>1. StruckFor(c)' = StruckFor(c)
        BY <2>1, <3>1, <3>2 DEF StruckFor
      <4> QED
        BY <3>1, <3>2, <4>1 DEF StrikesCount, IInv, TypeOK
    <3>3. ASSUME cookie[r] \notin lost
          PROVE  strikes'[cookie[r]] = Cardinality(StruckFor(cookie[r])')
      <4> DEFINE S == StruckFor(cookie[r])
      <4>1. S' = S \cup {r} /\ r \notin S
        BY <2>1, <2>2, <3>1 DEF StruckFor
      <4>2. IsFiniteSet(S)
        BY ProxyAssumption, FS_Subset, S \subseteq Requests DEF StruckFor
      <4>3. Cardinality(S') = Cardinality(S) + 1
        BY <4>1, <4>2, FS_AddElement
      <4>4. strikes[cookie[r]] = Cardinality(S)
        BY <2>2, <3>3 DEF StrikesCount
      <4> HIDE DEF S
      <4>5. strikes'[cookie[r]] = Cardinality(S) + 1
        BY <2>2, <3>1, <4>4 DEF IInv, TypeOK
      <4> QED
        BY <2>1, <4>3, <4>5 DEF S
    <3> QED
      BY <2>1, <3>2, <3>3 DEF StrikesCount
  <2> QED
    BY <1>3, <2>3, <2>4 DEF Strike
<1>4. ASSUME UNCHANGED <<strikes, lost, cookie, struck>> PROVE StrikesCount'
  BY <1>4 DEF StrikesCount, StruckFor
<1>5. ASSUME NEW r \in Requests, Handle(r), ~Strike(r)
      PROVE  UNCHANGED <<strikes, lost, cookie, struck>>
  BY <1>5 DEF Handle, RefuseAjax, IssueCookie, NoNewCookie, NilLimiter, Lookup, Refuse,
              Admit, Preprocess, Upstream, Postprocess, Replay, Hmset, store, history,
              request, handler
<1>6. ASSUME NEW r \in Requests, BrowserValidate(r) \/ CorazaValidate(r)
      PROVE  UNCHANGED <<strikes, lost, cookie, struck>>
  BY <1>6 DEF BrowserValidate, CorazaValidate, ReadStrikes, Allow, StaticChecks,
              AllowScript, store, history, request, handler
<1>7. ASSUME NEW c \in Cookies, Refill(c)
      PROVE  UNCHANGED <<strikes, lost, cookie, struck>>
  BY <1>7 DEF Refill, history, request, handler
<1>8. CASE UNCHANGED vars
  BY <1>4, <1>8 DEF vars, store, history, request, handler
<1> QED
  BY <1>1, <1>2, <1>3, <1>4, <1>5, <1>6, <1>7, <1>8 DEF Next

\* The strikes of a cookie are those of its refused requests, each once.
THEOREM Exact == Spec => []StrikesAreExact
<1>1. Init => StrikesCount
  <2> SUFFICES ASSUME Init, NEW c \in Cookies
               PROVE  strikes[c] = Cardinality(StruckFor(c))
    BY DEF StrikesCount
  <2>1. StruckFor(c) = {}
    BY DEF Init, StruckFor
  <2> QED
    BY <2>1, FS_EmptySet DEF Init
<1>2. IInv /\ StrikesCount => StrikesAreExact
  BY DEF IInv, RequestsInv, StageOf, StrikesCount, StruckFor, StrikesAreExact
<1> QED
  BY <1>1, <1>2, NextStrikesCount, Invariance, PTL DEF Spec
-----------------------------------------------------------------------------
AnyReject(r) == \E v \in Validators : vote[r][v] = "reject"

\* What RunValidation has returned was decided by votes that are there.
Decided == \A r \in Requests : ~Waiting(r) => Accepted(r) \/ AnyReject(r)

\* What a step can do to the validation of a request: a first vote of one
\* validator, before the handler has its answer or after; or the answer.
Votes(r) == /\ Waiting(r)' <=> Waiting(r)
            /\ \E v \in Validators, x \in Verdicts :
                  /\ vote[r][v] = "none"
                  /\ vote'[r] = [vote[r] EXCEPT ![v] = x]

Idles(r) == vote'[r] = vote[r] /\ (Waiting(r)' <=> Waiting(r))

Returns(r) == /\ vote'[r] = vote[r]
              /\ Waiting(r) /\ ~Waiting(r)'
              /\ Accepted(r) \/ AnyReject(r)

ValidationStep(r) == Votes(r) \/ Idles(r) \/ Returns(r)

\* The steps of a validator of r.
LEMMA ValidatorVotes ==
  ASSUME IInv, NEW r \in Requests, BrowserValidate(r) \/ CorazaValidate(r)
  PROVE  Votes(r) \/ Idles(r)
<1> USE DEF IInv, RequestsInv, VotesOf, TypeOK, Waiting
<1>1. stage' = stage /\ coraza[r] # "off" /\ coraza'[r] # "off"
  BY DEF BrowserValidate, CorazaValidate, ReadStrikes, Allow, StaticChecks
<1>2. CASE ReadStrikes(r)
  BY <1>1, <1>2 DEF ReadStrikes, Idles
<1>3. CASE BrowserValidate(r)
  <2>1. PICK x \in Verdicts : vote' = [vote EXCEPT ![r]["browser"] = x]
    BY <1>3 DEF BrowserValidate, Cast
  <2>2. vote'[r] = [vote[r] EXCEPT !["browser"] = x] /\ vote[r]["browser"] = "none"
    BY <1>3, <2>1 DEF BrowserValidate
  <2> QED
    BY <1>1, <2>2 DEF Votes, Validators
<1>4. CASE StaticChecks(r) \/ (Allow(r) /\ vote' # vote)
  <2>1. PICK x \in Verdicts : vote' = [vote EXCEPT ![r]["coraza"] = x]
    BY <1>4 DEF StaticChecks, Allow, Cast, Verdicts
  <2>2. vote'[r] = [vote[r] EXCEPT !["coraza"] = x] /\ vote[r]["coraza"] = "none"
    BY <1>4, <2>1 DEF StaticChecks, Allow
  <2> QED
    BY <1>1, <2>2 DEF Votes, Validators
<1>5. CASE Allow(r) /\ vote' = vote
  BY <1>1, <1>5 DEF Idles
<1> QED
  BY <1>2, <1>3, <1>4, <1>5 DEF CorazaValidate

\* The steps of the handler of r.
LEMMA HandlerReturns ==
  ASSUME IInv, NEW r \in Requests, Arrive(r) \/ Handle(r)
  PROVE  Idles(r) \/ Returns(r)
<1> USE DEF IInv, RequestsInv, StageOf, TypeOK
<1>1. vote' = vote
  BY DEF Arrive, Handle, RefuseAjax, IssueCookie, NoNewCookie, NilLimiter, Lookup, Refuse,
         Admit, Preprocess, Upstream, Postprocess, Replay, Strike, votes
<1>2. CASE Arrive(r) \/ RefuseAjax(r) \/ IssueCookie(r) \/ NoNewCookie(r) \/ NilLimiter(r)
  <2>1. coraza[r] = "off" /\ coraza'[r] = "off"
    BY <1>2 DEF Arrive, RefuseAjax, IssueCookie, NoNewCookie, NilLimiter, votes
  <2> QED
    BY <1>1, <2>1 DEF Idles, Waiting
<1>3. CASE Lookup(r)
  <2>1. Waiting(r) /\ Waiting(r)'
    BY <1>3 DEF Lookup, Goto, Waiting
  <2> QED
    BY <1>1, <2>1 DEF Idles
<1>4. CASE Refuse(r) \/ Admit(r)
  <2>1. Waiting(r) /\ (Accepted(r) \/ AnyReject(r))
    BY <1>4 DEF Refuse, Admit, Waiting, Accepted, AnyReject, Validators
  <2>2. ~Waiting(r)'
    <3>1. coraza[r] # "off" /\ coraza' = coraza
      BY <1>4 DEF Refuse, Admit, votes
    <3>2. stage'[r] \in {"striking", "preprocess"}
      BY <1>4 DEF Refuse, Admit, Goto
    <3> QED
      BY <3>1, <3>2 DEF Waiting
  <2> QED
    BY <1>1, <2>1, <2>2 DEF Returns
<1>5. CASE Preprocess(r) \/ Upstream(r) \/ Replay(r) \/ Strike(r)
           \/ \E p \in Postprocessors : Postprocess(r, p)
  <2>1. /\ stage[r] \in {"preprocess", "upstream", "postprocess", "replay", "striking"}
        /\ coraza' = coraza
    BY <1>5 DEF Preprocess, Upstream, Replay, Strike, Postprocess, votes
  <2>2. stage'[r] \in {"upstream", "striking", "done", "postprocess", "replay"}
    BY <1>5 DEF Preprocess, Upstream, Replay, Strike, Postprocess, Deny, Answer, Goto
  <2> QED
    BY <1>1, <2>1, <2>2 DEF Idles, Waiting
<1> QED
  BY <1>2, <1>3, <1>4, <1>5 DEF Handle

\* A step of anybody, seen from request q.
LEMMA StepOfValidation ==
  ASSUME IInv, [Next]_vars, NEW q \in Requests
  PROVE  ValidationStep(q)
<1>1. CASE UNCHANGED <<stage, votes>>
  BY <1>1 DEF votes, ValidationStep, Idles, Waiting
<1>2. ASSUME NEW c \in Cookies, Expire(c) \/ Refill(c) PROVE ValidationStep(q)
  BY <1>1, <1>2 DEF Expire, Refill
<1>3. ASSUME NEW r \in Requests, Arrive(r) \/ Handle(r), r # q PROVE ValidationStep(q)
  <2>1. stage'[q] = stage[q] /\ coraza'[q] = coraza[q] /\ vote' = vote
    BY <1>3 DEF IInv, TypeOK, Arrive, Handle, RefuseAjax, IssueCookie, NoNewCookie,
                NilLimiter, Lookup, Refuse, Admit, Preprocess, Upstream, Postprocess,
                Replay, Strike, Deny, Answer, Goto, votes
  <2> QED
    BY <2>1 DEF ValidationStep, Idles, Waiting
<1>4. ASSUME NEW r \in Requests, BrowserValidate(r) \/ CorazaValidate(r), r # q
      PROVE  ValidationStep(q)
  <2>1. stage' = stage /\ coraza'[q] = coraza[q] /\ vote'[q] = vote[q]
    BY <1>4 DEF IInv, TypeOK, BrowserValidate, CorazaValidate, ReadStrikes, Allow,
                StaticChecks, Cast
  <2> QED
    BY <2>1 DEF ValidationStep, Idles, Waiting
<1>5. CASE UNCHANGED vars
  BY <1>1, <1>5 DEF vars
<1> QED
  BY <1>2, <1>3, <1>4, <1>5, ValidatorVotes, HandlerReturns DEF Next, ValidationStep

LEMMA NextDecided == IInv /\ Decided /\ [Next]_vars => Decided'
<1> SUFFICES ASSUME IInv, Decided, [Next]_vars, NEW r \in Requests, ~Waiting(r)'
             PROVE  (Accepted(r) \/ AnyReject(r))'
  BY DEF Decided
<1>1. CASE Votes(r)
  <2>1. PICK v \in Validators, x \in Verdicts :
               vote[r][v] = "none" /\ vote'[r] = [vote[r] EXCEPT ![v] = x]
    BY <1>1 DEF Votes
  <2>2. AnyReject(r)
    BY <1>1, <2>1 DEF Votes, Decided, Accepted, Validators
  <2> QED
    BY <2>1, <2>2 DEF AnyReject, IInv, TypeOK
<1>2. CASE Idles(r) \/ Returns(r)
  BY <1>2 DEF Idles, Returns, Decided, Accepted, AnyReject
<1> QED
  BY <1>1, <1>2, StepOfValidation DEF ValidationStep

\* Returned, in the terms used here.
LEMMA ReturnedIs ==
  ASSUME NEW r \in Requests
  PROVE  /\ Waiting(r) => Returned(r) = "none"
         /\ ~Waiting(r) /\ Accepted(r) => Returned(r) = "true"
         /\ ~Waiting(r) /\ ~Accepted(r) => Returned(r) = "false"
BY DEF Returned, Accepted, Validators

LEMMA VerdictStep ==
  ASSUME IInv, Decided, [Next]_vars, NEW r \in Requests
  PROVE  [Validation(r)!Next]_(Validation(r)!vars)
<1>1. vote[r] \in [Validators -> Verdicts \cup {"none"}]
  BY DEF IInv, TypeOK
<1>2. /\ Waiting(r)' => Returned(r)' = "none"
      /\ ~Waiting(r)' /\ Accepted(r)' => Returned(r)' = "true"
      /\ ~Waiting(r)' /\ ~Accepted(r)' => Returned(r)' = "false"
  BY DEF Returned, Accepted, Validators
<1>3. CASE Votes(r)
  <2>1. PICK v \in Validators, x \in Verdicts :
               vote[r][v] = "none" /\ vote'[r] = [vote[r] EXCEPT ![v] = x]
    BY <1>3 DEF Votes
  <2>2. Returned(r)' = Returned(r)
    <3>1. CASE Waiting(r)
      BY <1>2, <1>3, <3>1, ReturnedIs DEF Votes
    <3>2. CASE ~Waiting(r)
      <4>1. ~Accepted(r) /\ AnyReject(r)
        BY <2>1, <3>2 DEF Decided, Accepted, Validators
      <4>2. ~Accepted(r)'
        BY <1>1, <2>1, <4>1 DEF Accepted, AnyReject, Validators
      <4> QED
        BY <1>2, <1>3, <3>2, <4>1, <4>2, ReturnedIs DEF Votes
    <3> QED
      BY <3>1, <3>2
  <2>3. Validation(r)!Vote(v)
    BY <2>1, <2>2 DEF Validation!Vote, Verdicts
  <2> QED
    BY <2>3 DEF Validation!Next
<1>4. CASE Idles(r)
  <2>1. Returned(r)' = Returned(r)
    BY <1>2, <1>4, ReturnedIs DEF Idles, Accepted
  <2> QED
    BY <1>4, <2>1 DEF Idles, Validation!vars
<1>5. CASE Returns(r)
  <2>1. Returned(r) = "none" /\ vote'[r] = vote[r]
    BY <1>5, ReturnedIs DEF Returns
  <2>2. CASE Accepted(r)
    <3>1. Returned(r)' = "true"
      BY <1>2, <1>5, <2>2 DEF Returns, Accepted
    <3>2. Validation(r)!Admit
      BY <2>1, <2>2, <3>1 DEF Validation!Admit, Accepted, Validators
    <3> QED
      BY <3>2 DEF Validation!Next
  <2>3. CASE ~Accepted(r)
    <3>1. Returned(r)' = "false"
      BY <1>2, <1>5, <2>3 DEF Returns, Accepted
    <3>2. Validation(r)!Refuse
      BY <1>5, <2>1, <2>3, <3>1 DEF Validation!Refuse, Returns, AnyReject
    <3> QED
      BY <3>2 DEF Validation!Next
  <2> QED
    BY <2>2, <2>3
<1> QED
  BY <1>3, <1>4, <1>5, StepOfValidation DEF ValidationStep

\* The validation of every request is a Verdict of its own: votes that come in
\* after the handler has its answer change nothing of it.
THEOREM Validations == Spec => VerdictPerRequest
<1>1. Init => Decided /\ \A r \in Requests : Validation(r)!Init
  <2> SUFFICES ASSUME Init, NEW r \in Requests
               PROVE  Waiting(r) /\ Validation(r)!Init
    BY DEF Decided
  <2>1. Waiting(r) /\ Returned(r) = "none"
    BY ReturnedIs DEF Init, Waiting
  <2>2. vote[r] = [v \in Validators |-> "none"]
    BY DEF Init
  <2> QED
    BY <2>1, <2>2 DEF Validation!Init
<1>2. IInv /\ Decided /\ [Next]_vars
      => [\A r \in Requests : [Validation(r)!Next]_(Validation(r)!vars)]_vars
  BY VerdictStep
<1> QED
  BY <1>1, <1>2, NextDecided, Invariance, PTL DEF Spec, VerdictPerRequest
=============================================================================
