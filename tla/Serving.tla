------------------------------- MODULE Serving -------------------------------
(***************************************************************************)
(* From main to the upstream: the start-up, then a request whose cookie is *)
(* known, the votes of browser and coraza, and the request that Rewrite    *)
(* makes of it.  The upstream is looked up by the host twice, once for the *)
(* checks and once to be sent to.  How the votes are collected is in       *)
(* RunValidation, what the limiter says in TokenBucket.                    *)
(*                                                                         *)
(* A request is a record: host, path, source (the address), cookies (names *)
(* in their order) and the headers of Browser.                             *)
(***************************************************************************)
EXTENDS Startup, Browser, Access, FiniteSets

CONSTANTS Requests,
          CookieName,  \* COOKIE_NAME: every request considered has such a cookie
          Genuine      \* what real browsers send that were asked for every hint:
                       \* records with the headers of Browser

ASSUME ListsAssumption ==
    \A u \in Settings : /\ u.allowedSources \in Seq(STRING)
                        /\ u.blockedPaths \in Seq(Seq(STRING))
ASSUME RequestsAssumption == \A q \in Requests : q.cookies \in Seq(STRING)

VARIABLES request,   \* the one that arrived, or None
          outcome,   \* "none", "arrived", "accepted", "refused" or "forwarded"
          target,    \* the index of the upstream it went to
          sent       \* the cookies that went with it

requestVars == <<request, outcome, target, sent>>
vars        == <<startVars, requestVars>>

Init == /\ StartInit
        /\ request = None
        /\ outcome = "none"
        /\ target = 0
        /\ sent = <<>>

Start == StartNext /\ UNCHANGED requestVars

Arrive(q) == /\ pc = "serving"
             /\ outcome = "none"
             /\ request' = q
             /\ outcome' = "arrived"
             /\ UNCHANGED <<startVars, target, sent>>

\* Mutant: Validate stops at the first upstream of the name.
ValidateFirst(q, allowed) ==
    \E i \in DOMAIN upstreams :
        /\ upstreams[i].hostname = q.host
        /\ \A j \in 1..(i - 1) : upstreams[j].hostname # q.host
        /\ allowed
        /\ Admits(upstreams[i], q.path, q.source)

\* coraza: the strikes are read and logged, the limiter may refuse or fail.
ValidateWAF(q, allowed) ==
    LET i == FindMatchingUpstream(q.host)
    IN  i # 0 /\ allowed /\ Admits(upstreams[i], q.path, q.source)

Validate == /\ outcome = "arrived"
            /\ \E allowed \in BOOLEAN :
                  outcome' = IF Valid(request) /\ ValidateWAF(request, allowed)
                             THEN "accepted" ELSE "refused"
            /\ UNCHANGED <<startVars, request, target, sent>>

\* The rules deny the request, or the preprocessing fails.
Deny == /\ outcome = "accepted"
        /\ outcome' = "refused"
        /\ UNCHANGED <<startVars, request, target, sent>>

\* Mutant: only the first of the proxy's cookies is taken out.
RemainingAfterFirst(cookies) ==
    LET hits == {i \in DOMAIN cookies : cookies[i] = "_gSession"}
    IN  IF hits = {} THEN cookies
        ELSE RemoveAt(cookies, CHOOSE i \in hits : \A j \in hits : i <= j)

\* The name is a constant of Rewrite, not CookieName.
Remaining(cookies) ==
    LET kept[n \in 0..Len(cookies)] ==
            IF n = 0 THEN <<>>
            ELSE IF cookies[n] = "_gSession" THEN kept[n - 1]
            ELSE Append(kept[n - 1], cookies[n])
    IN  kept[Len(cookies)]

Rewrite == /\ outcome = "accepted"
           /\ target' = FindMatchingUpstream(request.host)
           /\ sent' = Remaining(request.cookies)
           /\ outcome' = "forwarded"
           /\ UNCHANGED <<startVars, request>>

Next == \/ Start \/ Validate \/ Deny \/ Rewrite
        \/ \E q \in Requests : Arrive(q)

Spec == Init /\ [][Next]_vars
-----------------------------------------------------------------------------
Passed == outcome \in {"accepted", "forwarded"}

\* q could be what g sends, as far as hints are looked at: a desktop may leave
\* its mobile hint out, and without brands there is nothing else to compare.
SentBy(g, q) ==
    /\ q.agent = g.agent
    /\ q.brands = g.brands
    /\ g.brands # {} =>
          /\ q.hint = g.hint
          /\ q.platform = g.platform
          /\ q.mobile \in {g.mobile} \cup (IF g.mobile = "?0" THEN {""} ELSE {})
          /\ q.version # ""
          /\ q.dpr \notin {"", "0"}


\* "IP addresses that are permitted. if nil, everything is ok" and "Paths that
\* should not be accessible" (coraza.go:52-56): a request only reaches an
\* upstream of its host whose own lists let it, though Rewrite looks the
\* upstream up anew and a host may have several with different lists; a list
\* with a network that does not parse never admits more than one without it.
AccessHonoured ==
    outcome = "forwarded" =>
        /\ target \in DOMAIN upstreams
        /\ LET u == upstreams[target] IN
              /\ u.hostname = request.host
              /\ u.rules = tokenBucketMap[request.host]
              /\ \A b \in DOMAIN u.blockedPaths : ~IsPrefix(u.blockedPaths[b], request.path)
              /\ u.allowedSources # <<>> =>
                    \E n \in DOMAIN u.allowedSources :
                        /\ u.allowedSources[n] \in DOMAIN Network
                        /\ request.source \in Network[u.allowedSources[n]]

\* The session of the proxy is not shown to the upstream, also when the browser
\* sends several cookies of the name (Visit: one of each folder), and the
\* upstream gets every other cookie.
SessionStays ==
    outcome = "forwarded" =>
        /\ \A i \in DOMAIN sent : sent[i] # CookieName
        /\ Len(sent) = Cardinality({i \in DOMAIN request.cookies :
                                     request.cookies[i] # CookieName})
=============================================================================
