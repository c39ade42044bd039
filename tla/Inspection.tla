----------------------------- MODULE Inspection -----------------------------
(***************************************************************************)
(* One admitted request from Preprocess to the client's answer: what the   *)
(* transaction of the coraza plugin is told, in which order, and which of  *)
(* the directives that buildCoraza writes for single hosts take hold of    *)
(* it; what comes back from the upstream, the postprocessors in the random *)
(* order of a Go map, and what is written to the client.                   *)
(*                                                                         *)
(* Of the rule engine, which is external, a rule has its phase, the        *)
(* paranoia level from which it counts and the part of the message it      *)
(* looks at; a rule that fires interrupts the transaction.                 *)
(***************************************************************************)
EXTENDS ScriptInjector

CONSTANTS Rules,          \* records [phase, level, part]
          RuleSetLevel,   \* the paranoia level that the rule set starts with
          DefaultLevel,   \* DEFAULT_PARANOIA_LEVEL
          Configurations, \* sequences of upstreams: records [hostname,
                          \* disableCoraza, ignoreRules, inspectResponses]
          Responses,      \* records [code, html, length, body]: Content-Type is
                          \* text/html or not, Content-Length is there or not
          NoScript

\* What a rule of each phase can look at.
Parts == <<{"header", "uri"}, {"header", "uri", "body"}, {"header"}, {"header", "body"}>>

ASSUME RulesAssumption == \A k \in Rules : k.phase \in 1..4 /\ k.part \in Parts[k.phase]
ASSUME ResponsesAssumption == \A r \in Responses : /\ r.code \in 200..999
                                                   /\ r.body \in Seq(Pieces)

VARIABLES upstreams,      \* of conf/upstreams.yaml
          host, hits,     \* of a request; the rules that it or its response
                          \* matches
          pc,
          engine, level, removed,   \* of its transaction, set by directives
          forwarded,
          origin,             \* history: the status of the upstream, and whether
                              \* an informational one came before it
          recorder, script,   \* the response, once there is one; the byte of
                              \* its body at which the script is, or NoScript
          todo,           \* the postprocessors that have not run
          answer,         \* what the request came to
          status, length  \* as the client sees them: the status (0: none yet)
                          \* and whether a Content-Length is given

input       == <<upstreams, host, hits>>
transaction == <<engine, level, removed>>
response    == <<origin, recorder, script, todo>>
client      == <<answer, status, length>>
vars        == <<input, pc, transaction, forwarded, response, client>>

BadGateway == [code |-> 502, html |-> FALSE, length |-> FALSE, body |-> <<"text">>]

\* 103, for any informational status.
EarlyHints == 103
Informational(code) == code \in 100..199

\* httptest.ResponseRecorder: its code is the first that is written to it, and an
\* informational one is written as it comes; headers and body are the last ones.
Recorded(first, r) == [code |-> IF first.informed THEN EarlyHints ELSE first.code,
                       html |-> r.html, length |-> r.length, body |-> r.body]

Init == /\ upstreams \in Configurations
        /\ host \in {upstreams[i].hostname : i \in DOMAIN upstreams}
        /\ hits \in SUBSET Rules
        /\ pc = "preprocess"
        /\ engine = "On" /\ level = 0 /\ removed = {}
        /\ forwarded = FALSE
        /\ origin = [informed |-> FALSE, code |-> BadGateway.code]
        /\ recorder = Recorded(origin, BadGateway) /\ script = NoScript
        /\ todo = {"coraza", "scriptinjector"}
        /\ answer = "none" /\ status = 0 /\ length = FALSE

\* A refusal is counted as a strike first, and a failure of that is an error.
Refuse(a) == /\ answer' = a
             /\ pc' = IF a = "denied" THEN "strike" ELSE "render500"
             /\ UNCHANGED <<status, length>>

Interrupts(phase, parts) ==
    \E k \in hits \ removed : /\ k.phase = phase
                              /\ k.part \in parts
                              /\ k.level <= level
                              /\ engine = "On"
-----------------------------------------------------------------------------
\* Mutant: Host is one of the headers, as in coraza's own middleware.
HeadersWithHost == {"Host", "User-Agent"}

\* The names added with AddRequestHeader: net/http has moved Host out of the
\* map of the headers.
Headers == {"User-Agent"}

\* @eq compares numbers, and what is not a number counts as 0.
EqualByEq(h1, h2) == TRUE

\* The upstreams whose SecRule REQUEST_HEADERS:Host "@eq ..." matches.
Selected == {i \in DOMAIN upstreams : /\ "Host" \in Headers
                                      /\ EqualByEq(host, upstreams[i].hostname)}

\* The directives of buildCoraza run in phase 1 in the order they are written,
\* first those for single hosts.  An upstream's own level goes to
\* tx.paranoia_level, which no rule reads, and is left out.
Directives ==
    /\ pc = "preprocess"
    /\ engine' = IF \E i \in Selected : upstreams[i].disableCoraza THEN "Off" ELSE "On"
    /\ removed' = UNION {upstreams[i].ignoreRules : i \in Selected}
    /\ level' = RuleSetLevel
    /\ pc' = "phase1"
    /\ UNCHANGED <<input, forwarded, response, client>>

\* ProcessRequestHeaders: the transaction has not been given the URI yet.  The
\* directive that sets the default level is the last, after every rule of the
\* phase.
Phase1 == /\ pc = "phase1"
          /\ \/ /\ Interrupts(1, {"header"})
                /\ Refuse("denied")
                /\ UNCHANGED level
             \/ /\ ~Interrupts(1, {"header"})
                /\ level' = DefaultLevel
                /\ pc' = "phase2"
                /\ UNCHANGED client
          /\ UNCHANGED <<input, engine, removed, forwarded, response>>

\* ProcessURI, WriteRequestBody, ProcessRequestBody; the body may fail to be
\* read or parsed.
Phase2 == /\ pc = "phase2"
          /\ \/ Interrupts(2, Parts[2]) /\ Refuse("denied") /\ UNCHANGED forwarded
             \/ Refuse("error") /\ UNCHANGED forwarded
             \/ /\ ~Interrupts(2, Parts[2])
                /\ forwarded' = TRUE
                /\ pc' = "upstream"
                /\ UNCHANGED client
          /\ UNCHANGED <<input, transaction, response>>

\* The proxy of the standard library: a response into the recorder or the error
\* handler's page without a content type, either of them perhaps after an
\* informational response, or a panic in the middle of a body.
Upstream == /\ pc = "upstream"
            /\ \/ /\ \E r \in Responses \cup {BadGateway}, early \in BOOLEAN :
                        /\ origin' = [informed |-> early, code |-> r.code]
                        /\ recorder' = Recorded(origin', r)
                  /\ pc' = "postprocess"
                  /\ UNCHANGED client
               \/ /\ answer' = "cut short" /\ pc' = "done"
                  /\ UNCHANGED <<origin, recorder, status, length>>
            /\ UNCHANGED <<input, transaction, forwarded, script, todo>>
-----------------------------------------------------------------------------
\* The first upstream of the name decides whether the response is inspected,
\* while FindMatchingUpstream takes the last.
SkipsResponse ==
    LET named == {i \in DOMAIN upstreams : upstreams[i].hostname = host}
    IN  \E first \in named : /\ \A i \in named : first <= i
                             /\ ~upstreams[first].inspectResponses

Passed(p) == todo' = todo \ {p} /\ UNCHANGED client

Postprocess == /\ pc = "postprocess" /\ "coraza" \in todo
               /\ \/ SkipsResponse /\ Passed("coraza") /\ UNCHANGED pc
                  \/ ~SkipsResponse /\ pc' = "phase3" /\ UNCHANGED <<todo, client>>
               /\ UNCHANGED <<input, transaction, forwarded, origin, recorder, script>>

Phase3 == /\ pc = "phase3"
          /\ \/ Interrupts(3, Parts[3]) /\ Refuse("denied")
             \/ ~Interrupts(3, Parts[3]) /\ pc' = "phase4" /\ UNCHANGED client
          /\ UNCHANGED <<input, transaction, forwarded, response>>

Phase4 == /\ pc = "phase4"
          /\ \/ Interrupts(4, Parts[4]) /\ Refuse("denied") /\ UNCHANGED todo
             \/ Refuse("error") /\ UNCHANGED todo
             \/ ~Interrupts(4, Parts[4]) /\ Passed("coraza") /\ pc' = "postprocess"
          /\ UNCHANGED <<input, transaction, forwarded, origin, recorder, script>>

\* Only a page is touched.
InjectScript ==
    LET done == IF recorder.html THEN injectScriptIntoHtml(recorder.body) ELSE "intact" IN
    /\ pc = "postprocess" /\ "scriptinjector" \in todo
    /\ \/ done = "intact" /\ Passed("scriptinjector") /\ UNCHANGED <<pc, script>>
       \/ /\ done = "injected" /\ Passed("scriptinjector")
          /\ script' = endHeadIdx(recorder.body)
          /\ UNCHANGED pc
       \/ done = "error" /\ Refuse("error") /\ UNCHANGED <<todo, script>>
       \/ /\ done = "panic"
          /\ answer' = "panic" /\ pc' = "done"
          /\ UNCHANGED <<todo, script, status, length>>
    /\ UNCHANGED <<input, transaction, forwarded, origin, recorder>>
-----------------------------------------------------------------------------
\* net/http: an informational status is sent at once and is not the answer's; of
\* the others the first counts.
After(told, code) == IF told # 0 \/ Informational(code) THEN told ELSE code
WriteHeader(code) == status' = After(status, code)

\* A body that is written before any status is written with 200.
WriteResponse(code) ==
    status' = IF After(status, code) = 0 THEN 200 ELSE After(status, code)

\* Mutant: the length the upstream gave is passed on.
ReplayWithLength == /\ pc = "postprocess" /\ todo = {}
                    /\ answer' = "relayed" /\ pc' = "done"
                    /\ WriteResponse(recorder.code)
                    /\ length' = recorder.length
                    /\ UNCHANGED <<input, transaction, forwarded, response>>

\* The headers of the recorder, without its Content-Length, its code and body.
Replay == /\ pc = "postprocess" /\ todo = {}
          /\ answer' = "relayed" /\ pc' = "done"
          /\ WriteResponse(recorder.code)
          /\ length' = FALSE
          /\ UNCHANGED <<input, transaction, forwarded, response>>

IncreaseStrikes == /\ pc = "strike"
                   /\ pc' \in {"render403", "render500"}
                   /\ UNCHANGED <<input, transaction, forwarded, response, client>>

\* Mutant: the status is written with the page, once its template is read.
RenderLate == /\ pc \in {"render403", "render500"}
              /\ \/ WriteHeader(IF pc = "render403" THEN 403 ELSE 500) /\ pc' = "done"
                 \/ pc' = "unable to render" /\ UNCHANGED status
              /\ UNCHANGED <<input, transaction, forwarded, response, answer, length>>

\* RenderForbidden, RenderInternalServerError: the status, and then a template
\* that may fail to be read or filled.
Render == /\ pc \in {"render403", "render500"}
          /\ WriteHeader(IF pc = "render403" THEN 403 ELSE 500)
          /\ pc' \in {"done", "unable to render"}
          /\ UNCHANGED <<input, transaction, forwarded, response, answer, length>>

ErrUnableToRender == /\ pc = "unable to render"
                     /\ WriteHeader(707)
                     /\ pc' = "done"
                     /\ UNCHANGED <<input, transaction, forwarded, response, answer, length>>

Next == \/ Directives \/ Phase1 \/ Phase2 \/ Upstream
        \/ Postprocess \/ Phase3 \/ Phase4 \/ InjectScript
        \/ Replay \/ IncreaseStrikes \/ Render \/ ErrUnableToRender

Spec == Init /\ [][Next]_vars
-----------------------------------------------------------------------------
Own == {upstreams[i] : i \in {j \in DOMAIN upstreams : upstreams[j].hostname = host}}

LevelOf(phase) == IF phase = 1 THEN RuleSetLevel ELSE DefaultLevel

\* The rules that the configuration of the request's host leaves in force, at the
\* level that is set when their phase comes.
InForce == {k \in hits : /\ k.level <= LevelOf(k.phase)
                         /\ \A u \in Own : ~u.disableCoraza /\ k \notin u.ignoreRules}

\* What one host is configured to leave out is left out for no other: a request
\* that a rule in force for its host finds is not forwarded, and a response not
\* relayed where responses are inspected.  (A rule of phase 1 on the URI finds
\* nothing: the URI comes later.)
OthersUntouched ==
    \A k \in InForce :
        /\ k.phase = 2 \/ (k.phase = 1 /\ k.part # "uri") => ~forwarded
        /\ k.phase > 2 /\ (\A u \in Own : u.inspectResponses) => answer # "relayed"

\* "Sets if we want to use coraza or not" (coraza.go:58): a host that disables
\* coraza has no request denied by a rule.
DisabledHonoured == (\A u \in Own : u.disableCoraza) => answer # "denied"

KeepsLength(piece) == Size[piece] = LowerSize[piece]

\* A page that is relayed is whole: its script is right before the first </head>
\* if nothing in its head changes length in lower case, a page without a head
\* has none, and the client is not told the length it had before.
PageWhole ==
    answer = "relayed" =>
        LET html == recorder.body
            head == BeforeEndHead(html) IN
        /\ ~recorder.html \/ "endHead" \notin ToSet(html) => script = NoScript
        /\ recorder.html /\ "endHead" \in ToSet(html) /\ (\A p \in ToSet(head) : KeepsLength(p))
              => script = Bytes(head, Size)
        /\ script # NoScript => ~length

\* Whoever is refused is told so, 403 or 500, also when the template of a page is
\* missing or the upstream has answered before.  A response that is relayed keeps
\* the upstream's status, unless an informational one came before it: the
\* recorder keeps that one, and the client is told 200 whatever the upstream said.
StatusStands ==
    pc = "done" =>
        CASE answer \in {"denied", "error"} -> status \in {403, 500}
          [] answer = "relayed" -> status = IF origin.informed THEN 200 ELSE origin.code
          [] answer \in {"panic", "cut short"} -> status = 0

\* The handler panics over no page whose head keeps its length in lower case.
PanicsExplained ==
    answer = "panic" => \E p \in ToSet(BeforeEndHead(recorder.body)) : ~KeepsLength(p)
=============================================================================
