--------------------------- MODULE InspectionProofs ---------------------------
(***************************************************************************)
(* What the directives for single hosts leave out: nothing, for any rules  *)
(* and any configuration, because their selector looks for a header the    *)
(* transaction does not have.  So a rule in force that finds something has *)
(* its say in its phase, and the answer's status is written once.  And     *)
(* where the script goes in a page, for pages of any length.               *)
(***************************************************************************)
EXTENDS Inspection, FiniteSetTheorems, WellFoundedInduction, TLAPS

\* No rule of the phase found anything in what it was shown.
Clear(phase, parts) ==
    \A k \in hits : k.phase = phase /\ k.part \in parts => ~(k.level <= LevelOf(phase))

\* The stages after phase 1, up to the answer.
LaterStages == {"phase2", "upstream", "postprocess", "phase3", "phase4"}

IInv == /\ hits \subseteq Rules
        /\ engine = "On" /\ removed = {}
        /\ pc = "phase1" => level = RuleSetLevel
        /\ pc \in LaterStages => level = DefaultLevel
        /\ pc = "phase2" \/ forwarded => Clear(1, {"header"})
        /\ forwarded => Clear(2, Parts[2])
        /\ pc = "phase4" => Clear(3, Parts[3])
        /\ "coraza" \notin todo => SkipsResponse \/ (Clear(3, Parts[3]) /\ Clear(4, Parts[4]))
        /\ answer = "relayed" => todo = {}

\* Host is none of the headers, so no directive selects an upstream.
LEMMA NoneSelected == Selected = {}
BY DEF Selected, Headers

\* A transaction that is not interrupted has found nothing in the phase.
LEMMA NotInterrupted ==
  ASSUME IInv, NEW phase, level = LevelOf(phase), NEW parts, ~Interrupts(phase, parts)
  PROVE  Clear(phase, parts)
BY DEF IInv, Interrupts, Clear

\* The steps of the request and of the answer.
THEOREM Inductive == Spec => []IInv
<1>1. Init => IInv
  BY DEF Init, IInv, LaterStages
<1>2. IInv /\ [Next]_vars => IInv'
  <2> SUFFICES ASSUME IInv, [Next]_vars PROVE IInv'
    OBVIOUS
  <2>1. /\ UNCHANGED <<hits, upstreams, host>>
        /\ \A phase, parts : Clear(phase, parts)' <=> Clear(phase, parts)
        /\ SkipsResponse' <=> SkipsResponse
    BY DEF Next, Directives, Phase1, Phase2, Upstream, Postprocess, Phase3, Phase4,
           InjectScript, Replay, IncreaseStrikes, Render, ErrUnableToRender, vars, input,
           Clear, SkipsResponse
  <2> USE <2>1
  <2>2. CASE Directives
    BY <2>2, NoneSelected DEF Directives, IInv, LaterStages, response, client
  <2>3. CASE Phase1
    <3>1. pc = "phase1" /\ level = LevelOf(1) /\ UNCHANGED response
      BY <2>3 DEF Phase1, IInv, LevelOf
    <3>2. CASE pc' = "phase2"
      <4>1. Clear(1, {"header"}) /\ level' = DefaultLevel
        BY <2>3, <3>1, <3>2, NotInterrupted DEF Phase1, Refuse
      <4> QED
        BY <2>3, <3>1, <3>2, <4>1 DEF Phase1, Refuse, IInv, LaterStages, response, client
    <3>3. CASE pc' = "strike"
      BY <2>3, <3>1, <3>3 DEF Phase1, Refuse, IInv, LaterStages, response, client
    <3> QED
      BY <2>3, <3>2, <3>3 DEF Phase1, Refuse
  <2>4. CASE Phase2
    <3>1. pc = "phase2" /\ level = LevelOf(2)
      BY <2>4 DEF Phase2, IInv, LevelOf, LaterStages
    <3> QED
      BY <2>4, <3>1, NotInterrupted
         DEF Phase2, Refuse, IInv, LaterStages, transaction, response, client
  <2>5. CASE Upstream
    BY <2>5 DEF Upstream, IInv, LaterStages, transaction, client
  <2>6. CASE Postprocess
    BY <2>6 DEF Postprocess, Passed, IInv, LaterStages, transaction, client
  <2>7. CASE Phase3
    <3>1. pc = "phase3" /\ level = LevelOf(3)
      BY <2>7 DEF Phase3, IInv, LevelOf, LaterStages
    <3> QED
      BY <2>7, <3>1, NotInterrupted
         DEF Phase3, Refuse, IInv, LaterStages, transaction, response, client
  <2>8. CASE Phase4
    <3>1. pc = "phase4" /\ level = LevelOf(4)
      BY <2>8 DEF Phase4, IInv, LevelOf, LaterStages
    <3> QED
      BY <2>8, <3>1, NotInterrupted
         DEF Phase4, Refuse, Passed, IInv, LaterStages, transaction, client
  <2>9. CASE InjectScript
    BY <2>9 DEF InjectScript, Refuse, Passed, IInv, LaterStages, transaction, client
  <2>10. CASE Replay
    BY <2>10 DEF Replay, IInv, LaterStages, transaction, response
  <2>11. CASE IncreaseStrikes \/ Render \/ ErrUnableToRender
    <3>1. /\ UNCHANGED <<engine, removed, level, forwarded, todo, answer>>
          /\ pc' \in {"render403", "render500", "done", "unable to render"}
      BY <2>11 DEF IncreaseStrikes, Render, ErrUnableToRender, transaction, response, client
    <3> QED
      BY <3>1 DEF IInv, LaterStages
  <2>12. CASE UNCHANGED vars
    BY <2>12 DEF vars, IInv, transaction, response, client
  <2> QED
    BY <2>2, <2>3, <2>4, <2>5, <2>6, <2>7, <2>8, <2>9, <2>10, <2>11, <2>12 DEF Next
<1> QED
  BY <1>1, <1>2, PTL DEF Spec

\* What one host leaves out is left out for no other: a rule in force for the
\* host stops the request or the response in which it finds something.
THEOREM Untouched == Spec => []OthersUntouched
<1>1. IInv => OthersUntouched
  <2> SUFFICES ASSUME IInv, NEW k \in InForce
               PROVE  /\ k.phase = 2 \/ (k.phase = 1 /\ k.part # "uri") => ~forwarded
                      /\ k.phase > 2 /\ (\A u \in Own : u.inspectResponses)
                            => answer # "relayed"
    BY DEF OthersUntouched
  <2>1. k \in hits /\ k.level <= LevelOf(k.phase) /\ k.phase \in 1..4 /\ k.part \in Parts[k.phase]
    BY RulesAssumption DEF InForce, IInv
  <2>2. k.phase = 2 \/ (k.phase = 1 /\ k.part # "uri") => ~forwarded
    BY <2>1 DEF IInv, Clear, Parts
  <2>3. ASSUME k.phase > 2, \A u \in Own : u.inspectResponses, answer = "relayed"
        PROVE  FALSE
    <3>1. ~SkipsResponse
      BY <2>3 DEF SkipsResponse, Own
    <3>2. Clear(3, Parts[3]) /\ Clear(4, Parts[4])
      BY <2>3, <3>1 DEF IInv
    <3>3. k.phase \in {3, 4}
      BY <2>1, <2>3
    <3> QED
      BY <2>1, <3>2, <3>3 DEF Clear
  <2> QED
    BY <2>2, <2>3
<1> QED
  BY <1>1, Inductive, PTL
-----------------------------------------------------------------------------
\* The recorder has a response of the upstream or the error handler's page, with
\* the status that was written to it first.
FromUpstream == \E r \in Responses \cup {BadGateway} :
                   recorder = Recorded(origin, r) /\ origin.code = r.code

\* Only the upstream writes to the recorder, and the script injector to the body.
THEOREM Origin == Spec => []FromUpstream
<1>1. Init => FromUpstream
  BY DEF Init, FromUpstream
<1>2. FromUpstream /\ [Next]_vars => FromUpstream'
  <2> SUFFICES ASSUME FromUpstream, [Next]_vars PROVE FromUpstream'
    OBVIOUS
  <2>1. CASE UNCHANGED <<origin, recorder>>
    BY <2>1 DEF FromUpstream, Recorded
  <2>2. CASE Upstream /\ ~UNCHANGED <<origin, recorder>>
    <3>1. PICK r \in Responses \cup {BadGateway}, early \in BOOLEAN :
             /\ origin' = [informed |-> early, code |-> r.code]
             /\ recorder' = Recorded(origin', r)
      BY <2>2 DEF Upstream
    <3>2. origin'.code = r.code
      BY <3>1
    <3>3. recorder' = Recorded(origin, r)'
      BY <3>1 DEF Recorded
    <3> QED
      BY <3>2, <3>3 DEF FromUpstream
  <2> QED
    BY <2>1, <2>2
       DEF Next, Directives, Phase1, Phase2, Postprocess, Phase3, Phase4, InjectScript,
           Replay, IncreaseStrikes, Render, ErrUnableToRender, response, vars
<1> QED
  BY <1>1, <1>2, PTL DEF Spec

\* What the replay tells of it.
LEMMA ToldOfResponse ==
  ASSUME FromUpstream, status = 0, WriteResponse(recorder.code)
  PROVE  status' = IF origin.informed THEN 200 ELSE origin.code
<1>1. PICK r \in Responses \cup {BadGateway} :
         recorder = Recorded(origin, r) /\ origin.code = r.code
  BY DEF FromUpstream
<1>2. recorder.code = IF origin.informed THEN EarlyHints ELSE origin.code
  BY <1>1 DEF Recorded
<1>3. BadGateway.code = 502
  BY DEF BadGateway
<1>4. origin.code \in 200..999
  BY <1>1, <1>3, ResponsesAssumption
<1>5. Informational(EarlyHints)
  BY DEF Informational, EarlyHints
<1>6. \A code \in 200..999 : code \in Int /\ code >= 200
  OBVIOUS
<1>7. \A code \in Int : code >= 200 => ~Informational(code) /\ code # 0
  BY DEF Informational
<1>8. ~Informational(origin.code) /\ origin.code # 0
  BY <1>4, <1>6, <1>7
<1>9. CASE origin.informed
  <2>1. After(status, recorder.code) = 0
    BY <1>2, <1>5, <1>9 DEF After
  <2> QED
    BY <1>9, <2>1 DEF WriteResponse
<1>10. CASE ~origin.informed
  <2>1. After(status, recorder.code) = origin.code
    BY <1>2, <1>8, <1>10 DEF After
  <2> QED
    BY <1>8, <1>10, <2>1 DEF WriteResponse
<1> QED
  BY <1>9, <1>10
-----------------------------------------------------------------------------
\* A request that is not answered, or whose page has no template, at its stages.
Refusals == {"denied", "error"}
Open == {"preprocess", "phase1", "phase2", "upstream", "postprocess", "phase3", "phase4"}
Refusing == {"strike", "render403", "render500"}
Told == status = 403 \/ status = 500

\* The answer and its status: none before the first page or the replay, 403 or
\* 500 before a failing template, and then no other.
Waiting  == /\ pc \in Open \cup Refusing => status = 0
            /\ pc \in Refusing \cup {"unable to render"} => answer \in Refusals
            /\ pc = "unable to render" => Told
Answered == /\ pc = "done" => answer \in Refusals \cup {"relayed", "panic", "cut short"}
            /\ pc = "done" /\ answer \in Refusals => Told
            /\ pc = "done" /\ answer = "relayed" =>
                  status = IF origin.informed THEN 200 ELSE origin.code
            /\ pc = "done" /\ answer \in {"panic", "cut short"} => status = 0

\* The steps on which nothing is written to the client.
LEMMA WaitingSteps ==
  ASSUME Waiting,
         \/ Directives \/ Phase1 \/ Phase2 \/ Postprocess \/ Phase3 \/ Phase4
         \/ IncreaseStrikes
  PROVE  Waiting' /\ pc' # "done"
<1>1. /\ status' = status /\ status = 0
      /\ pc' \in Open \cup Refusing
      /\ pc' \in Refusing => answer' \in Refusals
  BY DEF Directives, Phase1, Phase2, Postprocess, Phase3, Phase4, IncreaseStrikes, Refuse,
         Passed, client, Waiting, Open, Refusing, Refusals
<1> QED
  BY <1>1 DEF Waiting, Open, Refusing

\* The status told is that of the page or of the upstream's response, if that is
\* all the upstream sent.
THEOREM Status == Spec => []StatusStands
<1>1. Init => Waiting /\ Answered
  BY DEF Init, Waiting, Answered, Open, Refusing
<1>2. FromUpstream /\ Waiting /\ Answered /\ [Next]_vars => Waiting' /\ Answered'
  <2> SUFFICES ASSUME FromUpstream, Waiting, Answered, [Next]_vars PROVE Waiting' /\ Answered'
    OBVIOUS
  <2>1. CASE \/ Directives \/ Phase1 \/ Phase2 \/ Postprocess \/ Phase3 \/ Phase4
             \/ IncreaseStrikes
    BY <2>1, WaitingSteps DEF Answered
  <2>2. CASE Upstream
    <3>1. /\ status' = status /\ status = 0
          /\ \/ pc' = "postprocess"
             \/ pc' = "done" /\ answer' = "cut short"
      BY <2>2 DEF Upstream, client, Waiting, Open
    <3> QED
      BY <3>1 DEF Waiting, Answered, Open, Refusing, Refusals
  <2>3. CASE InjectScript
    <3>1. /\ status' = status /\ status = 0
          /\ \/ pc' = "postprocess"
             \/ pc' = "render500" /\ answer' \in Refusals
             \/ pc' = "done" /\ answer' = "panic"
      BY <2>3 DEF InjectScript, Refuse, Passed, client, Waiting, Open, Refusals
    <3> QED
      BY <3>1 DEF Waiting, Answered, Open, Refusing, Refusals
  <2>4. CASE Replay
    <3>1. /\ pc' = "done" /\ answer' = "relayed" /\ UNCHANGED origin
          /\ status = 0 /\ WriteResponse(recorder.code)
      BY <2>4 DEF Replay, Waiting, Open, response
    <3>2. status' = IF origin'.informed THEN 200 ELSE origin'.code
      BY <3>1, ToldOfResponse
    <3> QED
      BY <3>1, <3>2 DEF Waiting, Answered, Open, Refusing, Refusals
  <2>5. CASE Render
    <3>1. /\ pc \in {"render403", "render500"}
          /\ answer' = answer
          /\ pc' = "done" \/ pc' = "unable to render"
      BY <2>5 DEF Render
    <3>2. status = 0 /\ answer \in Refusals
      BY <3>1 DEF Waiting, Refusing
    <3>3. WriteHeader(403) \/ WriteHeader(500)
      BY <2>5, Zenon DEF Render
    <3>4. Told'
      BY <3>2, <3>3 DEF WriteHeader, After, Informational, Told
    <3> QED
      BY <3>1, <3>2, <3>4 DEF Waiting, Answered, Open, Refusing, Refusals
  <2>6. CASE ErrUnableToRender
    <3>1. pc = "unable to render" /\ pc' = "done" /\ answer' = answer
      BY <2>6 DEF ErrUnableToRender
    <3>2. Told /\ answer \in Refusals
      BY <3>1 DEF Waiting
    <3>3. WriteHeader(707)
      BY <2>6 DEF ErrUnableToRender
    <3>4. Told'
      BY <3>2, <3>3 DEF WriteHeader, After, Told
    <3> QED
      BY <3>1, <3>2, <3>4 DEF Waiting, Answered, Open, Refusing, Refusals
  <2>7. CASE UNCHANGED vars
    <3>1. UNCHANGED <<pc, answer, status, origin>>
      BY <2>7 DEF vars, client, response
    <3>2. Told' <=> Told
      BY <3>1 DEF Told
    <3> QED
      BY <3>1, <3>2 DEF Waiting, Answered
  <2> QED
    BY <2>1, <2>2, <2>3, <2>4, <2>5, <2>6, <2>7 DEF Next
<1>3. Answered => StatusStands
  <2> SUFFICES ASSUME Answered, pc = "done"
               PROVE  CASE answer \in Refusals -> status \in {403, 500}
                        [] answer = "relayed"  ->
                             status = IF origin.informed THEN 200 ELSE origin.code
                        [] answer \in {"panic", "cut short"} -> status = 0
    BY DEF StatusStands, Refusals
  <2>1. CASE answer \in Refusals
    <3>1. Told /\ answer # "relayed" /\ answer \notin {"panic", "cut short"}
      BY <2>1 DEF Answered, Refusals
    <3> QED
      BY <2>1, <3>1 DEF Told
  <2>2. CASE answer = "relayed"
    BY <2>2 DEF Answered, Refusals
  <2>3. CASE answer \in {"panic", "cut short"}
    BY <2>3 DEF Answered, Refusals
  <2> QED
    BY <2>1, <2>2, <2>3 DEF Answered
<1> QED
  BY <1>1, <1>2, <1>3, Origin, PTL DEF Spec
-----------------------------------------------------------------------------
\* A set of natural numbers that has one has a least one.
LEMMA Least ==
  ASSUME NEW S \in SUBSET Nat, S # {}
  PROVE  \E m \in S : \A k \in S : m <= k
<1> DEFINE R == {p \in Nat \X Nat : p[1] < p[2]}
<1>1. IsWellFoundedOn(R, Nat)
  BY NatLessThanWellFounded, IsWellFoundedOn(OpToRel(<, Nat), Nat) DEF OpToRel
<1>2. \A x, y \in Nat : <<y, x>> \in R <=> y < x
  OBVIOUS
<1> HIDE DEF R
<1>3. PICK x \in S : \A y \in S : ~ (<<y, x>> \in R)
  BY <1>1, WFMin
<1>4. \A y \in S : ~ (y < x)
  BY <1>2, <1>3
<1>5. \A y \in S : x <= y
  BY <1>4
<1> QED
  BY <1>5

\* The head of a page that has a </head> is what it begins with, and ends in it.
LEMMA HeadBegins ==
  ASSUME NEW html \in Seq(Pieces), "endHead" \in ToSet(html)
  PROVE  LET head == BeforeEndHead(html) IN
         /\ head \in Seq(Pieces)
         /\ DOMAIN head \subseteq DOMAIN html
         /\ \A i \in DOMAIN head : head[i] = html[i]
<1> DEFINE tags == {i \in 1..Len(html) : html[i] = "endHead"}
           n == SelectInSeq(html, LAMBDA piece : piece = "endHead")
<1>1. tags \in SUBSET Nat /\ tags # {}
  BY DEF ToSet
<1>2. n = CHOOSE i \in tags : \A j \in tags : i <= j
  BY <1>1 DEF SelectInSeq, Min
<1> HIDE DEF n
<1>3. n \in tags
  BY <1>1, <1>2, Least
<1>4. n \in 1..Len(html)
  BY <1>3
<1>5. BeforeEndHead(html) = SubSeq(html, 1, n - 1)
  BY DEF BeforeEndHead, n
<1> QED
  BY <1>4, <1>5

\* What a page begins with has no more of a piece than the page.
LEMMA FewerInFront ==
  ASSUME NEW html \in Seq(Pieces), NEW head \in Seq(Pieces), NEW piece,
         DOMAIN head \subseteq DOMAIN html, \A i \in DOMAIN head : head[i] = html[i]
  PROVE  /\ Occurrences(head, piece) \in Nat
         /\ Occurrences(html, piece) \in Nat
         /\ Occurrences(head, piece) <= Occurrences(html, piece)
         /\ piece \notin ToSet(head) => Occurrences(head, piece) = 0
<1> DEFINE here == {i \in DOMAIN head : head[i] = piece}
           all  == {i \in DOMAIN html : html[i] = piece}
<1>1. IsFiniteSet(all)
  <2>1. IsFiniteSet(1..Len(html))
    <3>1. Len(html) \in Int /\ 1 \in Int
      OBVIOUS
    <3> QED
      BY <3>1, FS_Interval
  <2>2. all \subseteq 1..Len(html)
    OBVIOUS
  <2> QED
    BY <2>1, <2>2, FS_Subset
<1>2. here \subseteq all
  OBVIOUS
<1>3. piece \notin ToSet(head) => here = {}
  BY DEF ToSet
<1> HIDE DEF here, all
<1>4. /\ IsFiniteSet(here)
      /\ Cardinality(here) <= Cardinality(all)
  BY <1>1, <1>2, FS_Subset
<1>5. Cardinality(here) \in Nat /\ Cardinality(all) \in Nat
  BY <1>1, <1>4, FS_CardinalityType
<1>6. here = {} => Cardinality(here) = 0
  BY FS_EmptySet
<1> QED
  BY <1>3, <1>4, <1>5, <1>6 DEF Occurrences, here, all

\* A sum grows with its parts.
LEMMA SumGrows ==
  ASSUME NEW a \in Nat, NEW b \in Nat, NEW c \in Nat, NEW d \in Nat, a <= b, c <= d
  PROVE  a + c \in Nat /\ b + d \in Nat /\ a + c <= b + d
OBVIOUS

\* Where lower case changes no length in the head, the tag is found at the place
\* it has in the page.
LEMMA FoundInPlace ==
  ASSUME NEW html \in Seq(Pieces), "endHead" \in ToSet(html),
         \A p \in ToSet(BeforeEndHead(html)) : KeepsLength(p)
  PROVE  /\ endHeadIdx(html) = Bytes(BeforeEndHead(html), Size)
         /\ endHeadIdx(html) <= Bytes(html, Size)
         /\ endHeadIdx(html) \in Nat /\ Bytes(html, Size) \in Nat
<1> DEFINE head == BeforeEndHead(html)
<1>1. /\ head \in Seq(Pieces)
      /\ DOMAIN head \subseteq DOMAIN html
      /\ \A i \in DOMAIN head : head[i] = html[i]
  BY HeadBegins
<1>2. "latin" \notin ToSet(head) /\ "kelvin" \notin ToSet(head)
  BY DEF KeepsLength, Size, LowerSize
<1> HIDE DEF head
<1>3. \A piece : /\ Occurrences(head, piece) \in Nat
                 /\ Occurrences(html, piece) \in Nat
                 /\ Occurrences(head, piece) <= Occurrences(html, piece)
                 /\ piece \notin ToSet(head) => Occurrences(head, piece) = 0
  BY <1>1, FewerInFront
<1>4. Occurrences(head, "latin") = 0 /\ Occurrences(head, "kelvin") = 0
  BY <1>2, <1>3
<1>5. Bytes(head, LowerSize) = Bytes(head, Size)
  <2>1. /\ LowerSize["text"] = Size["text"] /\ LowerSize["head"] = Size["head"]
        /\ LowerSize["endHead"] = Size["endHead"]
        /\ Size["latin"] * 0 = 0 /\ LowerSize["latin"] * 0 = 0
        /\ Size["kelvin"] * 0 = 0 /\ LowerSize["kelvin"] * 0 = 0
    BY DEF Size, LowerSize
  <2> QED
    BY <1>4, <2>1 DEF Bytes
<1>6. \A k \in Pieces : /\ Size[k] * Occurrences(head, k) \in Nat
                       /\ Size[k] * Occurrences(html, k) \in Nat
                       /\ Size[k] * Occurrences(head, k) <= Size[k] * Occurrences(html, k)
  BY <1>3 DEF Pieces, Size
<1>7. "text" \in Pieces /\ "head" \in Pieces /\ "endHead" \in Pieces
      /\ "latin" \in Pieces /\ "kelvin" \in Pieces
  BY DEF Pieces, Size
<1>8. /\ Bytes(head, Size) \in Nat /\ Bytes(html, Size) \in Nat
      /\ Bytes(head, Size) <= Bytes(html, Size)
  <2> DEFINE h(k) == Size[k] * Occurrences(head, k)
             p(k) == Size[k] * Occurrences(html, k)
  <2>1. /\ h("text") \in Nat /\ p("text") \in Nat /\ h("text") <= p("text")
        /\ h("head") \in Nat /\ p("head") \in Nat /\ h("head") <= p("head")
        /\ h("endHead") \in Nat /\ p("endHead") \in Nat /\ h("endHead") <= p("endHead")
        /\ h("latin") \in Nat /\ p("latin") \in Nat /\ h("latin") <= p("latin")
        /\ h("kelvin") \in Nat /\ p("kelvin") \in Nat /\ h("kelvin") <= p("kelvin")
    BY <1>6, <1>7
  <2>2. /\ Bytes(head, Size) = h("text") + h("head") + h("endHead") + h("latin") + h("kelvin")
        /\ Bytes(html, Size) = p("text") + p("head") + p("endHead") + p("latin") + p("kelvin")
    BY DEF Bytes
  <2> HIDE DEF h, p
  <2> DEFINE h2 == h("text") + h("head")
             p2 == p("text") + p("head")
             h3 == h2 + h("endHead")
             p3 == p2 + p("endHead")
             h4 == h3 + h("latin")
             p4 == p3 + p("latin")
  <2>3. h2 \in Nat /\ p2 \in Nat /\ h2 <= p2
    BY <2>1, SumGrows
  <2> HIDE DEF h2, p2
  <2>4. h3 \in Nat /\ p3 \in Nat /\ h3 <= p3
    BY <2>1, <2>3, SumGrows
  <2> HIDE DEF h3, p3
  <2>5. h4 \in Nat /\ p4 \in Nat /\ h4 <= p4
    BY <2>1, <2>4, SumGrows
  <2> HIDE DEF h4, p4
  <2>6. /\ h4 + h("kelvin") \in Nat /\ p4 + p("kelvin") \in Nat
        /\ h4 + h("kelvin") <= p4 + p("kelvin")
    BY <2>1, <2>5, SumGrows
  <2> QED
    BY <2>2, <2>6 DEF h4, p4, h3, p3, h2, p2
<1> QED
  BY <1>5, <1>8 DEF endHeadIdx, head

\* What the scriptinjector has left of a response it has seen.
Injected == IF recorder.html /\ "endHead" \in ToSet(recorder.body)
            THEN script = endHeadIdx(recorder.body) ELSE script = NoScript

\* The script goes into a response once and where the tag was found; who panics
\* does so over the response that is there.
Pages == /\ pc \in {"preprocess", "phase1", "phase2", "upstream"} =>
               "scriptinjector" \in todo
         /\ IF "scriptinjector" \in todo THEN script = NoScript ELSE Injected
         /\ answer \in {"panic", "relayed"} => pc = "done"
         /\ answer = "panic" => injectScriptIntoHtml(recorder.body) = "panic"
         /\ answer = "relayed" => todo = {} /\ length = FALSE

\* A step on which nothing happens to the response keeps it.
LEMMA OffPage ==
  ASSUME Pages, UNCHANGED <<recorder, script, length>>,
         todo' = todo \/ todo' = todo \ {"coraza"},
         pc # "done", answer' = answer \/ answer' \in {"denied", "error", "cut short"},
         pc' \in {"phase1", "phase2", "upstream"} =>
            pc \in {"preprocess", "phase1", "phase2", "upstream"},
         pc' # "preprocess"
  PROVE  Pages'
<1>1. "scriptinjector" \in todo' <=> "scriptinjector" \in todo
  OBVIOUS
<1>2. answer' \notin {"panic", "relayed"}
  BY DEF Pages
<1>3. Injected' <=> Injected
  BY DEF Injected
<1> QED
  BY <1>1, <1>2, <1>3 DEF Pages

\* The step that injects.
LEMMA InjectPages == ASSUME Pages, InjectScript PROVE Pages'
<1> DEFINE html == recorder.body
           done == IF recorder.html THEN injectScriptIntoHtml(html) ELSE "intact"
<1>1. /\ UNCHANGED recorder
      /\ pc = "postprocess" /\ "scriptinjector" \in todo
      /\ script = NoScript /\ answer \notin {"panic", "relayed"}
  BY DEF InjectScript, Pages
<1>2. Injected' <=> IF recorder.html /\ "endHead" \in ToSet(html)
                    THEN script' = endHeadIdx(html) ELSE script' = NoScript
  BY <1>1 DEF Injected
<1>3. /\ done = "intact" => ~(recorder.html /\ "endHead" \in ToSet(html))
      /\ done = "injected" => recorder.html /\ "endHead" \in ToSet(html)
      /\ done = "panic" => injectScriptIntoHtml(html) = "panic"
  BY DEF injectScriptIntoHtml
<1>4. CASE done = "intact" /\ Passed("scriptinjector") /\ UNCHANGED <<pc, script>>
  <2>1. /\ todo' = todo \ {"scriptinjector"} /\ pc' = "postprocess"
        /\ UNCHANGED <<answer, length>> /\ script' = NoScript
    BY <1>1, <1>4 DEF Passed, client
  <2>2. Injected'
    BY <1>2, <1>3, <1>4, <2>1
  <2> QED
    BY <1>1, <2>1, <2>2 DEF Pages
<1>5. CASE done = "injected" /\ Passed("scriptinjector") /\ script' = endHeadIdx(html)
           /\ UNCHANGED pc
  <2>1. /\ todo' = todo \ {"scriptinjector"} /\ pc' = "postprocess"
        /\ UNCHANGED <<answer, length>>
    BY <1>1, <1>5 DEF Passed, client
  <2>2. Injected'
    BY <1>2, <1>3, <1>5
  <2> QED
    BY <1>1, <2>1, <2>2 DEF Pages
<1>6. CASE done = "error" /\ Refuse("error") /\ UNCHANGED <<todo, script>>
  <2>1. answer' = "error" /\ pc' = "render500" /\ UNCHANGED <<length, todo, script>>
    BY <1>6 DEF Refuse
  <2> QED
    BY <1>1, <2>1 DEF Pages
<1>7. CASE done = "panic" /\ answer' = "panic" /\ pc' = "done"
           /\ UNCHANGED <<todo, script, status, length>>
  BY <1>1, <1>3, <1>7 DEF Pages
<1> QED
  BY <1>4, <1>5, <1>6, <1>7 DEF InjectScript

\* The response from the upstream to the client.
THEOREM ThePage == Spec => []Pages
<1>1. Init => Pages
  BY DEF Init, Pages
<1>2. Pages /\ [Next]_vars => Pages'
  <2> SUFFICES ASSUME Pages, [Next]_vars PROVE Pages'
    OBVIOUS
  <2>1. CASE Directives \/ Phase1 \/ Phase2
    BY <2>1, OffPage
       DEF Directives, Phase1, Phase2, Refuse, response, client, transaction
  <2>2. CASE Upstream
    <3>1. /\ pc = "upstream" /\ UNCHANGED <<script, todo, length>>
          /\ pc' \in {"postprocess", "done"}
          /\ answer' = answer \/ answer' = "cut short"
      BY <2>2 DEF Upstream, client
    <3>2. "scriptinjector" \in todo /\ script = NoScript
      BY <3>1 DEF Pages
    <3>3. answer' \notin {"panic", "relayed"}
      BY <3>1 DEF Pages
    <3> QED
      BY <3>1, <3>2, <3>3 DEF Pages
  <2>3. CASE Postprocess \/ Phase3 \/ Phase4
    <3>1. /\ UNCHANGED <<recorder, script, length>>
          /\ todo' = todo \/ todo' = todo \ {"coraza"}
          /\ pc # "done" /\ pc' \in {"postprocess", "phase3", "phase4", "strike", "render500"}
          /\ answer' = answer \/ answer' \in {"denied", "error", "cut short"}
      BY <2>3 DEF Postprocess, Phase3, Phase4, Passed, Refuse, response, client
    <3> QED
      BY <3>1, OffPage
  <2>4. CASE InjectScript
    BY <2>4, InjectPages
  <2>5. CASE Replay
    <3>1. /\ UNCHANGED <<recorder, script, todo>> /\ todo = {}
          /\ pc = "postprocess" /\ pc' = "done" /\ answer' = "relayed" /\ length' = FALSE
      BY <2>5 DEF Replay, response
    <3>2. Injected' <=> Injected
      BY <3>1 DEF Injected
    <3> QED
      BY <3>1, <3>2 DEF Pages
  <2>6. CASE IncreaseStrikes \/ Render \/ ErrUnableToRender
    <3>1. /\ UNCHANGED <<recorder, script, length, todo, answer>> /\ pc # "done"
          /\ pc' \in {"render403", "render500", "done", "unable to render"}
      BY <2>6 DEF IncreaseStrikes, Render, ErrUnableToRender, response, client
    <3> QED
      BY <3>1, OffPage
  <2>7. CASE UNCHANGED vars
    BY <2>7 DEF vars, response, client, Pages, Injected
  <2> QED
    BY <2>1, <2>2, <2>3, <2>4, <2>5, <2>6, <2>7 DEF Next
<1> QED
  BY <1>1, <1>2, PTL DEF Spec

\* Every response of the upstream is a page or another text of pieces.
LEMMA BodyType == ASSUME FromUpstream PROVE recorder.body \in Seq(Pieces)
<1>1. BadGateway.body \in Seq(Pieces)
  <2>1. "text" \in Pieces
    BY DEF Pieces, Size
  <2> QED
    BY <2>1 DEF BadGateway
<1> QED
  BY <1>1, ResponsesAssumption DEF FromUpstream, Recorded

\* A relayed page is whole, whatever pages there are.
THEOREM Whole == Spec => []PageWhole
<1>1. Pages /\ FromUpstream => PageWhole
  <2> SUFFICES ASSUME Pages, FromUpstream, answer = "relayed" PROVE PageWhole
    BY DEF PageWhole
  <2>1. Injected /\ length = FALSE
    BY DEF Pages
  <2>2. recorder.body \in Seq(Pieces)
    BY BodyType
  <2> QED
    BY <2>1, <2>2, FoundInPlace DEF Injected, PageWhole
<1> QED
  BY <1>1, ThePage, Origin, PTL

\* The handler panics only over a head that lower case makes longer.
THEOREM Panics == Spec => []PanicsExplained
<1>1. Pages /\ FromUpstream => PanicsExplained
  <2> SUFFICES ASSUME Pages, FromUpstream, answer = "panic",
                      \A p \in ToSet(BeforeEndHead(recorder.body)) : KeepsLength(p)
               PROVE  FALSE
    BY DEF PanicsExplained
  <2>1. recorder.body \in Seq(Pieces)
    BY BodyType
  <2>2. /\ "endHead" \in ToSet(recorder.body)
        /\ endHeadIdx(recorder.body) > Bytes(recorder.body, Size)
    BY DEF Pages, injectScriptIntoHtml
  <2>3. /\ endHeadIdx(recorder.body) \in Nat /\ Bytes(recorder.body, Size) \in Nat
        /\ endHeadIdx(recorder.body) <= Bytes(recorder.body, Size)
    BY <2>1, <2>2, FoundInPlace
  <2> QED
    BY <2>2, <2>3
<1> QED
  BY <1>1, ThePage, Origin, PTL
=============================================================================
