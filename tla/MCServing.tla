------------------------------ MODULE MCServing ------------------------------
(* Two configured hosts and one that is not; requests in two slices, the first  *)
(* varying the headers, the second the address, the path and the cookies.       *)
EXTENDS Serving

CONSTANTS h1, h2, h3, slow, fast, near, far

MCHosts == {h1, h2, h3}
MCRules == {slow, fast}

MCAddresses == {near, far}
MCNetwork == [lan |-> {near}, all |-> {near, far}]

Admin == <<"/admin">>

Upstream(h, r, nets, blocked) ==
    [hostname |-> h, rules |-> r, allowedSources |-> nets, blockedPaths |-> blocked]

MCSettings ==
    {Upstream(h1, fast, <<>>, <<>>),
     Upstream(h1, slow, <<"lan", "typo", "all">>, <<Admin>>),
     Upstream(h1, slow, <<"lan">>, << <<"/adminer">>, <<"/", "x">> >>),
     Upstream(h2, fast, <<"typo", "lan">>, <<Admin>>)}

Mozilla(words, products, mentions) ==
    [form |-> "mozilla", words |-> words, products |-> products, mentions |-> mentions]

(***************************************************************************)
(* Real browsers.  Those built on Chromium say so on every system, and     *)
(* only Opera says more in a product that the plugin knows: Edge's is      *)
(* "Edg"; Brave's user agent is Chrome's.  On iOS all are Safari's engine  *)
(* and send no hints, but TestChrome (browser_test.go:26) has one that     *)
(* does.                                                                   *)
(***************************************************************************)
Systems == {<<{"windows"}, "Windows", "?0">>, <<{"macintosh"}, "macOS", "?0">>,
            <<{"x11", "linux"}, "Linux", "?0">>, <<{"x11", "cros"}, "Chrome OS", "?0">>,
            <<{"linux", "android"}, "Android", "?1">>,
            <<{"linux", "android"}, "Android", "?0">>}   \* a tablet

Brands == {{"Chromium", "GoogleChrome"}, {"Chromium", "MicrosoftEdge"},
           {"Chromium", "Opera"}, {"Chromium", "Brave"}}

Asked(agent, brands, platform, mobile) ==
    [agent |-> agent, hint |-> "brands", brands |-> brands, version |-> "143",
     platform |-> platform, mobile |-> mobile, dpr |-> "2"]

Silent(agent) == [agent |-> agent, hint |-> "", brands |-> {}, version |-> "",
                  platform |-> "", mobile |-> "", dpr |-> ""]

PadAgent == Mozilla({"ipad"}, {"crios", "safari"}, {"CriOS", "Safari"})

Chromiums ==
    {Asked(Mozilla(s[1], {"chrome", "safari"} \cup (IF "Opera" \in b THEN {"opr"} ELSE {}),
                   {"Safari"}),
           b, s[2], s[3]) : s \in Systems, b \in Brands}

MCGenuine ==
    Chromiums
    \cup {Silent(Mozilla(w, {"firefox"}, {"Firefox"})) : w \in {{"windows"}, {"android"}}}
    \cup {Silent(Mozilla(w, {"safari"}, {"Safari"})) : w \in {{"macintosh"}, {"iphone"}}}
    \cup {Silent(PadAgent)}
    \cup {Asked(PadAgent, b, "iOS", "?1") :
            b \in {{"Chromium", "GoogleChrome"}, {"Chromium", "Brave"}}}

\* Agents that no browser has: the names without the products among them.
OddAgents ==
    {[form |-> f, words |-> {}, products |-> {}, mentions |-> m] :
        f \in {"empty", "foreign", "mozilla"}, m \in {{}, {"Firefox"}}}

MCAgents == {g.agent : g \in MCGenuine} \cup OddAgents

MCBrands == {<<"", {}>>, <<"brands", {}>>} \cup ({"brands"} \X Brands)

\* Every agent with every list of brands and with the hints of every system, or
\* one of them not as the plugin wants it, or none.
HintRows == ({"143"} \X {s[2] : s \in Systems} \X {"", "?0", "?1"} \X {"2"})
            \cup {<<"", "Windows", "?0", "2">>, <<"143", "", "?0", "2">>,
                  <<"143", "Unknown", "?0", "2">>, <<"143", "Windows", "text", "2">>,
                  <<"143", "Windows", "?0", "">>, <<"143", "Windows", "?0", "0">>,
                  <<"143", "Windows", "?0", "text">>, <<"", "", "", "">>}

HeaderSlice ==
    {[host |-> h1, path |-> <<"/">>, source |-> near, cookies |-> <<"_gSession">>,
      agent |-> a, hint |-> b[1], brands |-> b[2], version |-> r[1], platform |-> r[2],
      mobile |-> r[3], dpr |-> r[4]] :
        a \in MCAgents, b \in MCBrands, r \in HintRows}

(***************************************************************************)
(* The real browsers that are refused with every hint given: Edge, whose   *)
(* product searchExtensions does not know, Chrome as it is on iOS, and     *)
(* all tablets, for Android is mobile and they say they are not.           *)
(***************************************************************************)
ASSUME RefusedThoughGenuine ==
    \A g \in MCGenuine :
        ~Valid(g) <=> \/ "MicrosoftEdge" \in g.brands
                      \/ g = Silent(PadAgent)
                      \/ g.platform = "Android" /\ g.mobile = "?0"

Firefox == Silent(Mozilla({"windows"}, {"firefox"}, {"Firefox"}))

AddressSlice ==
    {Firefox @@ [host |-> h, path |-> p, source |-> s, cookies |-> c] :
        h \in MCHosts,
        p \in {<<"/">>, Admin, <<"/admin", "er">>, <<"/", "x", "y">>},
        s \in MCAddresses \cup {"noAddress"},
        c \in {<<"_gSession">>, <<"_gSession", "_gSession">>,
               <<"lang", "_gSession", "cart", "_gSession">>}}

MCRequests == HeaderSlice \cup AddressSlice

(***************************************************************************)
(* The upstream plugin, no longer registered, answers what coraza answers  *)
(* when the limiter allows.                                                *)
(***************************************************************************)
ASSUME SameAsUpstreamPlugin ==
    \A list \in UpTo(MCSettings, 3), q \in {r \in AddressSlice : Len(r.cookies) = 1} :
        UpstreamValidate(list, q.host, q.path, q.source) <=>
            LET last == findMatchingUpstream(list, q.host)
            IN  last # 0 /\ Admits(list[last], q.path, q.source)

(***************************************************************************)
(* The cases of browser_test.go.                                           *)
(***************************************************************************)
Classified(words, products, type, platform) ==
    LET b == ParseUserAgentHeader(Mozilla(words, products, {}))
    IN  b.type = type /\ b.platform = platform

ASSUME TestClassification ==
    /\ Classified({"windows"}, {"firefox"}, "Firefox", "Windows")
    /\ Classified({"windows"}, {"chrome", "safari"}, "Chrome", "Windows")
    /\ Classified({"ipad"}, {"safari"}, "Safari", "iOS")
    /\ Classified({"macintosh"}, {"firefox"}, "Firefox", "macOS")
    /\ Classified({"x11", "cros"}, {"chrome", "safari"}, "Chrome", "Chrome OS")
    /\ Classified({"iphone"}, {"safari"}, "Safari", "iOS")
    /\ Classified({"linux", "android"}, {"chrome", "safari"}, "Chrome", "Android")
    /\ Classified({"windows"}, {}, "Unknown", "Windows")
    /\ Classified({"x11", "linux"}, {"firefox"}, "Firefox", "Linux")
    /\ Classified({"x11", "linux"}, {"chrome", "safari", "opr"}, "Opera", "Linux")

PadChrome == Asked(PadAgent, {"Chromium", "GoogleChrome"}, "iOS", "?1")

ASSUME TestFirefox == Valid(Silent(Mozilla({"macintosh"}, {"firefox"}, {"Firefox"})))
ASSUME TestChrome == Valid(PadChrome)
ASSUME TestFaultyChrome == ~Valid([PadChrome EXCEPT !.dpr = ""])
=============================================================================
