------------------------------- MODULE Browser -------------------------------
(***************************************************************************)
(* The browser plugin: does the user agent of a request agree with the     *)
(* client hints that come with it?  A request is a record of               *)
(*   agent    [form, words, products, mentions], see below                 *)
(*   brands   of Sec-CH-UA, those that have a version                      *)
(*   hint, version, platform, mobile, dpr                                  *)
(*            Sec-CH-UA, -Full-Version, -Platform, -Mobile and Sec-CH-DPR; *)
(*            "" when the header is not there                              *)
(* and of its agent the plugin tells apart                                 *)
(*   form      "empty", "foreign" or "mozilla": the regular expression     *)
(*   words     of the first parentheses that searchPlatformSnippets knows  *)
(*   products  of the extensions, in lower case, that searchExtensions     *)
(*             knows                                                       *)
(*   mentions  names that DetermineType finds anywhere in the text         *)
(* Model and bitness are parsed and never looked at.                       *)
(***************************************************************************)
EXTENDS Naturals, Sequences

\* A switch over "seen" flags: the first row that was seen, else a default.
FirstSeen(rows, seen, default) ==
    LET hits == {i \in DOMAIN rows : rows[i][1] \cap seen # {}}
    IN  IF hits = {} THEN default
        ELSE rows[CHOOSE i \in hits : \A j \in hits : i <= j][2]

platformTable == << <<{"android"}, "Android">>, <<{"cros"}, "Chrome OS">>,
                    <<{"windows"}, "Windows">>, <<{"macintosh"}, "macOS">>,
                    <<{"linux", "x11"}, "Linux">>,
                    <<{"ipad", "ipod", "iphone"}, "iOS">> >>

extensionTable == << <<{"firefox"}, "Firefox">>, <<{"edge"}, "Edge">>,
                     <<{"opr"}, "Opera">>,
                     <<{"chromium", "chrome", "crios"}, "Chrome">>,
                     <<{"safari"}, "Safari">> >>

brandTable == << <<{"MicrosoftEdge"}, "Edge">>, <<{"GoogleChrome"}, "Chrome">>,
                 <<{"Opera"}, "Opera">>, <<{"Chromium"}, "Chrome">> >>

mentionTable == << <<{"Firefox"}, "Firefox">>, <<{"CriOS"}, "Chrome">>,
                   <<{"Safari"}, "Safari">> >>

parseHeader(h) == IF h = "" THEN "Unknown" ELSE h

\* ParseUserAgentHeader, for an agent of the form "mozilla".
ParseUserAgentHeader(agent) ==
    LET platform == FirstSeen(platformTable, agent.words, "Unknown")
    IN  [type     |-> FirstSeen(extensionTable, agent.products, "Unknown"),
         platform |-> platform,
         mobile   |-> platform \in {"Android", "iOS"}]

\* DetermineType: the brands first, and only without them the user agent.
DetermineType(q) ==
    FirstSeen(brandTable, q.brands,
              FirstSeen(mentionTable, q.agent.mentions, "Unknown"))

\* NewBrowser fails on a mobile hint it does not know and on a pixel ratio that
\* is not a number.
Parsable(q) == q.mobile \in {"", "?0", "?1"} /\ q.dpr # "text"

NewBrowser(q) == [agent    |-> q.agent,
                  hint     |-> parseHeader(q.hint),
                  type     |-> DetermineType(q),
                  mobile   |-> q.mobile = "?1",
                  platform |-> parseHeader(q.platform),
                  version  |-> parseHeader(q.version),
                  dpr      |-> IF parseHeader(q.dpr) = "Unknown" THEN "0" ELSE q.dpr]

HintsGiven(b) == "Unknown" \notin {b.platform, b.hint, b.version} /\ b.dpr # "0"


ComplianceCheck(b) ==
    /\ b.agent.form = "mozilla"
    /\ b.type # "Unknown"
    /\ LET same == ParseUserAgentHeader(b.agent)
       IN  \/ b.type \in {"Firefox", "Safari"} /\ same.type = b.type
           \/ /\ b.type \notin {"Firefox", "Safari"}
              /\ HintsGiven(b)
              /\ same.mobile = b.mobile
              /\ same.platform = b.platform
              /\ same.type = b.type

Valid(q) == Parsable(q) /\ ComplianceCheck(NewBrowser(q))
=============================================================================
