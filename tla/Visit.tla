-------------------------------- MODULE Visit --------------------------------
(***************************************************************************)
(* A visitor and the proxy over days: the tabs of one browser, its cookie  *)
(* jar, and the keys the proxy keeps in valkey.  A tab without a cookie is *)
(* given the page of pkg/hook, which counts down, sets the cookie and      *)
(* loads the address again.                                                *)
(*                                                                         *)
(* The cookie is set without a path attribute, so it belongs to the folder *)
(* of the page that set it; it lives for max-age from then on.  Its key    *)
(* has no expiry until the first Allow and is renewed by each.  A request  *)
(* is answered in one step (HandleProxy has the steps).                    *)
(***************************************************************************)
EXTENDS Naturals, FiniteSets

CONSTANTS Tabs,
          Cookies, NoCookie,
          Day,         \* 86400 s: max-age in hook.go:10, EXPIRE in tbl.go:146
          Engine,      \* "firefox" or "chromium"
          CookieName,  \* COOKIE_NAME
          MaxFlushes   \* bound: how often valkey restarts empty

ASSUME VisitAssumption == /\ Day \in Nat \ {0}
                          /\ MaxFlushes \in Nat
                          /\ NoCookie \notin Cookies

Folders == {"root", "deep"}   \* deep is below root

VARIABLES jar, left,      \* of a folder: its cookie; what is left of max-age
          known, expiry,  \* the keys; what is left of their life, 0 for ever
          lost,           \* history: cookies whose keys a restart took
          flushes,
          tab,            \* what a tab shows, or "pending"
          folder,         \* of the address it shows
          carried         \* the cookie its request carries or its page will set

browser == <<jar, left>>
store   == <<known, expiry, lost, flushes>>
tabs    == <<tab, folder, carried>>
vars    == <<browser, store, tabs>>

\* The name in the script is a constant; the proxy looks for CookieName.
HookCookieName == "_gSession"

Plugin == INSTANCE Browser

\* What a genuine browser sends.  A Chromium keeps version and pixel ratio to
\* itself until a response with Accept-CH asks for them: only RenderLogin sends
\* that header, and nothing calls it.
Headers ==
    IF Engine = "firefox"
    THEN [agent |-> [form |-> "mozilla", words |-> {"windows"},
                     products |-> {"firefox"}, mentions |-> {"Firefox"}],
          hint |-> "", brands |-> {}, version |-> "", platform |-> "",
          mobile |-> "", dpr |-> ""]
    ELSE [agent |-> [form |-> "mozilla", words |-> {"windows"},
                     products |-> {"chrome", "safari"}, mentions |-> {"Safari"}],
          hint |-> "brands", brands |-> {"Chromium", "GoogleChrome"},
          version |-> "", platform |-> "Windows", mobile |-> "?0", dpr |-> ""]

BrowserAccepts == Plugin!Valid(Headers)

Init == /\ jar = [f \in Folders |-> NoCookie]
        /\ left = [f \in Folders |-> 0]
        /\ known = {}
        /\ expiry = [c \in Cookies |-> 0]
        /\ lost = {}
        /\ flushes = 0
        /\ tab = [t \in Tabs |-> "blank"]
        /\ folder = [t \in Tabs |-> "root"]
        /\ carried = [t \in Tabs |-> NoCookie]
-----------------------------------------------------------------------------
Show(t, s) == tab' = [tab EXCEPT ![t] = s]

\* The cookie GetCookie finds: browsers send that of the deeper folder first.
Sent(f, j) == IF CookieName # HookCookieName THEN NoCookie
              ELSE IF f = "deep" /\ j["deep"] # NoCookie THEN j["deep"]
              ELSE j["root"]

\* The visitor opens or reloads an address, whatever the tab shows.
Open(t) == /\ tab[t] # "pending"
           /\ Show(t, "pending")
           /\ \E f \in Folders :
                 /\ folder' = [folder EXCEPT ![t] = f]
                 /\ carried' = [carried EXCEPT ![t] = Sent(f, jar)]
           /\ UNCHANGED <<browser, store>>

\* Mutant: a cookie without a max-age, which stays.
CountdownSession(t) ==
    /\ tab[t] = "counting"
    /\ jar' = [jar EXCEPT ![folder[t]] = carried[t]]
    /\ left' = [left EXCEPT ![folder[t]] = 0]
    /\ Show(t, "pending")
    /\ carried' = [carried EXCEPT ![t] = Sent(folder[t], jar')]
    /\ UNCHANGED <<store, folder>>

\* The countdown ends: document.cookie, then document.location.
Countdown(t) ==
    /\ tab[t] = "counting"
    /\ jar' = [jar EXCEPT ![folder[t]] = carried[t]]
    /\ left' = [left EXCEPT ![folder[t]] = Day]
    /\ Show(t, "pending")
    /\ carried' = [carried EXCEPT ![t] = Sent(folder[t], jar')]
    /\ UNCHANGED <<store, folder>>
-----------------------------------------------------------------------------
Held == ({jar[f] : f \in Folders} \cup {carried[t] : t \in Tabs}) \ {NoCookie}

\* Mutant: a new cookie's key expires as well.
CreateCookieExpiring(c) == /\ known' = known \cup {c}
                           /\ expiry' = [expiry EXCEPT ![c] = Day]

CreateCookie(c) == /\ known' = known \cup {c}
                   /\ expiry' = [expiry EXCEPT ![c] = 0]

\* Mutant: what is left is extended by another day.
RenewFromLeft(c) == expiry' = [expiry EXCEPT ![c] = @ + Day]

Renew(c) == expiry' = [expiry EXCEPT ![c] = Day]

\* No cookie: a new one, that is one that nobody holds any more.
Give(t) == /\ tab[t] = "pending"
           /\ carried[t] = NoCookie
           /\ \E c \in Cookies \ Held :
                 /\ CreateCookie(c)
                 /\ lost' = lost \ {c}
                 /\ carried' = [carried EXCEPT ![t] = c]
           /\ Show(t, "counting")
           /\ UNCHANGED <<browser, flushes, folder>>

\* A cookie that valkey does not know: 403, and the cookie stays in the jar.
Unknown(t) == /\ tab[t] = "pending"
              /\ carried[t] \in Cookies \ known
              /\ Show(t, "forbidden")
              /\ UNCHANGED <<browser, store, folder, carried>>

Serve(t) == /\ tab[t] = "pending"
            /\ carried[t] \in known
            /\ BrowserAccepts
            /\ Renew(carried[t])
            /\ Show(t, "served")
            /\ UNCHANGED <<browser, known, lost, flushes, folder, carried>>

\* The browser plugin, the limiter or a rule refuses; Allow may have run.
Refuse(t) == /\ tab[t] = "pending"
             /\ carried[t] \in known
             /\ Renew(carried[t]) \/ UNCHANGED expiry
             /\ Show(t, "forbidden")
             /\ UNCHANGED <<browser, known, lost, flushes, folder, carried>>

\* Valkey or the upstream fails; Allow may have run.  A cookie created for an
\* answer that is not sent stays unused.
Fail(t) == /\ tab[t] = "pending"
           /\ \/ carried[t] \in known /\ Renew(carried[t])
              \/ UNCHANGED expiry
           /\ Show(t, "error")
           /\ UNCHANGED <<browser, known, lost, flushes, folder, carried>>

Answer(t) == Give(t) \/ Unknown(t) \/ Serve(t) \/ Refuse(t) \/ Fail(t)

\* Time passes for the cookies of the jar and for the keys of valkey alike.
Tick == /\ \/ \E f \in Folders : left[f] > 0
           \/ \E c \in Cookies : expiry[c] > 0
        /\ jar' = [f \in Folders |-> IF left[f] = 1 THEN NoCookie ELSE jar[f]]
        /\ left' = [f \in Folders |-> IF left[f] = 0 THEN 0 ELSE left[f] - 1]
        /\ known' = known \ {c \in Cookies : expiry[c] = 1}
        /\ expiry' = [c \in Cookies |-> IF expiry[c] = 0 THEN 0 ELSE expiry[c] - 1]
        /\ UNCHANGED <<lost, flushes, tabs>>

\* Valkey restarts without its data.
Flush == /\ flushes < MaxFlushes
         /\ flushes' = flushes + 1
         /\ known' = {}
         /\ expiry' = [c \in Cookies |-> 0]
         /\ lost' = lost \cup known
         /\ UNCHANGED <<browser, tabs>>

Next == \/ \E t \in Tabs : Open(t) \/ Countdown(t) \/ Answer(t)
        \/ Tick \/ Flush

Spec == Init /\ [][Next]_vars

(***************************************************************************)
(* Requests are answered (HandleProxy); neither failures nor refusals go   *)
(* on for ever (a bucket serves who backs off: ValkeyBucket); the visitor  *)
(* keeps coming back and lets a countdown end once in a while.             *)
(***************************************************************************)
FairSpec == /\ Spec
            /\ WF_vars(Tick)
            /\ \A t \in Tabs : /\ WF_vars(Open(t)) /\ WF_vars(Answer(t))
                               /\ SF_vars(Countdown(t))
                               /\ SF_vars(Give(t)) /\ SF_vars(Serve(t))
-----------------------------------------------------------------------------
TabStates == {"blank", "pending", "counting", "served", "forbidden", "error"}

\* Every variable keeps its type.
TypeOK == /\ jar \in [Folders -> Cookies \cup {NoCookie}]
          /\ left \in [Folders -> 0..Day]
          /\ known \subseteq Cookies
          /\ lost \subseteq Cookies
          /\ expiry \in [Cookies -> 0..Day]
          /\ flushes \in 0..MaxFlushes
          /\ tab \in [Tabs -> TabStates]
          /\ folder \in [Tabs -> Folders]
          /\ carried \in [Tabs -> Cookies \cup {NoCookie}]

\* A cookie that a browser still keeps is known to the proxy, so that nobody is
\* refused for an expired key who need not be: max-age, counted from the page,
\* never outlives the key, renewed by Allow.  Only a restart of valkey can.
KnownWhileHeld ==
    \A f \in Folders : jar[f] # NoCookie => jar[f] \in known \cup lost

\* "Once you're verified, we'll redirect you to" (hook.go:69): a visitor who
\* keeps coming back is served again and again, also after valkey restarted
\* and the cookies in the jar have become worthless.
VisitorServed == \A t \in Tabs : []<>(tab[t] = "served")
=============================================================================
