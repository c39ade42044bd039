------------------------------- MODULE Startup -------------------------------
(***************************************************************************)
(* main up to ListenAndServe: the plugins are initialised one by one, in   *)
(* the random order of a Go map (IGNORE_PLUGINS keeps none of them out);   *)
(* coraza finds its folder, reads the upstreams, makes one limiter for     *)
(* each and composes its directives.  Then the modifiers are initialised.  *)
(* Every step can fail; the first failure ends main.                       *)
(***************************************************************************)
EXTENDS Naturals, Sequences

CONSTANTS Hosts, Rules, None,
          Settings,      \* what an upstream can be configured to be: records
                         \* with a hostname, rules for its limiter and more
          MaxUpstreams   \* bound on the configuration

ASSUME StartupAssumption ==
    /\ MaxUpstreams \in Nat
    /\ \A u \in Settings : u.hostname \in Hosts /\ u.rules \in Rules

Plugins == {"scriptinjector", "coraza", "browser"}
UpTo(S, n) == UNION {[1..k -> S] : k \in 0..n}

VARIABLES upstreams,       \* of conf/upstreams.yaml
          pc,
          todo,            \* the plugins the loop has not come to
          pluginMap,       \* those initialised
          index,           \* of the next upstream without a limiter
          tokenBucketMap   \* of a host: the rules of its limiter, or None

startVars == <<upstreams, pc, todo, pluginMap, index, tokenBucketMap>>

StartInit == /\ upstreams \in UpTo(Settings, MaxUpstreams)
             /\ pc = "main"
             /\ todo = Plugins
             /\ pluginMap = {}
             /\ index = 1
             /\ tokenBucketMap = [h \in Hosts |-> None]

\* env.Parse panics in main; every other failure is logged and ends main.
Fail == /\ pc \in {"main", "plugins", "configuration", "limiters", "modifiers"}
        /\ pc' = "stopped"
        /\ UNCHANGED <<upstreams, todo, pluginMap, index, tokenBucketMap>>

ParseEnvironment == /\ pc = "main"
                    /\ pc' = "plugins"
                    /\ UNCHANGED <<upstreams, todo, pluginMap, index, tokenBucketMap>>

\* The loop looks the name up in IGNORE_PLUGINS; break ends the lookup, and the
\* plugin is initialised all the same.
InitPlugin(p) == /\ pc = "plugins"
                 /\ p \in todo \ {"coraza"}
                 /\ todo' = todo \ {p}
                 /\ pluginMap' = pluginMap \cup {p}
                 /\ UNCHANGED <<upstreams, pc, index, tokenBucketMap>>

\* coraza.New parses the environment once more.
NewWAF == /\ pc = "plugins"
          /\ "coraza" \in todo
          /\ pc' = "configuration"
          /\ UNCHANGED <<upstreams, todo, pluginMap, index, tokenBucketMap>>

\* The folder of conf is worked out from the working directory, and the
\* upstreams are read: found there, or Fail.
determineRootFolder == /\ pc = "configuration"
                       /\ pc' = "limiters"
                       /\ UNCHANGED <<upstreams, todo, pluginMap, index, tokenBucketMap>>

\* Mutant: a host keeps the limiter it was given first.
NewLimiterKeepsFirst ==
    /\ pc = "limiters"
    /\ index <= Len(upstreams)
    /\ LET u == upstreams[index] IN
          tokenBucketMap' = [tokenBucketMap EXCEPT ![u.hostname] =
                                IF @ = None THEN u.rules ELSE @]
    /\ index' = index + 1
    /\ UNCHANGED <<upstreams, pc, todo, pluginMap>>

\* createTokenBucketMap: each NewLimiter also connects to valkey.
NewLimiter ==
    /\ pc = "limiters"
    /\ index <= Len(upstreams)
    /\ LET u == upstreams[index] IN
          tokenBucketMap' = [tokenBucketMap EXCEPT ![u.hostname] = u.rules]
    /\ index' = index + 1
    /\ UNCHANGED <<upstreams, pc, todo, pluginMap>>

BuildCoraza == /\ pc = "limiters"
               /\ index > Len(upstreams)
               /\ todo' = todo \ {"coraza"}
               /\ pluginMap' = pluginMap \cup {"coraza"}
               /\ pc' = "plugins"
               /\ UNCHANGED <<upstreams, index, tokenBucketMap>>

PluginsReady == /\ pc = "plugins"
                /\ todo = {}
                /\ pc' = "modifiers"
                /\ UNCHANGED <<upstreams, todo, pluginMap, index, tokenBucketMap>>

\* The map of modifiers is empty, but the environment is parsed once more; with
\* the function of no modifiers the proxy listens.
ModifyFunc == /\ pc = "modifiers"
              /\ pc' = "serving"
              /\ UNCHANGED <<upstreams, todo, pluginMap, index, tokenBucketMap>>

StartNext == \/ ParseEnvironment \/ NewWAF \/ determineRootFolder \/ NewLimiter
             \/ BuildCoraza \/ PluginsReady \/ ModifyFunc \/ Fail
             \/ \E p \in Plugins : InitPlugin(p)
-----------------------------------------------------------------------------
\* The upstream a request to the host is checked against and forwarded to: the
\* loop has no break, so the last one of the name; none has index 0.
FindMatchingUpstream(h) ==
    LET named == {i \in DOMAIN upstreams : upstreams[i].hostname = h}
    IN  IF named = {} THEN 0 ELSE CHOOSE i \in named : \A j \in named : i >= j

\* handleProxy takes coraza and the limiter of the host from the two maps and
\* uses them unchecked: once the proxy serves, coraza is there, and a host has a
\* limiter exactly when it has an upstream, made of that upstream's own rules,
\* also when a host is named more than once.
LimiterOfUpstream ==
    pc = "serving" =>
        /\ "coraza" \in pluginMap
        /\ \A h \in Hosts :
              LET i == FindMatchingUpstream(h)
              IN  tokenBucketMap[h] = IF i = 0 THEN None ELSE upstreams[i].rules
=============================================================================
