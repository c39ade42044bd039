-------------------------------- MODULE Access --------------------------------
(***************************************************************************)
(* Which requests an upstream admits: neither below one of its blocked     *)
(* paths nor, if it lists networks, from outside them.  coraza checks it   *)
(* and, line by line the same, the upstream plugin it took over from.  A   *)
(* path is a sequence of pieces of text, so that one can begin another; a  *)
(* name or an address that does not parse is simply none of the known.     *)
(***************************************************************************)
EXTENDS Naturals, Sequences, SequencesExt

CONSTANTS Addresses,   \* the client addresses that parse
          Network      \* of a network that parses: the addresses in it

ASSUME AccessAssumption == \A n \in DOMAIN Network : Network[n] \subseteq Addresses

Blocked(u, path) == \E b \in DOMAIN u.blockedPaths : IsPrefix(u.blockedPaths[b], path)

\* The networks are parsed in turn until one holds the address; the first that
\* does not parse ends the search with a refusal.
SourceAllowed(u, source) ==
    LET nets == u.allowedSources
    IN  \/ nets = <<>>
        \/ \E n \in DOMAIN nets :
              /\ \A m \in 1..(n - 1) : nets[m] \in DOMAIN Network
              /\ nets[n] \in DOMAIN Network
              /\ source \in Network[nets[n]]

Admits(u, path, source) == /\ ~Blocked(u, path)
                           /\ source \in Addresses
                           /\ SourceAllowed(u, source)
-----------------------------------------------------------------------------
(***************************************************************************)
(* The upstream plugin's own Validate, as the loops it consists of.        *)
(***************************************************************************)
\* The index of the last upstream of the name, or 0.
findMatchingUpstream(list, host) ==
    LET found[n \in 0..Len(list)] ==
            IF n = 0 THEN 0 ELSE IF list[n].hostname = host THEN n ELSE found[n - 1]
    IN  found[Len(list)]

pathCheck(paths, path) ==
    LET result[n \in 0..Len(paths)] ==
            IF n = 0 THEN "open"
            ELSE IF result[n - 1] = "open" /\ IsPrefix(paths[n], path) THEN "blocked"
            ELSE result[n - 1]
    IN  result[Len(paths)]

sourceCheck(nets, source) ==
    LET result[n \in 0..Len(nets)] ==
            IF n = 0 THEN IF nets = <<>> THEN "allowed" ELSE "searching"
            ELSE IF result[n - 1] # "searching" THEN result[n - 1]
            ELSE IF nets[n] \notin DOMAIN Network THEN "unparsable"
            ELSE IF source \in Network[nets[n]] THEN "allowed"
            ELSE "searching"
    IN  result[Len(nets)]

UpstreamValidate(list, host, path, source) ==
    LET i == findMatchingUpstream(list, host)
    IN  /\ i # 0
        /\ pathCheck(list[i].blockedPaths, path) = "open"
        /\ source \in Addresses
        /\ sourceCheck(list[i].allowedSources, source) = "allowed"
=============================================================================
