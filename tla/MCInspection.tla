---------------------------- MODULE MCInspection ----------------------------
EXTENDS Inspection

Rule(n, l, p) == [phase |-> n, level |-> l, part |-> p]

(* Rules of the level the rule set starts with, of the default level and of one
   above it. *)
MCRules == {Rule(1, 1, "header"), Rule(1, 2, "header"), Rule(1, 1, "uri"),
            Rule(2, 2, "uri"), Rule(2, 3, "body"), Rule(3, 1, "header"),
            Rule(4, 2, "body")}

MCUpstreams == [hostname : {"a", "b"}, disableCoraza : BOOLEAN,
                ignoreRules : {{}, {Rule(2, 2, "uri")}},
                inspectResponses : BOOLEAN]

MCOne == {<<u>> : u \in MCUpstreams}

MCTwo == {<<u, v>> : u, v \in MCUpstreams}

(* Pages without a head, with one that is not closed, and with one whose text
   keeps, gains or loses bytes in lower case, little or more than the page has
   left. *)
MCHead(pieces) == <<"head">> \o pieces \o <<"endHead", "text">>

MCBodies == {<<>>, <<"text">>, <<"head", "text">>, <<"endHead", "head", "latin">>,
             MCHead(<<"text">>), MCHead(<<"latin">>), MCHead(<<"latin", "kelvin">>),
             <<"head", "latin", "latin", "latin", "latin", "latin", "endHead">>}

MCResponses == {[code |-> 200, html |-> TRUE, length |-> TRUE, body |-> b] : b \in MCBodies}
               \cup {[code |-> 404, html |-> FALSE, length |-> FALSE, body |-> MCHead(<<"text">>)]}
=============================================================================
