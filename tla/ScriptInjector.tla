--------------------------- MODULE ScriptInjector ---------------------------
(***************************************************************************)
(* Where the scriptinjector plugin puts its script.  A page is a sequence  *)
(* of pieces, of which the code tells apart the two tags of the head; the  *)
(* other pieces differ in what strings.ToLower makes of their length in    *)
(* bytes: "text" keeps it, "latin" is a byte that is not UTF-8 and becomes *)
(* a replacement character, "kelvin" the sign K that becomes a letter k.   *)
(***************************************************************************)
EXTENDS Naturals, FiniteSets, Sequences, SequencesExt

Size      == [text |-> 1, head |-> 6, endHead |-> 7, latin |-> 1, kelvin |-> 3]
LowerSize == [text |-> 1, head |-> 6, endHead |-> 7, latin |-> 3, kelvin |-> 1]
Pieces    == DOMAIN Size

Occurrences(html, piece) == Cardinality({i \in DOMAIN html : html[i] = piece})

Bytes(html, size) ==
    LET all(piece) == size[piece] * Occurrences(html, piece)
    IN  all("text") + all("head") + all("endHead") + all("latin") + all("kelvin")

\* What a page has before its first </head>.
BeforeEndHead(html) ==
    SubSeq(html, 1, SelectInSeq(html, LAMBDA piece : piece = "endHead") - 1)

\* strings.Index finds the tag in the lower-cased copy.
endHeadIdx(html) == Bytes(BeforeEndHead(html), LowerSize)

\* Mutant: a tag that is not found is not looked at.
injectUnchecked(html) ==
    IF "endHead" \notin ToSet(html) \/ endHeadIdx(html) > Bytes(html, Size)
    THEN "panic" ELSE "injected"

\* What becomes of a page: "error" for a head that is not closed, "intact"
\* without a head; else the original is cut at the index, which panics when it
\* has no such place.
injectScriptIntoHtml(html) ==
    CASE "endHead" \notin ToSet(html) /\ "head" \in ToSet(html)    -> "error"
      [] "endHead" \notin ToSet(html) /\ "head" \notin ToSet(html) -> "intact"
      [] "endHead" \in ToSet(html) ->
            IF endHeadIdx(html) > Bytes(html, Size) THEN "panic" ELSE "injected"
=============================================================================
