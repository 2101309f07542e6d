------------------------- MODULE MCChannelAnswers -------------------------
EXTENDS ChannelAnswers, TLC

CONSTANTS pub, hr, ops, p, q, f, g, asks, other

MCRow(page, layer, part, claim) == [page |-> page, layer |-> layer, part |-> part, claim |-> claim]

\* p: a public head and a restricted continuation; q: another restricted page that
\* states what p's head states, shown by a search's match.
MCRows == {MCRow(p, pub, "head", f), MCRow(p, hr, "tail", g), MCRow(q, ops, "head", f)}
MCSnippets == {MCRow(q, ops, "head", f)}
MCHits == (asks :> {p, q}) @@ (other :> {q})
MCChannelScopes == {{hr}}
MCAskerScopes == {{ops}, Unrestricted}

============================================================================
