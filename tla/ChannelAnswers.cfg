\* One question, a channel of one group, two scopes of the asker, one row withdrawn.
SPECIFICATION FairSpec
CONSTANTS
    pub = pub
    hr = hr
    ops = ops
    p = p
    q = q
    f = f
    g = g
    asks = asks
    other = other
    Pages = {p, q}
    Claims = {f, g}
    Layers = {pub, hr, ops}
    Public = pub
    Unrestricted = Unrestricted
    Rows <- MCRows
    Snippets <- MCSnippets
    Queries = {asks, other}
    Question = asks
    Hits <- MCHits
    ChannelScopes <- MCChannelScopes
    AskerScopes <- MCAskerScopes
    MaxTools = 1
    MaxWithdrawn = 1
INVARIANTS NothingBeyondScope 
PROPERTIES AskerIsTold
