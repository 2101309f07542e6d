----------------------------- MODULE IndexRows -----------------------------
(***************************************************************************)
(* The rows of the index as they are stored, what a full rebuild and what  *)
(* an applied push make of them (index/corpus.py, index/store.py and the   *)
(* end of process_push in server/webhook.py), and the measures of the      *)
(* graph that are taken from them for each scope (index/measures.py).      *)
(*                                                                         *)
(* A push replaces the rows of the pages it changed; where their links     *)
(* lead, and how many lead to a page, depends on every other row.  Bodies  *)
(* are the names they link; fragments, vectors, citations and facts are    *)
(* left out.                                                               *)
(***************************************************************************)
EXTENDS PageReading

CONSTANTS
    Hubs,           \* how many hubs the measures name
    Neighbours      \* how many neighbours of a hub they draw

ASSUME IndexRowsAssumption == {Hubs, Neighbours} \subseteq Nat

\* A stored row: the page, the names its body links, where they lead, and how many
\* virtual paths lead to it.
Stored(p, links, inlinks) == [page |-> p, links |-> links, inlinks |-> inlinks]

Inbound(S, v) == {Path(s.page) : s \in {t \in S : v \in t.links}}

\* The rows of a whole tree.
Rebuilt(T) ==
    LET rows == {Stored(p, Reach(T, p), 0) : p \in T} IN
    {[s EXCEPT !.inlinks = Cardinality(Inbound(rows, Path(s.page)))] : s \in rows}

-----------------------------------------------------------------------------
(* A push.                                                                 *)

\* The paths it removed, and the pages it added or changed.
Removed(T, U) == {Where(p) : p \in T} \ {Where(p) : p \in U}
Written(T, U) == U \ T

Without(S, gone) == {s \in S : Where(s.page) \notin gone}
Held(S) == {s.page : s \in S}

\* SLIP of Refreshed: the links of the other rows stay as they are.
RefreshedNot(S) == S

\* Every row's links are resolved again in the rows as they are now, and counted.
Refreshed(S) == Rebuilt(Held(S))

\* Where the links of a page it writes lead, in the rows there will be.
Outbound(S, pages, p) == Reach(Held(S) \union pages, p)

\* An upsert keeps the count of a row that was there.
Upserted(S, pages) ==
    LET others == Without(S, {Where(p) : p \in pages})
        was(p) == {s.inlinks : s \in {t \in S : Where(t.page) = Where(p)}} IN
    others \union {Stored(p, Outbound(others, pages, p),
                          IF was(p) = {} THEN 0 ELSE Max(was(p))) : p \in pages}

Applied(S, T, U) == Refreshed(Upserted(Without(S, Removed(T, U)), Written(T, U)))

-----------------------------------------------------------------------------
(* Measures.                                                               *)

Brain == -1
Scopes(S) == {Brain, Public} \union {s.page.layer : s \in S}

\* SLIP of InScope: a layer's measures are of its own rows.
OwnRows(S, scope) == {s \in S : scope \in {Brain, s.page.layer}}

InScope(S, scope) == {s \in S : scope = Brain \/ s.page.layer \in {Public, scope}}

\* The fused pages of a scope, and the names in them that lead nowhere or to two
\* pages in their own row's scope.
MeasuredPages(S, scope) ==
    LET V == InScope(S, scope)
        of(v) == {s \in V : Path(s.page) = v}
        dead(s) == {n \in s.page.links : Cardinality(Named(Held(S), s.page, n)) # 1} IN
    {[path |-> v,
      layers |-> {s.page.layer : s \in of(v)},
      aliases |-> UNION {s.page.aliases : s \in of(v)},
      links |-> UNION {s.links : s \in of(v)},
      stems |-> UNION {dead(s) : s \in of(v)}] : v \in {Path(s.page) : s \in V}}

InboundOf(P, v) == {q.path : q \in {p \in P : p.path # v /\ v \in p.links}}
OutboundOf(P, v) == UNION {p.links : p \in {q \in P : q.path = v}} \intersect {p.path : p \in P}
Orphans(P) == {p.path : p \in {q \in P : q.path[1] = "entity" /\ InboundOf(P, q.path) = {}}}
HubsOf(P) ==
    Ranked({p.path : p \in {q \in P : InboundOf(P, q.path) # {}}},
           LAMBDA v : Cardinality(InboundOf(P, v)), Hubs)

\* The hubs, the most linked neighbours of each, and the orphans, with their links.
Constellation(P) ==
    LET near(v) == ToSet(Ranked((InboundOf(P, v) \union OutboundOf(P, v)) \ {v},
                                LAMBDA w : Cardinality(InboundOf(P, w)), Neighbours))
        nodes == Orphans(P) \union UNION {{v} \union near(v) : v \in ToSet(HubsOf(P))} IN
    [nodes |-> nodes,
     edges |-> {{v, w} : <<v, w>> \in {vw \in nodes \X nodes :
                                         vw[1] # vw[2] /\ vw[2] \in OutboundOf(P, vw[1])}}]

Measures(S, scope) ==
    LET P == MeasuredPages(S, scope) IN
    [pages |-> Cardinality(P),
     links |-> [v \in {p.path : p \in P} |-> Cardinality(InboundOf(P, v))],
     dead |-> MapThenSumSet(LAMBDA p : Cardinality(p.stems), P),
     orphans |-> Orphans(P),
     unaliased |-> {p.path : p \in {q \in P : q.path[1] = "entity" /\ q.aliases = {}}},
     hubs |-> HubsOf(P),
     sky |-> Constellation(P)]
=============================================================================
