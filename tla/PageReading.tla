---------------------------- MODULE PageReading ----------------------------
(***************************************************************************)
(* What a reader gets from the index of the pages: the fused page, the     *)
(* entity a name finds, the graph, the neighbours that extend a search and *)
(* the ranking of its hits (index/search.py, index/rank.py,                *)
(* kernel/layers.py and the read operations of server/service.py).  Every  *)
(* statement filters its rows by the reader's audiences before it groups,  *)
(* counts or limits them.                                                  *)
(*                                                                         *)
(* A row is a page with its links resolved.  The words of a query are the  *)
(* names in it, and a page matches a word in its title; the nearest pages  *)
(* of the vector arm are external, and stand in the order of their paths.  *)
(* A score is an integer: the parts of 1 / (RRF_K + position) and of the   *)
(* damping of a degree that its order rests on.                            *)
(***************************************************************************)
EXTENDS EntityPages, SequencesExt

CONSTANTS
    RrfK,           \* what a position is added to (60)
    Unit,           \* the weight of an arm; the graph's is a quarter of it
    Pool,           \* how many pages an arm returns
    Fanout,         \* how many neighbours a seed has in each direction
    Seeds,          \* how many hits the graph starts from
    Hits            \* how many hits a search returns

ASSUME PageReadingAssumption == {RrfK, Unit, Pool, Fanout, Seeds, Hits} \subseteq Nat

-----------------------------------------------------------------------------
(* Rows, and which of them a reader may see.                               *)

Row(T, p) == [layer |-> p.layer, path |-> Path(p), kind |-> p.kind, aliases |-> p.aliases,
              links |-> Reach(T, p), day |-> p.day]

Rows(T) == {Row(T, p) : p \in T}

Visible(R, aud) == {r \in R : r.layer = Public \/ r.layer \in aud}

\* The order of paths: wiki/entities before wiki/notes.
Before(v, w) == IF v[1] = w[1] THEN v[2] < w[2] ELSE v[1] = "entity"

\* Virtual paths by a key, larger first, then by path; at most n of them.
Ranked(S, Key(_), n) ==
    LET order(v, w) == Key(v) > Key(w) \/ (Key(v) = Key(w) /\ Before(v, w))
        all == SetToSortSeq(S, order) IN
    SubSeq(all, 1, Min({n, Len(all)}))

Paths(R) == {r.path : r \in R}
OfPath(R, v) == {r \in R : r.path = v}

Linked(R, v) == UNION {r.links : r \in OfPath(R, v)}
Newest(R, v) == Max({r.day : r \in OfPath(R, v)})

\* One record of the rows of a path: `public`'s fields first, the union of the rest.
Fuse(rows, v) ==
    LET told == {r.layer : r \in {s \in rows : s.kind # "none"}} IN
    [path |-> v,
     layers |-> {r.layer : r \in rows},
     kind |-> IF told = {} THEN "none" ELSE (CHOOSE r \in rows : r.layer = Min(told)).kind,
     aliases |-> UNION {r.aliases : r \in rows},
     links |-> UNION {r.links : r \in rows},
     day |-> Max({r.day : r \in rows})]

\* The records of the paths that the reader sees, and no others.
FusedPages(R, aud, paths) ==
    {Fuse(OfPath(Visible(R, aud), v), v) : v \in paths \intersect Paths(Visible(R, aud))}

-----------------------------------------------------------------------------
(* Names.                                                                  *)

EntityRows(R, aud) ==
    FusedPages(R, aud, {v \in Paths(Visible(R, aud)) : v[1] = "entity"})

\* The page that answers to a name; a name that two pages answer to finds none.
Found(R, aud, n) ==
    LET named == {e.path : e \in {f \in EntityRows(R, aud) : n = f.path[2] \/ n \in f.aliases}} IN
    IF Cardinality(named) = 1 THEN named ELSE {}

\* The entities a question names, and the names they add to its words.
NamedIn(R, aud, words) == UNION {Found(R, aud, n) : n \in words}

Expansion(R, aud, hints) ==
    UNION {{e.path[2]} \union e.aliases : e \in {f \in EntityRows(R, aud) : f.path \in hints}}

-----------------------------------------------------------------------------
(* Search.                                                                 *)

FtsRanking(R, aud, words) ==
    Ranked({v \in Paths(Visible(R, aud)) : v[2] \in words}, LAMBDA v : 0, Pool)

VecRanking(R, aud) == Ranked(Paths(Visible(R, aud)), LAMBDA v : 0, Pool)

\* The pages linking every entity of the question, newest first.
IntersectionRanking(R, aud, hints) ==
    LET V == Visible(R, aud) IN
    IF Cardinality(hints) < 2 THEN <<>>
    ELSE Ranked({v \in Paths(V) : hints \subseteq Linked(V, v)}, LAMBDA v : Newest(V, v), Pool)

\* 1 / (1 + degree), in parts that keep small degrees apart.
Damped(n, degree) == (12 * n) \div (1 + degree)

Into(V, v) == {w \in Paths(V) \ {v} : v \in Linked(V, w)}
OutOf(V, v) == (Linked(V, v) \ {v}) \intersect Paths(V)

\* SLIP of Degree: it counts the pages of every layer.
DegreeOfAll(R, aud, v) == Cardinality(Into(R, v)) + Cardinality(OutOf(R, v))

\* How many neighbours the reader sees a page to have.
Degree(R, aud, v) ==
    Cardinality(Into(Visible(R, aud), v)) + Cardinality(OutOf(Visible(R, aud), v))

\* A seed's neighbours in one direction, the newest ones.
Near(V, S) == ToSet(Ranked(S, LAMBDA v : Newest(V, v), Fanout))

\* The neighbours of the seeds in both directions, each by the votes of its seeds
\* damped by their degree, and by its own.
NeighborRanking(R, aud, seeds) ==
    LET V == Visible(R, aud)
        from == {s.path : s \in ToSet(seeds)}
        score(v) == (CHOOSE s \in ToSet(seeds) : s.path = v).score
        edges(v, w) == (IF w \in Near(V, Into(V, v)) THEN 1 ELSE 0)
                        + (IF w \in Near(V, OutOf(V, v)) THEN 1 ELSE 0)
        degree(v) == MapThenSumSet(LAMBDA w : edges(v, w), Paths(V))
        vote(w) == MapThenSumSet(LAMBDA v : edges(v, w) * Damped(score(v), degree(v)), from) IN
    Ranked({w \in Paths(V) : \E v \in from : edges(v, w) > 0},
           LAMBDA w : 10 * Damped(vote(w), Degree(R, aud, w)) + Newest(V, w), Pool)

\* What an arm gives the page at a position of its ranking.
Share(ranking, weight, v) ==
    IF v \in ToSet(ranking)
    THEN weight \div (RrfK + CHOOSE i \in DOMAIN ranking : ranking[i] = v) ELSE 0

\* Half the divisor for a page about an entity of the question, and again for a
\* page about all of them.
Boosted(page, hints, score) ==
    LET about == {h \in hints : h = page.path \/ h \in page.links} IN
    score * (IF about = {} THEN 1 ELSE 2)
          * (IF Cardinality(hints) > 1 /\ about = hints THEN 2 ELSE 1)

\* rank: the candidates the reader sees, by the shares of the arms.
RankHits(R, aud, arms, hints, k) ==
    LET pages == FusedPages(R, aud, UNION {ToSet(arms[i]) : i \in DOMAIN arms})
        page(v) == CHOOSE c \in pages : c.path = v
        weight(arm) == IF arm = "graph" THEN Unit \div 4 ELSE Unit
        score(v) == Boosted(page(v), hints,
                            MapThenSumSet(LAMBDA arm : Share(arms[arm], weight(arm), v), DOMAIN arms))
        order == Ranked({c.path : c \in pages}, score, k) IN
    [i \in DOMAIN order |-> [path |-> order[i], score |-> score(order[i])]]

\* The best hits of the other arms are the seeds of the graph, which extends them.
SearchArms(R, aud, words) ==
    LET hints == NamedIn(R, aud, words)
        arms == [fts |-> FtsRanking(R, aud, words \union Expansion(R, aud, hints)),
                 vec |-> VecRanking(R, aud),
                 entity |-> IntersectionRanking(R, aud, hints),
                 graph |-> <<>>]
        seeds == RankHits(R, aud, arms, hints, Seeds) IN
    RankHits(R, aud, [arms EXCEPT !.graph = NeighborRanking(R, aud, seeds)], hints, Hits)

-----------------------------------------------------------------------------
(* Pages, the graph and the catalogue.                                     *)

\* A page, the visible pages it links and the visible pages that link it.
ReadPage(R, aud, v) ==
    {[page |-> [p EXCEPT !.links = {}], out |-> OutOf(Visible(R, aud), v), into |-> Into(Visible(R, aud), v)] :
        p \in FusedPages(R, aud, {v})}

BrowseGraph(R, aud) ==
    LET V == Visible(R, aud) IN
    [nodes |-> {<<v, {r.layer : r \in OfPath(V, v)}>> : v \in Paths(V)},
     edges |-> UNION {{<<v, w>> : w \in OutOf(V, v)} : v \in Paths(V)}]

\* The pages that link an entity, newest first, and whether there are more.
Timeline(R, aud, v, limit) ==
    LET V == Visible(R, aud)
        all == Ranked(Into(V, v), LAMBDA w : Newest(V, w), limit + 1) IN
    [items |-> SubSeq(all, 1, Min({limit, Len(all)})), more |-> Len(all) > limit]

\* Newest first, or by title; in either, paths tell apart what the key does not.
SortKey(V, sort, v) == IF sort = "recent" THEN Newest(V, v) ELSE 0 - v[2]

\* SLIP of After: the cursor is a key alone.
AfterKey(V, sort, v, cursor) == cursor.none \/ SortKey(V, sort, v) < cursor.key

After(V, sort, v, cursor) ==
    \/ cursor.none
    \/ SortKey(V, sort, v) < cursor.key
    \/ SortKey(V, sort, v) = cursor.key /\ Before(cursor.path, v)

\* One call of the catalogue: the pages after a cursor, how many there are in all,
\* and the cursor of the next call when there are more.
ListPages(R, aud, sort, cursor, size) ==
    LET V == Visible(R, aud)
        found == Ranked({v \in Paths(V) : After(V, sort, v, cursor)},
                        LAMBDA v : SortKey(V, sort, v), size + 1)
        shown == SubSeq(found, 1, Min({size, Len(found)})) IN
    [pages |-> shown,
     total |-> Cardinality(Paths(V)),
     next |-> IF Len(found) > size
              THEN {[none |-> FALSE, key |-> SortKey(V, sort, Last(shown)), path |-> Last(shown)]}
              ELSE {}]

FirstCall == [none |-> TRUE, key |-> 0, path |-> <<"entity", 0>>]
=============================================================================
