------------------------------ MODULE Library ------------------------------
(***************************************************************************)
(* The pages of a workspace, the operations on them and their readers      *)
(* together: while administrators merge, rename and delete entity pages    *)
(* (EntityPages), a reader walks the catalogue call by call with its       *)
(* cursor (PageReading), their rows are stored (IndexRows), and any text   *)
(* is cut into fragments (Fragments).  The index holds the filed pages at  *)
(* once here; how it lags is IndexConvergence's.                           *)
(***************************************************************************)
EXTENDS IndexRows, Fragments

CONSTANTS
    Texts,      \* the bodies to cut
    Walks,      \* the readers and the sorts of their walks
    CallSize,   \* how many pages a call of the catalogue returns
    Queries     \* the words of the searches that are compared

VARIABLES
    text,       \* a body being cut; no page is there then
    walk        \* the reader's walk of the catalogue

vars == <<tree, done, text, walk>>

ASSUME LibraryAssumption == \A w \in Walks : w.aud \subseteq Layers \ {Public}

Seen(T, aud) == Visible(Rows(T), aud)

\* What a walk must have shown when it ends: what has been there all along, under
\* one key.
Keyed(T, aud, sort) == {<<v, SortKey(Seen(T, aud), sort, v)>> : v \in Paths(Seen(T, aud))}

NoWalk == [open |-> FALSE, aud |-> {}, sort |-> "title", cursor |-> FirstCall, shown |-> <<>>, steady |-> {}]

Init ==
    \/ /\ PagesInit
       /\ text = <<>>
       /\ \E w \in Walks :
             walk = [NoWalk EXCEPT !.open = TRUE, !.aud = w.aud, !.sort = w.sort,
                                   !.steady = Keyed(tree, w.aud, w.sort)]
    \/ /\ text \in Texts
       /\ tree = {}
       /\ done = [op |-> "none", layers |-> {}, moved |-> {}, to |-> 0, count |-> 0]
       /\ walk = NoWalk

\* The reader asks for the next pages, in the arguments of the walk.
Call ==
    LET answer == ListPages(Rows(tree), walk.aud, walk.sort, walk.cursor, CallSize) IN
    /\ walk.open
    /\ walk' = [walk EXCEPT !.shown = @ \o answer.pages,
                            !.cursor = IF answer.next = {} THEN @ ELSE CHOOSE c \in answer.next : TRUE,
                            !.open = answer.next # {}]
    /\ UNCHANGED <<tree, done, text>>

Administer ==
    /\ Operate
    /\ walk' = [walk EXCEPT !.steady = @ \intersect Keyed(tree', walk.aud, walk.sort)]
    /\ UNCHANGED text

Next == Call \/ Administer

Spec == Init /\ [][Next]_vars

-----------------------------------------------------------------------------
(* Properties.                                                             *)

TypeOK ==
    /\ tree \subseteq Page
    /\ done.count \in 0..MaxOps
    /\ walk.open \in BOOLEAN

\* A walk shows every page that was there all along once and no page twice, however
\* the catalogue changes between its calls ("Every visible page matching the
\* filters ... one per path", search.py:454-458).
ListedOnce ==
    /\ \A x \in walk.steady : walk.open \/ \E i \in DOMAIN walk.shown : walk.shown[i] = x[1]
    /\ \A x \in walk.steady : \A i, j \in DOMAIN walk.shown :
          walk.shown[i] = x[1] /\ walk.shown[j] = x[1] => i = j

\* What a reader is told, by every operation that reads.
Told(R, aud) ==
    <<BrowseGraph(R, aud),
      {ReadPage(R, aud, <<r, n>>) : r \in Roles, n \in Names},
      {Timeline(R, aud, <<"entity", n>>, CallSize) : n \in Names},
      {<<sort, ListPages(R, aud, sort, FirstCall, CallSize)>> : sort \in {"recent", "title"}},
      {<<words, SearchArms(R, aud, words)>> : words \in Queries}>>

\* The reader is told what they would be told of a workspace without the layers they
\* may not read: no count, limit, degree, position or ambiguity gives them away.  It
\* is about the pages alone, and looked at before the walk's first call.
HiddenLeavesNoTrace ==
    walk.shown = <<>> =>
    Told(Rows(tree), walk.aud) =
        Told(Rows({p \in tree : p.layer = Public \/ p.layer \in walk.aud}), walk.aud)

\* A name that found an entity finds it where a merge or a rename took it ("keeps
\* the old title as an alias", docs/ARCHITECTURE.md:235-236), unless the reader sees
\* entities of a layer the operation was not on: a page it cannot see may have the
\* name, or a part of the page it moved.
NamesStayFound ==
    [][\A n \in Names : \A v \in Found(Rows(tree), walk.aud, n) :
          \/ done' = done \/ done'.op = "delete" \/ v[2] \notin done'.moved \union {done'.to}
          \/ \E p \in Seen(tree, walk.aud) : p.path[1] = "entity" /\ p.layer \notin done'.layers
          \/ Found(Rows(tree'), walk.aud, n) = {<<"entity", done'.to>>}]_vars

\* A push that is applied leaves the index as a rebuild of its commit would: a page
\* that appears or goes changes where the links of others lead ("Insert or update
\* pages using the same row shape as a full rebuild", index/store.py).
UpdatedIsRebuilt == [][Applied(Rebuilt(tree), tree, tree') = Rebuilt(tree')]_pageVars

\* The measures of a scope are those of the graph its readers are told ("A scope is
\* the graph one kind of reader sees", index/measures.py:3-5): the same pages and
\* links, and nothing of another layer.  A name lint accepts leads nowhere only where
\* two pages of different layers have it.
MeasuredAsRead ==
    walk.shown = <<>> =>
    \A scope \in Scopes(Rebuilt(tree)) \ {Brain} :
        LET aud == {scope} \ {Public}
            seen == {p \in tree : p.layer \in {Public, scope}}
            m == Measures(Rebuilt(tree), scope)
            told == BrowseGraph(Rows(tree), aud) IN
        /\ m = Measures(Rebuilt(seen), scope)
        /\ {x[1] : x \in told.nodes} = DOMAIN m.links
        /\ \A v \in DOMAIN m.links : m.links[v] = Cardinality({e \in told.edges : e[2] = v})
        /\ \A e \in m.sky.edges : \E v, w \in e : <<v, w>> \in told.edges
        /\ m.dead > 0 =>
              \E p, q \in seen : p.name = q.name /\ p.role # q.role

\* The fragments of a body reassemble it, and each is within what the embedding
\* model takes.
FragmentsReassemble == Reassembles(text, Spans(text))

FragmentsAreBounded == Bounded(text, Spans(text))

\* A reader is told of the pages of their layers, all of them, and of no other.
ReadersSeeTheirLayers ==
    /\ ListedOnce
    /\ HiddenLeavesNoTrace
    /\ MeasuredAsRead

\* A merge and a rename take links and names along, and no others.
LinksAreKept ==
    /\ LinksFollow
    /\ NoOtherTarget
    /\ NamesStayFound

\* The fragments that are embedded are the body and fit the model.
FragmentsAreTheBody ==
    /\ FragmentsReassemble
    /\ FragmentsAreBounded
=============================================================================
