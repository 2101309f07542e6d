---------------------------- MODULE EntityPages ----------------------------
(***************************************************************************)
(* The knowledge pages of a workspace in their audience layers, and the    *)
(* three operations an administrator has on entity pages: merge, rename    *)
(* and delete (entities/service.py, _entity of knowledge/writer.py).  Each *)
(* runs in a worktree, moves or folds pages, rewrites the links that       *)
(* pointed at them, and is kept only when lint (knowledge/lint.py) finds   *)
(* nothing it did not find before.                                         *)
(*                                                                         *)
(* A page is known by its role and its name: a title is stored under its   *)
(* own stem, which is also what a wikilink writes, so one value stands for *)
(* all three.  Names are numbered in the order of their paths.  Prose,     *)
(* page ids and editorial status are left out; a page's day is that of its *)
(* newest source.  The same pages in the index are PageReading's.          *)
(***************************************************************************)
EXTENDS Integers, FiniteSets, FiniteSetsExt, Folds

CONSTANTS
    Names,      \* what pages are called and links say
    Layers,     \* the audience layers, 0 for `public`
    Titles,     \* the names pages have at the start; the others are aliases only
    Details(_, _, _), \* what a page may hold at the start, by layer, role and name
    MaxPages,   \* how many pages there are at the start
    MaxOps      \* how many operations are filed

ASSUME EntityPagesAssumption ==
    /\ Names \subseteq Nat /\ Titles \subseteq Names
    /\ MaxPages \in Nat
    /\ Layers \subseteq Nat /\ 0 \in Layers
    /\ MaxOps \in Nat

Public == 0
Roles == {"entity", "note"}
Kinds == {"person", "company", "none"}

Page == [layer : Layers, role : Roles, name : Names, kind : Kinds,
         aliases : SUBSET Names, links : SUBSET Names, day : Nat]

VARIABLES
    tree,       \* the pages of the canonical ref, every layer's
    done        \* the last operation filed, and how many there were

pageVars == <<tree, done>>

\* A page's virtual path; the same one may exist once in each layer.
Path(p) == <<p.role, p.name>>
Where(p) == <<p.layer, p.role, p.name>>

\* A page resolves its links among its own layer and `public`.
Scope(p) == {p.layer, Public}

InLayer(T, l) == {p \in T : p.layer = l}
Entities(T) == {p \in T : p.role = "entity"}
Stems(T) == {p.name : p \in T}

\* What an entity page answers to.
NameKeys(p) == IF p.role = "entity" THEN {p.name} \union p.aliases ELSE {}

-----------------------------------------------------------------------------
(* Lint.                                                                   *)

\* Two entity pages of one layer may never answer to the same name.
Collisions(T) ==
    UNION {{<<"alias-collision", Where(p), k, Where(q)>> : k \in NameKeys(p) \intersect NameKeys(q)} :
              <<p, q>> \in {pq \in Entities(T) \X Entities(T) :
                               pq[1] # pq[2] /\ pq[1].layer = pq[2].layer}}

\* The pages a wikilink says, one layer at a time.
Matches(T, l, n) == {p \in InLayer(T, l) : p.name = n}

\* Nothing to resolve to, or two pages of one layer; a name that two layers use
\* for different pages is no violation: the link reads as plain text.
BadLinks(T) ==
    UNION {{<<IF \A l \in Scope(p) : Matches(T, l, n) = {} THEN "dead-link" ELSE "ambiguous-link",
              Where(p), n, Cardinality({q \in T : q.layer \in Scope(p) /\ q.name = n})>> :
               n \in {m \in p.links :
                        \/ \A l \in Scope(p) : Matches(T, l, m) = {}
                        \/ \E l \in Scope(p) : Cardinality(Matches(T, l, m)) > 1}} : p \in T}

Violations(T) == Collisions(T) \union BadLinks(T)

\* Where a link leads in the index: to the one page its scope has under the name.
Named(T, p, n) == {Path(q) : q \in {r \in T : r.layer \in Scope(p) /\ r.name = n}}

Resolve(T, p, n) == IF Cardinality(Named(T, p, n)) = 1 THEN Named(T, p, n) ELSE {}

Reach(T, p) == UNION {Resolve(T, p, n) : n \in p.links} \ {Path(p)}

-----------------------------------------------------------------------------
(* Operations.  A refused one leaves the worktree behind and changes nothing. *)

\* rewrite_links, for one page: every link at a moved stem says the new one.
Relinked(p, stems, to) ==
    [p EXCEPT !.links = {IF n \in stems THEN to ELSE n : n \in @}]

\* The sentence of the evidence lists names, each word of it taken by exactly one
\* selected page and every page by one of its names.
Binds(said, pages) ==
    \E f \in [pages -> said] :
        /\ \A p \in pages : f[p] \in NameKeys(p)
        /\ \A n \in said : \E p \in pages : f[p] = n
        /\ \A p, q \in pages : f[p] = f[q] => p = q

\* SLIP of Folded: the titles of the merged pages become aliases, their aliases go.
FoldedTitles(c, others) ==
    [c EXCEPT !.aliases = @ \union (Stems(others) \ {c.name}),
              !.links = @ \union UNION {p.links : p \in others},
              !.day = Max({p.day : p \in others} \union {@})]

\* The first page listed takes the others' names, text and sources.
Folded(c, others) ==
    [c EXCEPT !.aliases = @ \union (UNION {NameKeys(p) : p \in others} \ {c.name}),
              !.links = @ \union UNION {p.links : p \in others},
              !.day = Max({p.day : p \in others} \union {@})]

\* SLIP of Followed: a merge rewrites the links of every layer.
FollowedEverywhere(l, c, stems) == stems

\* The stems of a merge that a layer's links follow: its own merge's; a public
\* one's where no page of the layer has the name.
Followed(l, c, stems) ==
    CASE l = c.layer -> stems
      [] l # c.layer /\ c.layer = Public -> stems \ Stems(InLayer(tree, l))
      [] OTHER -> {}

Merged(c, others) ==
    {Relinked(p, Followed(p.layer, c, Stems(others)), c.name) :
        p \in (tree \ (others \union {c})) \union {Folded(c, others)}}

\* The layers that hold a page of this virtual path rename it, in one change.
Owners(n) == {p \in Entities(tree) : p.name = n}

MayTake(p, new) ==
    /\ \A q \in Entities(InLayer(tree, p.layer)) : q.name # new
    /\ \A q \in Entities(InLayer(tree, p.layer)) \ {p} : new \notin NameKeys(q)

Renamed(old, new) ==
    {Relinked(IF p \in Owners(old)
              THEN [p EXCEPT !.name = new, !.aliases = (@ \union {old}) \ {new}] ELSE p,
              {old}, new) : p \in tree}

\* SLIP of DeadFor: a link goes though another page in scope has the name.
DeadAnyway(p, gone, left) == IF gone.layer \in Scope(p) THEN {gone.name} ELSE {}

\* The links a page can no longer resolve become plain text.
DeadFor(p, gone, left) ==
    IF gone.layer \in Scope(p)
    THEN {gone.name} \ Stems({q \in left : q.layer \in Scope(p)})
    ELSE {}

Swept(gone) ==
    {[p EXCEPT !.links = @ \ DeadFor(p, gone, tree \ {gone})] : p \in tree \ {gone}}

\* The gate of _entity and the commit: nothing lint did not say of the base.
File(after, op, layers, moved, to) ==
    /\ Violations(after) \subseteq Violations(tree)
    /\ tree' = after
    /\ done' = [op |-> op, layers |-> layers, moved |-> moved, to |-> to, count |-> done.count + 1]

MergeEntities ==
    \E c \in Entities(tree) :
        \E others \in SUBSET (Entities(InLayer(tree, c.layer)) \ {c}) :
            /\ others # {}
            /\ \A p \in others : p.kind = c.kind
            /\ \E said \in SUBSET UNION {NameKeys(p) : p \in others \union {c}} :
                  Binds(said, others \union {c})
            /\ File(Merged(c, others), "merge", {c.layer}, Stems(others), c.name)

RenameEntity ==
    \E old, new \in Names :
        /\ old # new
        /\ Owners(old) # {}
        /\ \A p \in Owners(old) : MayTake(p, new)
        /\ File(Renamed(old, new), "rename", {p.layer : p \in Owners(old)}, {old}, new)

DeleteEntity ==
    \E p \in Entities(tree) :
        File(Swept(p), "delete", {p.layer}, {p.name}, p.name)

\* Any small corpus that lint accepts, two layers using one name included: a
\* public write cannot see the other layers' names.
PagesInit ==
    /\ \E D \in SUBSET (Layers \X Roles \X Titles) :
          /\ Cardinality(D) <= MaxPages
          /\ \E f \in [D -> UNION {Details(s[1], s[2], s[3]) : s \in D}] :
                /\ \A s \in D : f[s] \in Details(s[1], s[2], s[3])
                /\ tree = {[layer |-> s[1], role |-> s[2], name |-> s[3], kind |-> f[s].kind,
                             aliases |-> f[s].aliases, links |-> f[s].links, day |-> f[s].day] : s \in D}
    /\ Violations(tree) = {}
    /\ done = [op |-> "none", layers |-> {}, moved |-> {}, to |-> 0, count |-> 0]

Operate ==
    /\ done.count < MaxOps
    /\ MergeEntities \/ RenameEntity \/ DeleteEntity

-----------------------------------------------------------------------------
(* What an operation may not do.                                           *)

\* Where the page of a virtual path may be after the operation `d`, for a reader
\* of the scope: where it was, if a layer of the scope still holds it, and where
\* the operation took the page of a layer of the scope.
Homes(v, T, scope, d) ==
    {Path(p) : p \in {q \in T : Path(q) = v /\ q.layer \in scope}} \union
    IF d.op # "delete" /\ v[1] = "entity" /\ v[2] \in d.moved /\ d.layers \intersect scope # {}
    THEN {<<"entity", d.to>>} ELSE {}

\* The page of T that page p has become.
Successor(p, T, d) ==
    {q \in T : q.layer = p.layer /\ Path(q) \in
        IF p.role = "entity" /\ p.name \in d.moved /\ p.layer \in d.layers
        THEN Homes(Path(p), {}, {p.layer}, d) ELSE {Path(p)}}

\* A rename rewrites the links of every layer, those of layers that cannot see
\* the page it renames included (writer.py:240-242; README, section 5).
Astray(p, d) == d.op = "rename" /\ d.layers \intersect Scope(p) = {}

\* Merge and rename take every link along ("rewrites every link",
\* entities/service.py:3-5): what a link reached is reached still, where it is
\* now, unless the reader's own layer uses the new name for a page of its own.
LinksFollow ==
    [][\A p \in tree : \A q \in Successor(p, tree', done') : \A v \in Reach(tree, p) :
          LET homes == Homes(v, tree', Scope(p), done') IN
          \/ homes = {} \/ Astray(q, done')
          \/ Cardinality(Named(tree', q, done'.to)) > 1
          \/ homes \intersect (Reach(tree', q) \union {Path(q)}) # {}]_pageVars

\* No link comes to lead to a page that its text did not name, and a merge takes
\* along a link of another layer only where it led to a page that moved ("links
\* elsewhere follow where they resolved to them", writer.py:207).
NoOtherTarget ==
    [][\A q \in {r \in tree' : ~Astray(r, done')} : \A w \in Reach(tree', q) :
          \E p \in tree :
              LET named == UNION {Named(tree, p, n) : n \in p.links}
                  led == IF done'.op = "merge" /\ p.layer \notin done'.layers
                         THEN Reach(tree, p) \union {Path(p)} ELSE named IN
              /\ q \in Successor(p, tree', done')
              /\ w \in named \/ \E v \in led : w \in Homes(v, tree', Scope(p), done')]_pageVars
=============================================================================
