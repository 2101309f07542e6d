---------------------------- MODULE LayeredText ----------------------------
(***************************************************************************)
(* One virtual page that `public` and a layer both hold: the body a writer  *)
(* of the layer edits (merge_for_writing), what of it the layer stores      *)
(* (split_from_public, _layer_part of knowledge/layered.py) and the body a  *)
(* reader of both gets (fuse_for_reading of kernel/layers.py).              *)
(*                                                                         *)
(* A body is a sequence of sections, a section a heading and its units, all *)
(* of them list items.  Prose that unit_key makes one are one unit.  The    *)
(* text before the first heading, the title line and the page's metadata    *)
(* are left out.                                                            *)
(*                                                                         *)
(* A definition introduced as a SLIP is a plausible mistake in the          *)
(* definition it names; it is no part of the specification.                 *)
(***************************************************************************)
EXTENDS Naturals, Sequences, FiniteSets, SequencesExt

CONSTANTS
    Headings,
    Connections,  \* the heading under which a page is linked once
    Prose,        \* units, by number
    DayOf,        \* the date each begins with, 0 for none
    LinkOf,       \* the page each links first, 0 for none
    MaxPublic,    \* bound: changes of the public page
    MaxOwn        \* bound: changes of the layer's view

ASSUME LayeredTextAssumption ==
    /\ Connections \in Headings
    /\ DayOf \in [Prose -> Nat] /\ LinkOf \in [Prose -> Nat]
    /\ MaxPublic \in Nat /\ MaxOwn \in Nat

VARIABLES
    public,   \* the body of the public page
    own,      \* the body of the layer's page, <<>> while it has none
    view,     \* the body a writer edits, and whether one does
    told,     \* history: the units writers of the layer added and none took out
    yielded,  \* history: those that public said, or linked the same page, when the layer was stored
    edits     \* changes so far, of the public page and of the view

textVars == <<public, own, view, told, yielded, edits>>

NoView == [open |-> FALSE, body |-> <<>>]
UnitsOf(body) == UNION {ToSet(body[i].units) : i \in DOMAIN body}
UnitsUnder(body, h) == UNION {ToSet(body[i].units) : i \in {j \in DOMAIN body : body[j].heading = h}}

LayeredTextTypeOK ==
    /\ \A body \in {public, own, view.body} :
           /\ \A i \in DOMAIN body : body[i].heading \in Headings /\ body[i].units # <<>>
           /\ UnitsOf(body) \subseteq Prose
    /\ view.open \in BOOLEAN
    /\ told \subseteq Prose /\ yielded \subseteq Prose
    /\ edits \in (0 .. MaxPublic) \X (0 .. MaxOwn)

TextInit ==
    /\ public = <<>> /\ own = <<>> /\ view = NoView
    /\ told = {} /\ yielded = {} /\ edits = <<0, 0>>
-----------------------------------------------------------------------------
(* kernel/layers.py *)

\* Sections of the same heading are one, under the heading that came first.
HeadingOrder(sections) ==
    FoldLeft(LAMBDA order, s : IF s.heading \in ToSet(order) THEN order ELSE Append(order, s.heading),
             <<>>, sections)

\* The units of a heading, each with the layer it is from.
Gathered(sections, h) ==
    FlattenSeq([i \in DOMAIN sections |->
        IF sections[i].heading = h
        THEN [j \in DOMAIN sections[i].units |-> [text |-> sections[i].units[j], layer |-> sections[i].layer]]
        ELSE <<>>])

\* _dedupe: a unit once, and under Connections a linked page once.
Again(kept, unit, h) ==
    \E other \in ToSet(kept) :
        \/ other.text = unit.text
        \/ h = Connections /\ LinkOf[unit.text] # 0 /\ LinkOf[other.text] = LinkOf[unit.text]

Dedupe(units, h) ==
    FoldLeft(LAMBDA kept, unit : IF Again(kept, unit, h) THEN kept ELSE Append(kept, unit), <<>>, units)

Days(units) == [i \in DOMAIN units |-> DayOf[units[i]]]
AllDated(days) == \A i \in DOMAIN days : days[i] # 0
Falling(days) == \A i, j \in DOMAIN days : i < j => days[i] >= days[j]
Rising(days) == \A i, j \in DOMAIN days : i < j => days[i] <= days[j]

\* A section keeps the direction in which its first page wrote its dates.
NewestFirst(sections, h) ==
    LET first == CHOOSE i \in DOMAIN sections :
                     sections[i].heading = h /\ \A j \in 1 .. i - 1 : sections[j].heading # h
        days == Days(sections[first].units)
    IN AllDated(days) /\ Cardinality(ToSet(days)) > 1 /\ Falling(days)

\* SLIP of Earlier: the whole key is reversed, not only the date.
EarlierReversed(units, newest, i, j) ==
    LET day(k) == DayOf[units[k].text]
    IN IF newest THEN day(i) > day(j) \/ (day(i) = day(j) /\ i > j)
                 ELSE day(i) < day(j) \/ (day(i) = day(j) /\ i < j)

\* By date in that direction, and units of one date as they came.
Earlier(units, newest, i, j) ==
    LET day(k) == DayOf[units[k].text]
    IN \/ IF newest THEN day(i) > day(j) ELSE day(i) < day(j)
       \/ day(i) = day(j) /\ i < j

InDateOrder(units, newest) ==
    LET order == SetToSortSeq(DOMAIN units, LAMBDA i, j : Earlier(units, newest, i, j))
    IN [k \in DOMAIN units |-> units[order[k]]]

\* _combine: the sections of several bodies as those of one.
Combine(sections, dated) ==
    LET order == HeadingOrder(sections)
        units(h) == Dedupe(Gathered(sections, h), h)
        sorted(h) == dated /\ \A unit \in ToSet(units(h)) : DayOf[unit.text] # 0
    IN [i \in DOMAIN order |->
           [heading |-> order[i],
            units |-> IF sorted(order[i]) THEN InDateOrder(units(order[i]), NewestFirst(sections, order[i]))
                                          ELSE units(order[i])]]

From(body, layer) ==
    [i \in DOMAIN body |-> [heading |-> body[i].heading, units |-> body[i].units, layer |-> layer]]

\* merge_for_writing: the public page, then the layer's own units, unmarked.
MergeForWriting(base, part) ==
    LET merged == Combine(From(base, "public") \o From(part, "own"), FALSE)
    IN [i \in DOMAIN merged |-> [heading |-> merged[i].heading,
                                 units |-> [j \in DOMAIN merged[i].units |-> merged[i].units[j].text]]]

\* SLIP of SplitFromPublic: a section the public page has is the public page's.
SplitBySection(body, base) ==
    SelectSeq(body, LAMBDA s : \A i \in DOMAIN base : base[i].heading # s.heading)

\* split_from_public: the units the public page says nowhere, and no empty section.
SplitFromPublic(body, base) ==
    SelectSeq([i \in DOMAIN body |->
                  [body[i] EXCEPT !.units = SelectSeq(@, LAMBDA u : u \notin UnitsOf(base))]],
              LAMBDA s : s.units # <<>>)

\* SLIP of FuseForReading: the rows of a path in the order of their layers' names.
FuseByName(base, part) == Combine(From(part, "own") \o From(base, "public"), TRUE)

\* fuse_for_reading: the public page first, every unit with the layer it is marked with.
FuseForReading(base, part) == Combine(From(base, "public") \o From(part, "own"), TRUE)
-----------------------------------------------------------------------------
(* Writes *)

\* A unit that is put first or last under a heading.
WithUnit(body, h, u, first) ==
    IF \E i \in DOMAIN body : body[i].heading = h
    THEN [i \in DOMAIN body |->
             IF body[i].heading = h
             THEN [body[i] EXCEPT !.units = IF first THEN <<u>> \o @ ELSE Append(@, u)]
             ELSE body[i]]
    ELSE Append(body, [heading |-> h, units |-> <<u>>])

WithoutUnit(body, h, u) ==
    SelectSeq([i \in DOMAIN body |->
                  IF body[i].heading = h
                  THEN [body[i] EXCEPT !.units = SelectSeq(@, LAMBDA other : other # u)] ELSE body[i]],
              LAMBDA s : s.units # <<>>)

Changed(body) ==
    {WithUnit(body, h, u, first) : h \in Headings, u \in Prose, first \in BOOLEAN}
    \cup {WithoutUnit(body, h, u) : h \in Headings, u \in Prose}

\* A public write, from the public page alone.
WritePublic ==
    /\ ~view.open /\ edits[1] < MaxPublic
    /\ public' \in Changed(public) \ {public}
    /\ edits' = [edits EXCEPT ![1] = @ + 1]
    /\ UNCHANGED <<own, view, told, yielded>>

\* build_view.
OpenView ==
    /\ ~view.open /\ edits[2] < MaxOwn
    /\ view' = [open |-> TRUE, body |-> MergeForWriting(public, own)]
    /\ UNCHANGED <<public, own, told, yielded, edits>>

EditView ==
    /\ view.open /\ edits[2] < MaxOwn
    /\ \E body \in Changed(view.body) \ {view.body, <<>>} : view' = [view EXCEPT !.body = body]
    /\ edits' = [edits EXCEPT ![2] = @ + 1]
    /\ UNCHANGED <<public, own, told, yielded>>

\* What a write of the layer leaves to what public or another of its lines already says.
Yields(u) ==
    \/ u \in UnitsOf(public)
    \/ /\ LinkOf[u] # 0
       /\ \E v \in (UnitsUnder(public, Connections) \cup UnitsUnder(own, Connections)) \ {u} :
              LinkOf[v] = LinkOf[u]

\* project of the page: an unchanged one is passed over, and so is one that adds nothing.
Store ==
    /\ view.open
    /\ LET before == MergeForWriting(public, own)
           part == SplitFromPublic(view.body, public)
           added == UnitsOf(view.body) \ UnitsOf(before)
           taken == UnitsOf(before) \ UnitsOf(view.body)
       IN IF view.body = before \/ part = <<>>
          THEN UNCHANGED <<own, told, yielded>>
          ELSE /\ own' = part
               /\ told' = (told \ taken) \cup added
               /\ yielded' = (yielded \ added) \cup {u \in told' : Yields(u)}
    /\ view' = NoView
    /\ UNCHANGED <<public, edits>>

TextNext == WritePublic \/ OpenView \/ EditView \/ Store

TextSpec == TextInit /\ [][TextNext]_textVars
-----------------------------------------------------------------------------
\* layered.py:181-220, layers.py:241-261: a write of the layer keeps every line the layer was told,
\* whatever the public page came to say meanwhile; what it leaves out, public or another line of the
\* layer said at that moment.
LayerKeepsWhatItWasTold == told \subseteq UnitsOf(own) \cup yielded

\* layers.py:270-324: a reader of both reads each line once under its heading, marked unless the public
\* page says it there, and none that neither page holds; a page is linked once under Connections.
ReadOnceAndMarked ==
    LET fused == FuseForReading(public, own)
        read(h) == UNION {ToSet(fused[i].units) : i \in {j \in DOMAIN fused : fused[j].heading = h}}
    IN /\ \A i, j \in DOMAIN fused : fused[i].heading = fused[j].heading => i = j
       /\ \A i \in DOMAIN fused : Cardinality({unit.text : unit \in ToSet(fused[i].units)}) = Len(fused[i].units)
       /\ \A h \in Headings : \A unit \in read(h) :
              /\ unit.text \in UnitsUnder(public, h) \cup UnitsUnder(own, h)
              /\ unit.layer = "public" <=> unit.text \in UnitsUnder(public, h)
       /\ \A h \in Headings : \A u \in UnitsUnder(public, h) \cup UnitsUnder(own, h) :
              \E unit \in read(h) :
                  unit.text = u \/ (h = Connections /\ LinkOf[u] # 0 /\ LinkOf[unit.text] = LinkOf[u])

\* layers.py:286-304: the lines of a public section that is in the order of its dates, either way, keep
\* that order for a reader of the layer, with those of the layer among them, and so do the lines of a
\* section that is read with an undated one.
PublicOrderIsKept ==
    LET fused == FuseForReading(public, own)
        place(units, u) == CHOOSE k \in DOMAIN units : units[k].text = u
        ordered(days) == AllDated(days) /\ (Rising(days) \/ Falling(days))
        undated(units) == \E k \in DOMAIN units : DayOf[units[k].text] = 0
    IN \A i \in DOMAIN public, j \in DOMAIN fused :
           /\ fused[j].heading = public[i].heading
           /\ ordered(Days(public[i].units)) \/ undated(fused[j].units)
           =>
               \A k, l \in DOMAIN public[i].units :
                   LET u == public[i].units[k]
                       v == public[i].units[l]
                       read == {unit.text : unit \in ToSet(fused[j].units)}
                       earlier(w, m) == \E n \in 1 .. m - 1 : public[i].units[n] = w
                   IN k < l /\ {u, v} \subseteq read /\ ~earlier(u, k) /\ ~earlier(v, l)
                      => place(fused[j].units, u) < place(fused[j].units, v)

\* A page two layers hold is read as each of them was told: nothing is lost to a write of either, and
\* nothing is read twice, unmarked or out of the public order.
LayerIsReadAsTold ==
    /\ LayerKeepsWhatItWasTold
    /\ ReadOnceAndMarked
    /\ PublicOrderIsKept
-----------------------------------------------------------------------------
(* What the code does not keep, which no run checks (README, section 5) *)

\* docs/ARCHITECTURE.md:136: a line of the layer that public came to say as well is gone from both when
\* public takes it back.
DerivedStaysInItsLayer == told \subseteq UnitsOf(own) \cup UnitsOf(public)
=============================================================================
