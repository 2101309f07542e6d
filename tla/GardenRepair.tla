---------------------------- MODULE GardenRepair ----------------------------
(***************************************************************************)
(* The repairs of the scheduled gardener: a branch that was pushed to by   *)
(* hand is checked, the model rewrites the violated pages in the view of   *)
(* one layer after another, and the whole lands in one commit or not at all*)
(* (_garden, _garden_layer and _apply_repair_plan of knowledge/writer.py). *)
(*                                                                         *)
(* A page is its units and whether its front matter is sound; a unit is a  *)
(* text that may hold a link.  A violation is a link that reaches no page  *)
(* of its layer or of `public`, or front matter no repair can mend.  Names,*)
(* citations and contradictions are FilingLoop's and PageNames's.          *)
(*                                                                         *)
(* A definition introduced as a SLIP is a plausible mistake in the         *)
(* definition it names; it is no part of the specification.                *)
(***************************************************************************)
EXTENDS Naturals, Sequences, FiniteSets

CONSTANTS
    Order,      \* the layers in the order of their names, `public` first
    Titles,     \* virtual page paths
    Lines,      \* unit texts
    Target,     \* the page each links, or NoTarget
    NoTarget,
    MaxPushes,  \* bound: pages pushed by hand
    MaxGardens  \* bound: gardens

ASSUME GardenRepairAssumption ==
    /\ DOMAIN Order = 1 .. Len(Order) /\ Len(Order) \in Nat \ {0}
    /\ \A i, j \in DOMAIN Order : i # j => Order[i] # Order[j]
    /\ Target \in [Lines -> Titles \cup {NoTarget}] /\ NoTarget \notin Titles
    /\ MaxPushes \in Nat /\ MaxGardens \in Nat

Zone == {Order[i] : i \in DOMAIN Order}
Root == Order[1]

VARIABLES
    tip,      \* the branch: [Zone -> [Titles -> page]]
    bed,      \* the worktree of the garden under way
    turn,     \* the layer it has come to; 0 when there is no garden
    repaired, \* pages a stored repair says it changed
    handPushes, gardens

gardenVars == <<tip, bed, turn, repaired, handPushes, gardens>>

NoText == [units |-> {}, sound |-> TRUE]
SomePage == [units : (SUBSET Lines) \ {{}}, sound : BOOLEAN]
Bare == [l \in Zone |-> [n \in Titles |-> NoText]]

GardenTypeOK ==
    /\ tip \in [Zone -> [Titles -> SomePage \cup {NoText}]]
    /\ bed \in [Zone -> [Titles -> SomePage \cup {NoText}]]
    /\ turn \in 0 .. Len(Order) + 1
    /\ repaired \subseteq Zone \X Titles
    /\ handPushes \in 0 .. MaxPushes /\ gardens \in 0 .. MaxGardens

GardenInit ==
    /\ tip = Bare /\ bed = Bare /\ turn = 0 /\ repaired = {}
    /\ handPushes = 0 /\ gardens = 0
-----------------------------------------------------------------------------
\* build_view: the pages of `public` and of the layer, a path of both as one page.
Sight(pages, l) ==
    [n \in Titles |-> [units |-> pages[Root][n].units \cup pages[l][n].units,
                       sound |-> pages[Root][n].sound /\ pages[l][n].sound]]

\* lint.check of a view: the pages it finds something wrong with.
Faulty(view) ==
    {n \in Titles : \/ ~view[n].sound
                    \/ \E u \in view[n].units : Target[u] # NoTarget /\ view[Target[u]] = NoText}

\* lint.check of the repository: every page as its own layer resolves it.
Wrong(pages) ==
    {p \in Zone \X Titles :
        LET page == pages[p[1]][p[2]]
        IN ~page.sound
           \/ \E u \in page.units : Target[u] # NoTarget /\ Sight(pages, p[1])[Target[u]] = NoText}

\* Somebody pushes a page, or its deletion, to the branch.
PushByHand(l, n) ==
    /\ turn = 0 /\ handPushes < MaxPushes
    /\ \E page \in (SomePage \cup {NoText}) \ {tip[l][n]} : tip' = [tip EXCEPT ![l][n] = page]
    /\ handPushes' = handPushes + 1
    /\ UNCHANGED <<bed, turn, repaired, gardens>>

\* A garden that finds nothing wrong repairs nothing.
BeginRepairs ==
    /\ turn = 0 /\ gardens < MaxGardens /\ Wrong(tip) # {}
    /\ bed' = tip /\ turn' = 1 /\ repaired' = {}
    /\ gardens' = gardens + 1
    /\ UNCHANGED <<tip, handPushes>>

\* SLIP of Repairable: every page of the view may be rewritten.
RepairableAny(view) == {n \in Titles : view[n] # NoText}

\* _apply_repair_plan: only the pages with a violation, and only their bodies.
Repairable(view) == Faulty(view)

Repairs(view) ==
    {f \in [Titles -> SomePage \cup {NoText}] :
        \A n \in Titles :
            f[n] = view[n] \/ (n \in Repairable(view) /\ f[n].units # {} /\ f[n].sound = view[n].sound)}

\* SLIP of PartOf: the layer stores the page as the model saw it.
WholeOf(page, base) == page.units

\* The layer's part of a page that public has too.
PartOf(page, base) == page.units \ base.units

\* layered.project, strict: the pages the layer stores, unless a line of public was changed.
Overwrites(l, view, after) ==
    l # Root /\ \E n \in Titles : after[n] # view[n] /\ ~(bed[Root][n].units \subseteq after[n].units)

StoredPage(l, n, view, after) ==
    LET base == bed[Root][n]
        part == PartOf(after[n], base)
    IN IF after[n] = view[n] THEN bed[l][n]
       ELSE IF l = Root THEN after[n]
       ELSE IF base = NoText THEN after[n]
       ELSE IF part = {} THEN bed[l][n]
       ELSE [units |-> part, sound |-> bed[l][n].sound]

\* The worktree goes, after a commit as when the model does not answer or a gate refuses.
GardenOver == bed' = Bare /\ turn' = 0 /\ repaired' = {}

\* One layer.  A repair that leaves its view with a violation is not stored.
RepairLayer ==
    /\ turn \in DOMAIN Order
    /\ LET l == Order[turn]
           view == Sight(bed, l)
       IN \/ /\ \E after \in Repairs(view) :
                    IF Faulty(after) # {} THEN turn' = turn + 1 /\ UNCHANGED <<bed, repaired>>
                    ELSE IF Overwrites(l, view, after) THEN GardenOver
                    ELSE /\ turn' = turn + 1
                         /\ bed' = [bed EXCEPT ![l] = [n \in Titles |-> StoredPage(l, n, view, after)]]
                         /\ repaired' = repaired \cup {<<l, n>> : n \in {m \in Titles : after[m] # view[m]}}
          \/ Faulty(view) # {} /\ GardenOver
    /\ UNCHANGED <<tip, handPushes, gardens>>

\* SLIP of MayLand: the repairs that were stored are good enough.
MayLandAnyway == bed # tip

\* The repository is checked again as a whole.
MayLand == Wrong(bed) = {} /\ bed # tip

LandRepairs ==
    /\ turn = Len(Order) + 1
    /\ tip' = IF MayLand THEN bed ELSE tip
    /\ GardenOver
    /\ UNCHANGED <<handPushes, gardens>>

GardenNext ==
    \/ \E l \in Zone, n \in Titles : PushByHand(l, n)
    \/ BeginRepairs \/ RepairLayer \/ LandRepairs

GardenSpec == GardenInit /\ [][GardenNext]_gardenVars
-----------------------------------------------------------------------------
\* writer.py:262-283: a garden lands a branch without a violation, whichever layers it could not
\* repair, or leaves the branch as it is.
GardenLandsClean ==
    [][turn # 0 /\ tip' # tip => Wrong(tip') = {}]_gardenVars

\* writer.py:322-354, 2053-2090: what the repairs of every layer change together is the pages that had a
\* violation for the readers of their layer before the first of them; a sound page of a layer stays as
\* it was, though the public part of it was rewritten.
OnlyFaultyPagesChange ==
    [][turn # 0 => \A l \in Zone, n \in Titles :
          tip'[l][n] # tip[l][n] => n \in Faulty(Sight(tip, l))]_gardenVars

\* layered.py:181-220: a garden stores no line in a layer that public has on the same page.
RepairsStayApart ==
    [][turn # 0 => \A l \in Zone \ {Root}, n \in Titles :
          tip'[l][n] # tip[l][n]
              => tip'[l][n].units \cap tip'[Root][n].units = {}]_gardenVars

\* What a garden lands, whatever the model answers for each layer and whoever pushes: no violation, no
\* change to a page without one, and no line of public stored in another layer.
GardenLandsRepairs ==
    /\ GardenLandsClean
    /\ OnlyFaultyPagesChange
    /\ RepairsStayApart
=============================================================================
