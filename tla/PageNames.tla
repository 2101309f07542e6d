----------------------------- MODULE PageNames ------------------------------
(***************************************************************************)
(* What pages answer to: the names a filing plan may give to the pages it   *)
(* creates (_skip_claimed_names of knowledge/writer.py), and the other      *)
(* names of entities that are read off the links the plan adds, and by the  *)
(* garden off every link (knowledge/aliases.py, _record_aliases,            *)
(* _garden_aliases).                                                        *)
(*                                                                         *)
(* Texts that resolution_key and title_stem make one are one name; names    *)
(* are numbered in the order of the pages.  The classifier answers as it    *)
(* likes.  Deletions, merges and renames are EntityPages's, the rest of a   *)
(* plan FilingLoop's.                                                       *)
(*                                                                         *)
(* A definition introduced as a SLIP is a plausible mistake in the          *)
(* definition it names; it is no part of the specification.                 *)
(***************************************************************************)
EXTENDS Integers, FiniteSets

CONSTANTS
    Names,       \* titles, aliases and the texts of links
    WordsOf,     \* the words of each
    Zones,       \* the layers of the workspace, 0 for `public`
    FilingCap,   \* candidates a filing asks about
    GardenCap,   \* and one layer of a garden
    MaxNamings,  \* bound: filings
    MaxGiven,    \* bound: aliases that updates give
    MaxDays      \* bound: gardens

ASSUME PageNamesAssumption ==
    /\ Names \subseteq Nat /\ DOMAIN WordsOf = Names
    /\ Zones \subseteq Nat /\ 0 \in Zones /\ \A z \in Zones : 0 .. z \subseteq Zones
    /\ FilingCap \in Nat \ {0} /\ GardenCap \in Nat \ {0}
    /\ MaxNamings \in Nat /\ MaxGiven \in Nat /\ MaxDays \in Nat

NamedPage == [zone : Zones, role : {"entity", "note"}, title : Names, aliases : SUBSET Names]

VARIABLES
    named,    \* the knowledge pages of the branch
    variants, \* the links of the branch that show another text: zone, entity, shown
    draft,    \* the worktree of the write under way
    report,   \* the decisions of the last write that was committed
    quiet,    \* gardens since the branch last changed
    sought,   \* candidates asked about since then
    namings, given, days

nameVars == <<named, variants, draft, report, quiet, sought, namings, given, days>>

NoDraft == [kind |-> "none", zone |-> 0, pages |-> {}, links |-> {}, added |-> {}, asked |-> {},
            accepted |-> {}]

\* The view of a layer: its own pages and the public ones.
Seen(pages, z) == {p \in pages : p.zone \in {0, z}}
AnswersTo(p) == {p.title} \cup p.aliases
EntitiesOf(pages) == {p \in pages : p.role = "entity"}
LinkNames(pages) == UNION {AnswersTo(p) : p \in pages}
EntityNames(pages) == LinkNames(EntitiesOf(pages))

PageNamesTypeOK ==
    /\ named \subseteq NamedPage
    /\ variants \subseteq [zone : Zones, to : Names, shown : Names]
    /\ draft.kind \in {"none", "filing", "garden"} /\ draft.zone \in Nat
    /\ draft.pages \subseteq NamedPage
    /\ quiet \in 0 .. MaxDays /\ days \in 0 .. MaxDays
    /\ namings \in 0 .. MaxNamings /\ given \in 0 .. MaxGiven

NamesInit ==
    /\ named = {} /\ variants = {} /\ draft = NoDraft /\ report = {}
    /\ quiet = 0 /\ sought = {}
    /\ namings = 0 /\ given = 0 /\ days = 0
-----------------------------------------------------------------------------
(* A filing *)

PlanOpen == draft.kind = "filing" /\ draft.asked = {}

BeginNaming(z) ==
    /\ draft.kind = "none" /\ namings < MaxNamings
    /\ draft' = [NoDraft EXCEPT !.kind = "filing", !.zone = z, !.pages = named, !.links = variants]
    /\ namings' = namings + 1
    /\ UNCHANGED <<named, variants, report, quiet, sought, given, days>>

\* SLIP of FreeAliases: a new entity keeps the alias a note is named.
AllAliases(pages, aliases) == aliases

\* A new entity's alias that another kind of page is named is left off.
FreeAliases(pages, aliases) ==
    {a \in aliases : \A p \in pages : p.role = "note" => p.title # a}

\* A creation whose name a page of the view or of the plan answers to is not made.
CreatePage(role, title, aliases) ==
    /\ PlanOpen /\ (role = "note" => aliases = {})
    /\ LET view == Seen(draft.pages, draft.zone)
       IN /\ ({title} \cup aliases) \cap EntityNames(view) = {}
          /\ \A p \in view : p.title # title
          /\ draft' = [draft EXCEPT !.pages = @ \cup
                          {[zone |-> draft.zone, role |-> role, title |-> title,
                            aliases |-> FreeAliases(view, aliases) \ {title}]}]
    /\ UNCHANGED <<named, variants, report, quiet, sought, namings, given, days>>

\* An update may give an entity page any alias; lint refuses one that another entity answers to.
GiveAlias(p, name) ==
    /\ PlanOpen /\ given < MaxGiven
    /\ p \in EntitiesOf(draft.pages) /\ p.zone = draft.zone
    /\ name \notin EntityNames(Seen(draft.pages, draft.zone))
    /\ draft' = [draft EXCEPT !.pages = (@ \ {p}) \cup {[p EXCEPT !.aliases = @ \cup {name}]}]
    /\ given' = given + 1
    /\ UNCHANGED <<named, variants, report, quiet, sought, namings, days>>

\* `[[Entity|variant]]` in a page the plan writes; what reaches no page is written as plain text.
AddVariant(to, shown) ==
    /\ PlanOpen /\ shown # to
    /\ \E p \in EntitiesOf(Seen(draft.pages, draft.zone)) : p.title = to
    /\ LET link == [zone |-> draft.zone, to |-> to, shown |-> shown]
       IN /\ link \notin draft.added
          /\ draft' = [draft EXCEPT !.added = @ \cup {link}, !.links = @ \cup {link}]
    /\ UNCHANGED <<named, variants, report, quiet, sought, namings, given, days>>
-----------------------------------------------------------------------------
(* aliases.candidates and aliases.record *)

\* SLIP of StoresWhole: the layer of a page is not asked.
AnyPage(p, z) == TRUE

\* layered.stores_whole: a change to the page reaches the branch as that page.
StoresWhole(p, z) == p.zone = z

\* SLIP of IsCandidate: a name a page answers to may become an alias as well.
IsCandidateOfTwo(pages, z, links, p, name) ==
    /\ name \notin AnswersTo(p)
    /\ {v.to : v \in {u \in links : u.shown = name}} = {p.title}
    /\ StoresWhole(p, z)
    /\ \A q \in EntitiesOf(pages) \ {p} : \A other \in AnswersTo(q) : ~(WordsOf[name] \subseteq WordsOf[other])

\* A text that names no page yet, stands for one entity only, and is no part of another's name.
IsCandidate(pages, z, links, p, name) ==
    /\ name \notin LinkNames(pages)
    /\ {v.to : v \in {u \in links : u.shown = name}} = {p.title}
    /\ StoresWhole(p, z)
    /\ \A q \in EntitiesOf(pages) \ {p} : \A other \in AnswersTo(q) : ~(WordsOf[name] \subseteq WordsOf[other])

Candidates(pages, z, links) ==
    {c \in [to : {v.to : v \in links}, shown : {v.shown : v \in links}] :
        \E p \in EntitiesOf(pages) : p.title = c.to /\ IsCandidate(pages, z, links, p, c.shown)}

\* How many of the others are met before this one.
Place(found, c) == Cardinality({d \in found : d.to < c.to \/ (d.to = c.to /\ d.shown < c.shown)})

\* The first `cap` of them, counted from `start` and round.
FirstAsked(found, start, cap) ==
    {c \in found : (Place(found, c) - start) % Cardinality(found) < cap}

\* SLIP of StartOf: every garden begins with the same candidate.
StartOfPage(day) == 0

\* The garden's cap moves on by itself every day.
StartOf(day) == day * GardenCap

WithNames(pages, z, accepted) ==
    {IF p.role = "entity" /\ StoresWhole(p, z)
     THEN [p EXCEPT !.aliases = @ \cup {c.shown : c \in {d \in accepted : d.to = p.title}}]
     ELSE p : p \in pages}

\* Two entities that answer to one name are a violation; an accepted name that makes one undoes all.
CollidingNames(pages) ==
    {n \in Names : \E p, q \in EntitiesOf(pages) : p # q /\ n \in AnswersTo(p) \cap AnswersTo(q)}

\* The candidates are asked about: those not accepted were refused or went unanswered.
Recorded(z, asked, accepted) ==
    LET after == WithNames(draft.pages, z, accepted)
        kept == IF CollidingNames(Seen(after, z)) \subseteq CollidingNames(Seen(draft.pages, z))
                THEN accepted ELSE {}
    IN [draft EXCEPT !.pages = WithNames(@, z, kept),
                     !.asked = @ \cup {<<z, c>> : c \in asked},
                     !.accepted = @ \cup {<<z, c>> : c \in kept}]

\* The branch gets what the layer may store: its own pages, and the public ones as they were.
Stored(z) == {p \in named : p.zone # z} \cup {p \in draft.pages : p.zone = z}

\* The names of a filing are those of the links it added.
NameFiling ==
    /\ PlanOpen
    /\ LET z == draft.zone
           found == Candidates(Seen(draft.pages, z), z, draft.added)
           asked == FirstAsked(found, 0, FilingCap)
       IN found # {} /\ \E accepted \in SUBSET asked : draft' = Recorded(z, asked, accepted)
    /\ UNCHANGED <<named, variants, report, quiet, sought, namings, given, days>>

EndFiling ==
    /\ draft.kind = "filing"
    /\ PlanOpen => Candidates(Seen(draft.pages, draft.zone), draft.zone, draft.added) = {}
    /\ named' = Stored(draft.zone) /\ variants' = draft.links /\ report' = draft.accepted
    /\ quiet' = 0 /\ sought' = {}
    /\ draft' = NoDraft
    /\ UNCHANGED <<namings, given, days>>
-----------------------------------------------------------------------------
(* The garden: every layer's view in turn, one commit *)

BeginGarden ==
    /\ draft.kind = "none" /\ days < MaxDays
    /\ draft' = [NoDraft EXCEPT !.kind = "garden", !.pages = named, !.links = variants]
    /\ days' = days + 1
    /\ UNCHANGED <<named, variants, report, quiet, sought, namings, given>>

\* A layer's view holds the links of its own pages and of the public ones; one that does not lint
\* is passed over.
NameLayer ==
    /\ draft.kind = "garden" /\ draft.zone \in Zones
    /\ LET z == draft.zone
           pages == Seen(draft.pages, z)
           links == {v \in draft.links : v.zone \in {0, z}}
           found == IF z = 0 /\ CollidingNames(pages) # {} THEN {} ELSE Candidates(pages, z, links)
           asked == FirstAsked(found, StartOf(days), GardenCap)
       IN \E accepted \in SUBSET asked : draft' = [Recorded(z, asked, accepted) EXCEPT !.zone = @ + 1]
    /\ UNCHANGED <<named, variants, report, quiet, sought, namings, given, days>>

EndGarden ==
    /\ draft.kind = "garden" /\ draft.zone \notin Zones
    /\ named' = draft.pages /\ report' = draft.accepted
    /\ IF named' = named THEN quiet' = quiet + 1 /\ sought' = sought \cup draft.asked
                         ELSE quiet' = 0 /\ sought' = {}
    /\ draft' = NoDraft
    /\ UNCHANGED <<variants, namings, given, days>>
-----------------------------------------------------------------------------
NamesNext ==
    \/ \E z \in Zones : BeginNaming(z)
    \/ \E role \in {"entity", "note"}, title \in Names, aliases \in {{}} \cup {{n} : n \in Names} :
           CreatePage(role, title, aliases)
    \/ \E p \in draft.pages, name \in Names : GiveAlias(p, name)
    \/ \E to, shown \in Names : AddVariant(to, shown)
    \/ NameFiling \/ EndFiling
    \/ BeginGarden \/ NameLayer \/ EndGarden

NamesSpec == NamesInit /\ [][NamesNext]_nameVars
-----------------------------------------------------------------------------
\* writer.py:1479-1528, aliases.py:77-118: in a layer a name reaches one page, whether a plan gave it
\* with a page or a link showed it; only an update may give an entity the name of a note.
NameReachesOnePage ==
    given = 0 =>
        \A p, q \in named : p # q /\ p.zone = q.zone => AnswersTo(p) \cap AnswersTo(q) = {}

\* aliases.py:136-178, layered.py:181-186: a name the report says was accepted is one its entity has
\* on the branch.
AcceptedIsStored ==
    draft.kind = "none" =>
        \A a \in report : \E p \in Seen(named, a[1]) : p.title = a[2].to /\ a[2].shown \in p.aliases

\* writer.py:357-361: while the branch stays as it is, each of the texts that could be a name is
\* asked about within as many gardens as there are.
EveryVariantIsAsked ==
    \A z \in Zones :
        LET found == Candidates(Seen(named, z), z, {v \in variants : v.zone \in {0, z}})
        IN draft.kind = "none" /\ quiet >= Cardinality(found) => \A c \in found : <<z, c>> \in sought

\* What the gardener asks and is told is not lost: an accepted name is stored, and a text that could be
\* a name is asked about sooner or later.
AnswersAreKept ==
    /\ AcceptedIsStored
    /\ EveryVariantIsAsked
-----------------------------------------------------------------------------
(* What the code does not keep, which no run checks (README, section 5) *)

\* aliases.py:80-83, docs/ARCHITECTURE.md:107: a text that is part of a name which another entity
\* gets in the same write becomes a name too.
NoPartOfAnothersName ==
    draft.kind = "none" =>
        \A a \in report : \A q \in EntitiesOf(Seen(named, a[1])) :
            q.title # a[2].to =>
                \A other \in AnswersTo(q) : ~(WordsOf[a[2].shown] \subseteq WordsOf[other])
=============================================================================
