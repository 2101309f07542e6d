------------------------- MODULE WriterPlans_proofs -------------------------
(***************************************************************************)
(* Proofs about the two writes whose contents a model plans, for any number *)
(* of layers, pages, texts and sources and whatever the model answers: the  *)
(* filing of a capture and the deletion of knowledge (FilingLoop), and the  *)
(* recompile of everything derived (Recompile).                            *)
(*                                                                          *)
(* While a sweep is under way the worktree is not sound: FilingInv says of   *)
(* each round that every broken link and citation is explained by something *)
(* that is gone and not yet swept for (Explained), and it follows a plan     *)
(* from the view it was drafted on, through its guards, to the               *)
(* worktree it lands in (Projectable, Landable).  RecompileInv says of the   *)
(* layers that are compiled what they lost (GivenUp), of those to come that  *)
(* they are as they were, and of the desk whose sources back it.             *)
(***************************************************************************)
EXTENDS WriterPlans, TLAPS

-----------------------------------------------------------------------------
(* The filing of a capture and the deletion of knowledge.                             *)

Trees == [Names -> Pages]
Corpora == [Layers -> Trees]
Archives == [Captures -> Layers \cup {None}]
Actions == {"none", "create", "update", "replace", "delete"}
PlanType ==
    [change : [Names -> [action : Actions, body : Pages]], mark : Names \cup {None}, clears : BOOLEAN]
PlanFits(plan, c, t) ==
    plan \in PlanType /\ \A n \in Names : plan.change[n] \in ChangesOf(c, t[n])

Jobs == [pc : {"idle", "plan", "correct", "drop", "fallback", "project", "sweep", "gate"},
         cap : Captures \cup {None}, layer : Layers \cup {None}, plan : PlanType,
         cut : SUBSET Names, gone : SUBSET (Layers \X (Names \cup Captures)), rejected : BOOLEAN]

FilingType ==
    /\ corpus \in Corpora /\ archived \in Archives /\ settled \in SUBSET Captures
    /\ deletes \in 0 .. MaxDeletes
    /\ work \in [pages : Corpora, sources : Archives] /\ tree \in Trees /\ job \in Jobs

\* What a repository has of a link and of a citation on a page of layer l.
Reaches(pages, l, n) == pages[l][n] # NoPage \/ pages[Public][n] # NoPage
Backs(sources, l, c) == sources[c] = l \/ sources[c] = Public

\* Every live link and every citation is right, or one of what is gone explains why it is not.
Explained(pages, sources, gone) ==
    \A l \in Layers, n \in Names : \A u \in pages[l][n] :
        /\ u[2] => Reaches(pages, l, LinkOf[u[1]]) \/ LinkOf[u[1]] \in InScope(l, gone)
        /\ Cites[u[1]] # None =>
              Backs(sources, l, Cites[u[1]]) \/ Cites[u[1]] \in InScope(l, gone)

Sound(pages, sources) ==
    \A l \in Layers, n \in Names : \A u \in pages[l][n] :
        /\ u[2] => Reaches(pages, l, LinkOf[u[1]])
        /\ Cites[u[1]] # None => Backs(sources, l, Cites[u[1]])

PublicSound(pages, sources) ==
    \A n \in Names : \A u \in pages[Public][n] :
        /\ u[2] => pages[Public][LinkOf[u[1]]] # NoPage
        /\ Cites[u[1]] # None => sources[Cites[u[1]]] = Public

\* What a view keeps of the cited texts of another, and what it may say.
Keeps(before, after, c, cut) ==
    \A n \in Names \ cut : \A u \in Cited(before[n]) :
        u[1] = Resolves[c] \/ u[1] \in TextsOf(after[n])
Says(before, after, c) ==
    \A n \in Names : \A u \in after[n] : Cites[u[1]] \in {c, None} \/ u[1] \in TextsOf(before[n])

\* The view that is projected.
Projectable ==
    /\ job.rejected => tree = Snapshot
    /\ Keeps(Snapshot, tree, job.cap, job.cut)
    /\ job.layer = Public => DeadLinks(tree) = {} /\ Says(Snapshot, tree, job.cap)

\* The worktree of a capture after its projection.
Landable ==
    /\ job.rejected => work.pages = corpus /\ job.gone = {}
    /\ job.gone \subseteq Layers \X Names
    /\ job.layer # Public => /\ job.gone = {}
                             /\ \A l \in Layers \ {job.layer} : work.pages[l] = corpus[l]
    /\ job.layer = Public =>
          /\ PublicSound(work.pages, work.sources)
          /\ \A l \in Layers \ {Public}, n \in Names :
                 TextsOf(work.pages[l][n]) = TextsOf(corpus[l][n])
    /\ \A l \in Layers : Keeps(corpus[l], View(work.pages, l), job.cap, job.cut)

CaptureInv ==
    job.cap # None =>
        /\ job.layer \in Layers /\ job.cap \notin settled /\ job.pc # "idle"
        /\ work.sources = [archived EXCEPT ![job.cap] = job.layer]
        /\ job.pc \notin {"sweep", "gate"} => work.pages = corpus /\ job.gone = {}
        /\ job.pc \in {"plan", "correct", "drop"} => ~job.rejected
        /\ job.pc = "plan" => tree = Snapshot
        /\ job.pc = "drop" => PlanFits(job.plan, job.cap, Snapshot)
        /\ job.pc = "project" => Projectable
        /\ job.pc \in {"sweep", "gate"} => Landable

DeletionInv ==
    job.cap = None =>
        /\ job.pc \in {"idle", "sweep", "gate"} /\ job.layer = None /\ ~job.rejected
        /\ \A c \in Captures : job.pc # "idle" => work.sources[c] \in {archived[c], None}

SweepInv ==
    /\ job.pc \in {"sweep", "gate"} /\ job.layer \in {None, Public} =>
           Explained(work.pages, work.sources, job.gone)
    /\ job.pc = "gate" => job.gone = {}

FilingInv ==
    /\ FilingType
    /\ Sound(corpus, archived)
    /\ \A c \in Captures : archived[c] # None => c \in settled
    /\ CaptureInv /\ DeletionInv /\ SweepInv

-----------------------------------------------------------------------------
\* What a unit is made of.
LEMMA UnitFacts ==
    /\ \A u \in Units : /\ u[1] \in Texts /\ u[2] \in BOOLEAN /\ u = <<u[1], u[2]>>
                        /\ u[2] => LinkOf[u[1]] \in Names
                        /\ Cites[u[1]] \in Captures \cup {None}
    /\ \A t \in Texts : <<t, FALSE>> \in Units
    /\ \A t \in Texts, b \in BOOLEAN : (b => LinkOf[t] # None) => <<t, b>> \in Units
<1>1. \A u \in Units : /\ u[1] \in Texts /\ u[2] \in BOOLEAN /\ u = <<u[1], u[2]>>
                       /\ u[2] => LinkOf[u[1]] # None
  BY DEF Units
<1>2. \A t \in Texts, b \in BOOLEAN : (b => LinkOf[t] # None) => <<t, b>> \in Units
  BY DEF Units
<1> HIDE DEF Units
<1> QED
  BY <1>1, <1>2, FilingAssumption

\* A unit whose link is made plain text, or left, is a unit of the same text.
LEMMA SameTextOrDead ==
    ASSUME NEW u \in Units, NEW b
    PROVE  <<u[1], u[2] /\ b>> \in Units /\ <<u[1], u[2] /\ b>>[1] = u[1]
           /\ (<<u[1], u[2] /\ b>>[2] <=> u[2] /\ b)
<1>1. u[1] \in Texts /\ u[2] \in BOOLEAN /\ (u[2] => LinkOf[u[1]] # None)
  BY DEF Units
<1>2. CASE u[2] /\ b
  <2>1. (u[2] /\ b) = TRUE
    BY <1>2
  <2> QED
    BY <1>1, <1>2, <2>1, UnitFacts
<1>3. CASE ~(u[2] /\ b)
  <2>1. (u[2] /\ b) = FALSE
    BY <1>3
  <2> QED
    BY <1>1, <1>3, <2>1, UnitFacts
<1> QED
  BY <1>2, <1>3

\* A page is a set of units.
LEMMA PageFacts ==
    ASSUME NEW page \in Pages
    PROVE  page \subseteq Units /\ NoPage \in Pages
  BY DEF Pages, NoPage

\* So is each page of a tree.
LEMMA TreeFacts ==
    ASSUME NEW t \in Trees
    PROVE  /\ \A n \in Names : t[n] \in Pages
           /\ \A n \in Names : \A u \in t[n] : u \in Units
  BY DEF Trees, Pages

\* And each page of each layer of a repository.
LEMMA CorpusFacts ==
    ASSUME NEW pages \in Corpora
    PROVE  /\ \A l \in Layers : pages[l] \in Trees
           /\ \A l \in Layers, n \in Names : \A u \in pages[l][n] : u \in Units
  BY TreeFacts DEF Corpora

\* A view has the units of public and of its layer, and the pages that either has.
LEMMA ViewFacts ==
    ASSUME NEW pages \in Corpora, NEW l \in Layers
    PROVE  /\ View(pages, l) \in Trees
           /\ \A n \in Names : View(pages, l)[n] = pages[Public][n] \cup pages[l][n]
           /\ \A m : m \in Living(View(pages, l)) <=> m \in Names /\ Reaches(pages, l, m)
<1>1. \A n \in Names : View(pages, l)[n] = pages[Public][n] \cup pages[l][n]
  BY DEF View
<1>2. View(pages, l) \in Trees
  <2>1. \A n \in Names : pages[Public][n] \cup pages[l][n] \in Pages
    BY CorpusFacts, FilingAssumption, TreeFacts DEF Pages
  <2> QED
    BY <2>1 DEF View, Trees
<1>3. \A m : m \in Living(View(pages, l)) <=> m \in Names /\ Reaches(pages, l, m)
  BY <1>1 DEF Living, Reaches, NoPage
<1> QED
  BY <1>1, <1>2, <1>3

\* Of public, the view is public itself.
LEMMA PublicView ==
    ASSUME NEW pages \in Corpora
    PROVE  View(pages, Public) = pages[Public]
<1>1. pages[Public] \in [Names -> Pages]
  BY FilingAssumption DEF Corpora, Trees
<1>2. \A n \in Names : View(pages, Public)[n] = pages[Public][n]
  <2>1. \A p : p \cup p = p
    OBVIOUS
  <2>2. \A n \in Names : View(pages, Public)[n] = pages[Public][n] \cup pages[Public][n]
    BY DEF View
  <2> QED
    BY <2>1, <2>2
<1>3. View(pages, Public) = [n \in Names |-> pages[Public][n]]
  BY DEF View
<1> QED
  BY <1>1, <1>3

\* A repository is sound when the checks find nothing wrong, and when nothing has to be explained.
LEMMA SoundIsNoViolation ==
    ASSUME NEW pages \in Corpora, NEW sources
    PROVE  /\ Violations(pages, sources) = {} <=> Sound(pages, sources)
           /\ Explained(pages, sources, {}) <=> Sound(pages, sources)
<1>1. \A l \in Layers, n \in Names : \A u \in pages[l][n] :
         u \in Units /\ (u[2] => LinkOf[u[1]] \in Names)
  BY CorpusFacts, UnitFacts
<1>2. \A v \in Layers \X Names \X Units :
        v \in Violations(pages, sources) <=>
          /\ v[3] \in pages[v[1]][v[2]]
          /\ ~ /\ v[3][2] => Reaches(pages, v[1], LinkOf[v[3][1]])
               /\ Cites[v[3][1]] # None => Backs(sources, v[1], Cites[v[3][1]])
  <2> SUFFICES ASSUME NEW v \in Layers \X Names \X Units
               PROVE  v \in Violations(pages, sources) <=>
                        /\ v[3] \in pages[v[1]][v[2]]
                        /\ ~ /\ v[3][2] => Reaches(pages, v[1], LinkOf[v[3][1]])
                             /\ Cites[v[3][1]] # None => Backs(sources, v[1], Cites[v[3][1]])
    OBVIOUS
  <2>1. v[1] \in Layers /\ v[2] \in Names /\ v[3] \in Units
    OBVIOUS
  <2>2. v[3][2] => (LinkOf[v[3][1]] \in Living(View(pages, v[1]))
                      <=> Reaches(pages, v[1], LinkOf[v[3][1]]))
    BY <2>1, UnitFacts, ViewFacts
  <2> QED
    BY <2>1, <2>2 DEF Violations, Backs
<1>3. Violations(pages, sources) \subseteq Layers \X Names \X Units
  BY DEF Violations
<1>4. ASSUME Sound(pages, sources) PROVE Violations(pages, sources) = {}
  BY <1>2, <1>3, <1>4 DEF Sound
<1>5. ASSUME Violations(pages, sources) = {} PROVE Sound(pages, sources)
  <2> SUFFICES ASSUME NEW l \in Layers, NEW n \in Names, NEW u \in pages[l][n]
               PROVE  /\ u[2] => Reaches(pages, l, LinkOf[u[1]])
                      /\ Cites[u[1]] # None => Backs(sources, l, Cites[u[1]])
    BY DEF Sound
  <2>1. <<l, n, u>> \in Layers \X Names \X Units
    BY <1>1
  <2> QED
    BY <2>1, <1>2, <1>5
<1>6. \A l : InScope(l, {}) = {}
  BY DEF InScope
<1>7. Explained(pages, sources, {}) <=> Sound(pages, sources)
  BY <1>6 DEF Explained, Sound
<1> QED
  BY <1>4, <1>5, <1>7

-----------------------------------------------------------------------------
\* What is left of a page that is swept.
LEMMA SweptFacts ==
    ASSUME NEW page \in Pages, NEW names, NEW sources
    PROVE  LET left == Swept(page, names, sources)
           IN /\ left \in Pages
              /\ \A v \in left : \E u \in page : /\ v[1] = u[1] /\ Cites[u[1]] \notin sources
                                                 /\ v[2] => u[2] /\ LinkOf[u[1]] \notin names
              /\ \A u \in page : Cites[u[1]] \notin sources => u[1] \in TextsOf(left)
              /\ page = {} => left = {}
<1> DEFINE left == Swept(page, names, sources)
           kept == {u \in page : Cites[u[1]] \notin sources}
           V(u) == <<u[1], u[2] /\ LinkOf[u[1]] \notin names>>
<1>1. left = {V(u) : u \in kept}
  BY DEF Swept
<1>2. kept \subseteq page /\ page \subseteq Units /\ \A u \in kept : Cites[u[1]] \notin sources
  BY DEF Pages
<1>3. \A u \in Units : /\ V(u) \in Units /\ V(u)[1] = u[1]
                       /\ (V(u)[2] <=> u[2] /\ LinkOf[u[1]] \notin names)
  BY SameTextOrDead
<1>4. \A u \in page : Cites[u[1]] \notin sources => u \in kept
  OBVIOUS
<1> HIDE DEF V, kept, left
<1>5. left \in Pages
  BY <1>1, <1>2, <1>3 DEF Pages
<1>6. \A v \in left : \E u \in page : /\ v[1] = u[1] /\ Cites[u[1]] \notin sources
                                      /\ v[2] => u[2] /\ LinkOf[u[1]] \notin names
  BY <1>1, <1>2, <1>3
<1>7. ASSUME NEW u \in page, Cites[u[1]] \notin sources PROVE u[1] \in TextsOf(left)
  <2>1. V(u) \in left /\ V(u)[1] = u[1]
    BY <1>1, <1>2, <1>3, <1>4, <1>7
  <2> QED
    BY <2>1 DEF TextsOf
<1>8. page = {} => left = {}
  BY <1>6
<1> QED
  BY <1>5, <1>6, <1>7, <1>8 DEF left

\* One round: public first, unless it is left alone, and each other layer over it.
LEMMA RoundFacts ==
    ASSUME NEW pages \in Corpora, NEW gone, NEW layersOnly \in BOOLEAN
    PROVE  LET after == Round(gone, pages, layersOnly)
           IN /\ after \in Corpora
              /\ layersOnly => after[Public] = pages[Public]
              /\ ~layersOnly => \A n \in Names :
                     after[Public][n] = Swept(pages[Public][n], DeadNames(Public, gone, pages),
                                              DeadSources(Public, gone))
              /\ \A l \in Layers \ {Public}, n \in Names : \E f \in Corpora :
                     /\ f[Public] = after[Public] /\ f[l] = pages[l]
                     /\ after[l][n] = Swept(pages[l][n], DeadNames(l, gone, f), DeadSources(l, gone))
<1> DEFINE after == Round(gone, pages, layersOnly)
           Sw(l, p) == [n \in Names |-> Swept(pages[l][n], DeadNames(l, gone, p), DeadSources(l, gone))]
           first == IF layersOnly THEN pages ELSE SweepLayer(Public, gone, pages)
<1>0. Public \in Layers
  BY FilingAssumption
<1>1. \A l \in Layers : \A p : Sw(l, p) \in Trees
  <2> SUFFICES ASSUME NEW l \in Layers, NEW p
               PROVE  Sw(l, p) \in Trees
    OBVIOUS
  <2>1. \A n \in Names : Swept(pages[l][n], DeadNames(l, gone, p), DeadSources(l, gone)) \in Pages
    BY CorpusFacts, TreeFacts, SweptFacts
  <2> QED
    BY <2>1 DEF Trees
<1>2. SweepLayer(Public, gone, pages) = [pages EXCEPT ![Public] = Sw(Public, pages)]
  BY DEF SweepLayer
<1>3. first \in Corpora /\ (\A l \in Layers \ {Public} : first[l] = pages[l])
      /\ (layersOnly => first[Public] = pages[Public])
      /\ (~layersOnly => first[Public] = Sw(Public, pages))
  <2>1. Sw(Public, pages) \in Trees
    BY <1>0, <1>1
  <2> HIDE DEF Sw
  <2> QED
    BY <1>0, <1>2, <2>1 DEF Corpora
<1> HIDE DEF first
<1>4. \A l \in Layers \ {Public} : SweepLayer(l, gone, first)[l] = Sw(l, first)
  <2> SUFFICES ASSUME NEW l \in Layers \ {Public}
               PROVE  SweepLayer(l, gone, first)[l] = Sw(l, first)
    OBVIOUS
  <2>1. SweepLayer(l, gone, first)[l] =
            [n \in Names |-> Swept(first[l][n], DeadNames(l, gone, first), DeadSources(l, gone))]
    BY <1>3 DEF SweepLayer, Corpora
  <2> QED
    BY <2>1, <1>3
<1>5. after = [l \in Layers |-> IF l = Public THEN first[Public] ELSE SweepLayer(l, gone, first)[l]]
  BY DEF Round, first
<1> HIDE DEF after
<1>6. after[Public] = first[Public] /\ \A l \in Layers \ {Public} : after[l] = Sw(l, first)
  BY <1>0, <1>4, <1>5
<1>7. after \in Corpora
  <2>1. \A l \in Layers :
           (IF l = Public THEN first[Public] ELSE SweepLayer(l, gone, first)[l]) \in Trees
    <3> HIDE DEF Sw
    <3>1. first[Public] \in Trees
      BY <1>0, <1>3, CorpusFacts
    <3> QED
      BY <1>1, <1>4, <3>1
  <2> QED
    BY <1>5, <2>1 DEF Corpora
<1>8. ASSUME NEW l \in Layers \ {Public}, NEW n \in Names
      PROVE  /\ first[Public] = after[Public] /\ first[l] = pages[l]
             /\ after[l][n] = Swept(pages[l][n], DeadNames(l, gone, first), DeadSources(l, gone))
  BY <1>3, <1>6
<1>9. /\ layersOnly => after[Public] = pages[Public]
      /\ ~layersOnly => \A n \in Names :
             after[Public][n] = Swept(pages[Public][n], DeadNames(Public, gone, pages),
                                      DeadSources(Public, gone))
  BY <1>3, <1>6
<1>10. \A l \in Layers \ {Public}, n \in Names : \E f \in Corpora :
           /\ f[Public] = after[Public] /\ f[l] = pages[l]
           /\ after[l][n] = Swept(pages[l][n], DeadNames(l, gone, f), DeadSources(l, gone))
  BY <1>3, <1>8
<1> HIDE DEF Sw
<1> QED
  BY <1>7, <1>9, <1>10 DEF after

\* One page of a round: what it is swept of are names and sources that are gone, and it is swept of
\* every name that public, or the layer as it was, does not reach.
LEMMA RoundPage ==
    ASSUME NEW pages \in Corpora, NEW gone, NEW layersOnly \in BOOLEAN,
           NEW after, after = Round(gone, pages, layersOnly),
           NEW l \in Layers, NEW n \in Names, ~(l = Public /\ layersOnly)
    PROVE  \E names : /\ after[l][n] = Swept(pages[l][n], names, DeadSources(l, gone))
                      /\ names \subseteq InScope(l, gone)
                      /\ \A m \in InScope(l, gone) \cap Names : ~Reaches(pages, l, m) => m \in names
<1>1. CASE l = Public
  <2>1. after[l][n] = Swept(pages[l][n], DeadNames(l, gone, pages), DeadSources(l, gone))
    BY <1>1, RoundFacts
  <2>2. \A m \in Names : m \in Living(View(pages, l)) <=> Reaches(pages, l, m)
    BY ViewFacts
  <2> QED
    BY <2>1, <2>2 DEF DeadNames
<1>2. CASE l # Public
  <2>1. PICK first \in Corpora :
            /\ first[Public] = after[Public] /\ first[l] = pages[l]
            /\ after[l][n] = Swept(pages[l][n], DeadNames(l, gone, first), DeadSources(l, gone))
    BY <1>2, RoundFacts
  <2>2. \A m \in Names : m \in Living(View(first, l)) <=> Reaches(first, l, m)
    BY ViewFacts
  <2>3. \A m \in Names : pages[Public][m] = {} => after[Public][m] = {}
    BY RoundFacts, SweptFacts, CorpusFacts, TreeFacts, FilingAssumption
  <2>4. \A m \in Names : ~Reaches(pages, l, m) => ~Reaches(first, l, m)
    BY <2>1, <2>3 DEF Reaches, NoPage
  <2> QED
    BY <2>1, <2>2, <2>4 DEF DeadNames
<1> QED
  BY <1>1, <1>2

\* What a round leaves is explained by the pages it emptied.
LEMMA RoundExplained ==
    ASSUME NEW pages \in Corpora, NEW gone, NEW layersOnly \in BOOLEAN,
           NEW after, after = Round(gone, pages, layersOnly), NEW sources,
           Explained(pages, sources, gone), layersOnly => PublicSound(pages, sources)
    PROVE  /\ Explained(after, sources, Emptied(pages, after))
           /\ layersOnly => PublicSound(after, sources)
<1>0. after \in Corpora /\ (layersOnly => after[Public] = pages[Public])
  BY RoundFacts
<1> DEFINE empty == Emptied(pages, after)
<1>1. ASSUME NEW l \in Layers, NEW m \in Names, Reaches(pages, l, m), ~Reaches(after, l, m)
      PROVE  m \in InScope(l, empty)
  <2>1. PICK k \in {l, Public} : pages[k][m] # NoPage /\ after[k][m] = NoPage
    BY <1>1 DEF Reaches
  <2>2. <<k, m>> \in empty
    BY <2>1, FilingAssumption DEF Emptied
  <2> QED
    BY <2>2 DEF InScope
<1> HIDE DEF empty
<1>2. ASSUME layersOnly PROVE PublicSound(after, sources)
  BY <1>0, <1>2 DEF PublicSound
<1>3. ASSUME NEW l \in Layers, NEW n \in Names, NEW v \in after[l][n]
      PROVE  /\ v[2] => Reaches(after, l, LinkOf[v[1]]) \/ LinkOf[v[1]] \in InScope(l, empty)
             /\ Cites[v[1]] # None =>
                    Backs(sources, l, Cites[v[1]]) \/ Cites[v[1]] \in InScope(l, empty)
  <2>1. CASE l = Public /\ layersOnly
    BY <1>2, <1>3, <2>1 DEF PublicSound, Reaches, Backs
  <2>2. CASE ~(l = Public /\ layersOnly)
    <3>1. PICK names : /\ after[l][n] = Swept(pages[l][n], names, DeadSources(l, gone))
                       /\ \A m \in InScope(l, gone) \cap Names : ~Reaches(pages, l, m) => m \in names
      BY <2>2, RoundPage
    <3>2. pages[l][n] \in Pages
      BY CorpusFacts, TreeFacts
    <3>3. PICK u \in pages[l][n] : /\ v[1] = u[1] /\ Cites[u[1]] \notin DeadSources(l, gone)
                                   /\ v[2] => u[2] /\ LinkOf[u[1]] \notin names
      BY <1>3, <3>1, <3>2, SweptFacts
    <3>4. u \in Units
      BY <3>2 DEF Pages
    <3>5. /\ u[2] => Reaches(pages, l, LinkOf[u[1]]) \/ LinkOf[u[1]] \in InScope(l, gone)
          /\ Cites[u[1]] # None =>
                 Backs(sources, l, Cites[u[1]]) \/ Cites[u[1]] \in InScope(l, gone)
      BY DEF Explained
    <3>6. Cites[u[1]] # None => Backs(sources, l, Cites[u[1]])
      BY <3>3, <3>4, <3>5, UnitFacts DEF DeadSources
    <3>7. ASSUME v[2] PROVE Reaches(after, l, LinkOf[u[1]]) \/ LinkOf[u[1]] \in InScope(l, empty)
      <4>1. LinkOf[u[1]] \in Names /\ LinkOf[u[1]] \notin names
        BY <3>3, <3>4, <3>7, UnitFacts
      <4>2. Reaches(pages, l, LinkOf[u[1]])
        BY <3>1, <3>3, <3>5, <3>7, <4>1
      <4> QED
        BY <1>1, <4>1, <4>2
    <3> QED
      BY <3>3, <3>6, <3>7
  <2> QED
    BY <2>1, <2>2
<1>4. Explained(after, sources, empty)
  BY <1>3 DEF Explained
<1> QED
  BY <1>2, <1>4 DEF empty

\* A round of names alone keeps every text, and empties no page; one over the layers alone keeps
\* what it leaves out.
LEMMA RoundKeepsTexts ==
    ASSUME NEW pages \in Corpora, NEW gone, NEW layersOnly \in BOOLEAN,
           NEW after, after = Round(gone, pages, layersOnly), gone \subseteq Layers \X Names,
           NEW l \in Layers, NEW n \in Names
    PROVE  TextsOf(after[l][n]) = TextsOf(pages[l][n])
<1>1. CASE l = Public /\ layersOnly
  BY <1>1, RoundFacts
<1>2. CASE ~(l = Public /\ layersOnly)
  <2>1. PICK names : after[l][n] = Swept(pages[l][n], names, DeadSources(l, gone))
    BY <1>2, RoundPage
  <2>2. DeadSources(l, gone) = {}
    BY FilingAssumption DEF DeadSources, InScope
  <2>3. pages[l][n] \in Pages
    BY CorpusFacts, TreeFacts
  <2> QED
    BY <2>1, <2>2, <2>3, SweptFacts DEF TextsOf
<1> QED
  BY <1>1, <1>2

\* Two pages of the same texts are both there or both gone.
LEMMA SameTexts ==
    ASSUME NEW before \in Pages, NEW after \in Pages, TextsOf(after) = TextsOf(before)
    PROVE  after = NoPage <=> before = NoPage
  BY DEF TextsOf, NoPage

-----------------------------------------------------------------------------
\* What a plan may say of a page.
LEMMA SayableFacts ==
    ASSUME NEW c \in Captures, NEW page \in Pages, NEW u \in Sayable(c, page)
    PROVE  u \in Units /\ (Cites[u[1]] \in {c, None} \/ u \in page)
<1>1. CASE u \in page
  BY <1>1 DEF Pages
<1>2. CASE u \notin page
  <2>1. PICK t \in Texts : Cites[t] \in {c, None} /\ u = <<t, LinkOf[t] # None>>
    BY <1>2 DEF Sayable
  <2>2. u \in Units
    BY <2>1, UnitFacts
  <2> QED
    BY <2>1, <2>2
<1> QED
  BY <1>1, <1>2

\* What a plan may change a page into.
LEMMA ChangeFacts ==
    ASSUME NEW c \in Captures, NEW page \in Pages, NEW change \in ChangesOf(c, page)
    PROVE  /\ change.action \in Actions /\ change.body \in Pages
           /\ change.body \subseteq Sayable(c, page)
           /\ change \in [action : Actions, body : Pages]
<1>1. Sayable(c, page) \subseteq Units
  BY SayableFacts
<1>2. NoChange.action = "none" /\ NoChange.body = {} /\ NoChange \in [action : Actions, body : Pages]
  BY DEF NoChange, NoPage, Actions, Pages
<1>3. CASE change = NoChange
  BY <1>2, <1>3 DEF Actions, Pages
<1>4. CASE change = [action |-> "delete", body |-> NoPage]
  BY <1>4 DEF Actions, Pages, NoPage
<1>5. CASE change \in [action : {"create", "update", "replace"},
                       body : (SUBSET Sayable(c, page)) \ {NoPage}]
  BY <1>1, <1>5 DEF Actions, Pages
<1> QED
  BY <1>3, <1>4, <1>5 DEF ChangesOf

\* The answers of the model are plans that fit the view.
LEMMA PlansFit ==
    ASSUME NEW c \in Captures, NEW t \in Trees, NEW plan \in Plans(c, t)
    PROVE  PlanFits(plan, c, t)
<1> DEFINE changes == [n \in Names |-> ChangesOf(c, t[n])]
           all == {f \in [Names -> UNION {changes[n] : n \in Names}] :
                     \A n \in Names : f[n] \in changes[n]}
<1>1. plan \in [change : all, mark : Names \cup {None},
                clears : IF Resolves[c] = None THEN {FALSE} ELSE BOOLEAN]
  BY DEF Plans
<1>2. \A f \in all : /\ DOMAIN f = Names /\ f = [n \in Names |-> f[n]]
                     /\ \A n \in Names : f[n] \in ChangesOf(c, t[n])
  OBVIOUS
<1> HIDE DEF all
<1>3. plan.change \in all /\ plan.mark \in Names \cup {None} /\ plan.clears \in BOOLEAN
      /\ plan = [change |-> plan.change, mark |-> plan.mark, clears |-> plan.clears]
  BY <1>1
<1>4. \A n \in Names : plan.change[n] \in [action : Actions, body : Pages]
  BY <1>2, <1>3, ChangeFacts, TreeFacts
<1>5. plan.change \in [Names -> [action : Actions, body : Pages]]
  BY <1>2, <1>3, <1>4
<1>6. plan \in PlanType
  BY <1>3, <1>5 DEF PlanType
<1> QED
  BY <1>2, <1>3, <1>6 DEF PlanFits

\* The parts of a plan.
LEMMA PlanParts ==
    ASSUME NEW c, NEW t, NEW plan, PlanFits(plan, c, t)
    PROVE  /\ plan.change \in [Names -> [action : Actions, body : Pages]]
           /\ plan.mark \in Names \cup {None} /\ plan.clears \in BOOLEAN
           /\ plan \in PlanType
           /\ \A n \in Names : plan.change[n] \in ChangesOf(c, t[n])
  BY DEF PlanFits, PlanType

\* A plan fits without one of its changes.
LEMMA WithoutFits ==
    ASSUME NEW c, NEW t, NEW plan, PlanFits(plan, c, t), NEW n \in Names
    PROVE  PlanFits(Without(plan, n), c, t)
<1>1. Without(plan, n) = [plan EXCEPT !.change = [plan.change EXCEPT ![n] = NoChange]]
  BY DEF Without
<1>2. NoChange \in [action : Actions, body : Pages] /\ \A m : NoChange \in ChangesOf(c, t[m])
  BY DEF NoChange, Actions, Pages, NoPage, ChangesOf
<1> DEFINE change == [plan.change EXCEPT ![n] = NoChange]
<1>3. change \in [Names -> [action : Actions, body : Pages]]
      /\ \A m \in Names : change[m] = plan.change[m] \/ change[m] = NoChange
  BY <1>2, PlanParts
<1> HIDE DEF change
<1>4. Without(plan, n) \in PlanType /\ Without(plan, n).change = change
  BY <1>1, <1>3, PlanParts DEF PlanType, change
<1> QED
  BY <1>2, <1>3, <1>4, PlanParts DEF PlanFits

\* What is written of a page.
LEMMA BodyFacts ==
    ASSUME NEW c \in Captures, NEW t \in Trees, NEW plan, PlanFits(plan, c, t), NEW n \in Names
    PROVE  /\ Body(plan, t, n) \in Pages
           /\ \A u \in Body(plan, t, n) : Cites[u[1]] \in {c, None} \/ u[1] \in TextsOf(t[n])
<1> DEFINE body == Resolved(plan, t, plan.change[n].body)
           L(u) == LinkOf[u[1]] \in Living(t) \cup Made(plan)
<1>1. t[n] \in Pages /\ plan.change[n].body \in Pages /\ plan.change[n].body \subseteq Sayable(c, t[n])
  BY ChangeFacts, PlanParts, TreeFacts
<1>2. body = {<<u[1], u[2] /\ L(u)>> : u \in plan.change[n].body}
  BY DEF Resolved
<1> HIDE DEF L
<1>3. \A u \in plan.change[n].body :
         /\ <<u[1], u[2] /\ L(u)>> \in Units /\ <<u[1], u[2] /\ L(u)>>[1] = u[1]
         /\ Cites[u[1]] \in {c, None} \/ u[1] \in TextsOf(t[n])
  <2> SUFFICES ASSUME NEW u \in plan.change[n].body
               PROVE  /\ <<u[1], u[2] /\ L(u)>> \in Units /\ <<u[1], u[2] /\ L(u)>>[1] = u[1]
                      /\ Cites[u[1]] \in {c, None} \/ u[1] \in TextsOf(t[n])
    OBVIOUS
  <2>1. u \in Units
    BY <1>1 DEF Pages
  <2> QED
    BY <1>1, <2>1, SameTextOrDead, SayableFacts DEF TextsOf
<1> HIDE DEF body
<1>4. \A v \in body : v \in Units /\ (Cites[v[1]] \in {c, None} \/ v[1] \in TextsOf(t[n]))
  BY <1>2, <1>3
<1>5. \A v \in Marks(t[n]) : v \in Units /\ v[1] \in TextsOf(t[n])
  BY <1>1 DEF Marks, TextsOf, Pages
<1>6. Body(plan, t, n) \subseteq body \cup Marks(t[n])
  BY DEF Body, body
<1> QED
  BY <1>4, <1>5, <1>6 DEF Pages

\* What is left in the view by some of the changes of a plan.
LEMMA MutatedFacts ==
    ASSUME NEW c \in Captures, NEW t \in Trees, NEW plan, PlanFits(plan, c, t), NEW done
    PROVE  /\ Mutated(plan, t, done) \in Trees
           /\ \A n \in Names : Mutated(plan, t, done)[n] = IF n \in done THEN Body(plan, t, n) ELSE t[n]
           /\ Says(t, Mutated(plan, t, done), c)
<1>1. \A n \in Names : Mutated(plan, t, done)[n] = IF n \in done THEN Body(plan, t, n) ELSE t[n]
  BY DEF Mutated
<1>2. \A n \in Names : (IF n \in done THEN Body(plan, t, n) ELSE t[n]) \in Pages
  BY BodyFacts, TreeFacts
<1>3. Mutated(plan, t, done) \in Trees
  BY <1>2 DEF Mutated, Trees
<1>4. Says(t, Mutated(plan, t, done), c)
  BY <1>1, BodyFacts DEF Says, TextsOf
<1> QED
  BY <1>1, <1>3, <1>4

\* A callout that is recorded adds to its page.
LEMMA MarkedFacts ==
    ASSUME NEW c \in Captures, NEW t \in Trees, NEW before, Says(before, t, c), NEW plan,
           plan.mark \in Names \cup {None}
    PROVE  /\ Marked(plan, c, t) \in Trees /\ Says(before, Marked(plan, c, t), c)
           /\ \A n \in Names : t[n] \subseteq Marked(plan, c, t)[n]
<1>1. \A u \in MarkOf(c) : u \in Units /\ Cites[u[1]] = c
  <2>1. \A k \in Callouts : k \in Texts /\ <<k, FALSE>> \in Units
    BY UnitFacts, FilingAssumption
  <2> SUFFICES ASSUME NEW u \in MarkOf(c) PROVE u \in Units /\ Cites[u[1]] = c
    OBVIOUS
  <2>2. PICK k \in Callouts : Cites[k] = c /\ u = <<k, FALSE>>
    BY DEF MarkOf
  <2>3. u \in Units /\ u[1] = k
    BY <2>1, <2>2
  <2> QED
    BY <2>2, <2>3
<1>2. CASE plan.mark = None
  BY <1>2 DEF Marked
<1>3. CASE plan.mark # None
  <2>1. /\ plan.mark \in Names
        /\ Marked(plan, c, t) = [t EXCEPT ![plan.mark] = t[plan.mark] \cup MarkOf(c)]
    BY <1>3 DEF Marked
  <2>2. t[plan.mark] \cup MarkOf(c) \in Pages
    BY <1>1, <2>1, TreeFacts DEF Pages
  <2>3. \A n \in Names : Marked(plan, c, t)[n] = IF n = plan.mark THEN t[n] \cup MarkOf(c) ELSE t[n]
    BY <2>1 DEF Trees
  <2>4. Marked(plan, c, t) \in Trees
    BY <2>1, <2>2 DEF Trees
  <2>5. Says(before, Marked(plan, c, t), c)
    BY <1>1, <2>3 DEF Says
  <2> QED
    BY <2>3, <2>4, <2>5
<1> QED
  BY <1>2, <1>3

\* A callout that is cleared takes its text away and nothing else.
LEMMA ClearedFacts ==
    ASSUME NEW c \in Captures, NEW t \in Trees, NEW before, Says(before, t, c)
    PROVE  /\ Cleared(c, t) \in Trees /\ Says(before, Cleared(c, t), c)
           /\ \A n \in Names : \A u \in t[n] : u[1] = Resolves[c] \/ u \in Cleared(c, t)[n]
<1>1. \A n \in Names : Cleared(c, t)[n] = {u \in t[n] : u[1] # Resolves[c]}
  BY DEF Cleared
<1>2. Cleared(c, t) \in Trees
  <2>1. \A n \in Names : {u \in t[n] : u[1] # Resolves[c]} \in Pages
    BY TreeFacts DEF Pages
  <2> QED
    BY <2>1 DEF Cleared, Trees
<1>3. Says(before, Cleared(c, t), c)
  BY <1>1 DEF Says
<1> QED
  BY <1>1, <1>2, <1>3

\* An update that loses nothing, a creation of a page that is not there, and every page without a
\* change keep what is cited.
LEMMA NothingIsLost ==
    ASSUME NEW c \in Captures, NEW t \in Trees, NEW plan, PlanFits(plan, c, t), NEW n \in Names,
           n \notin Cuts(plan), n \in Changed(plan), ~Impossible(plan, t, n), ~Loses(plan, t, n)
    PROVE  Cited(t[n]) \subseteq Body(plan, t, n)
<1>1. plan.change[n].action \in Actions
  BY ChangeFacts, PlanParts, TreeFacts
<1>2. plan.change[n].action \in {"create", "update"}
  BY <1>1 DEF Cuts, Changed, Actions
<1>3. CASE plan.change[n].action = "update"
  BY <1>3 DEF Loses
<1>4. CASE plan.change[n].action = "create"
  <2>1. Impossible(plan, t, n) <=> (t[n] # NoPage \/ Marks(plan.change[n].body) # {})
    BY <1>4 DEF Impossible
  <2> QED
    BY <2>1 DEF Cited, NoPage
<1> QED
  BY <1>2, <1>3, <1>4

\* What a plan leaves in the view; what one that is applied whole may say, and what it keeps.
LEMMA AppliedFacts ==
    ASSUME NEW c \in Captures, NEW t \in Trees, NEW plan, PlanFits(plan, c, t),
           NEW out \in Applied(plan, c, t)
    PROVE  /\ out[2] \in Trees
           /\ out[1] = "ok" => Says(t, out[2], c) /\ Keeps(t, out[2], c, Cuts(plan))
<1> DEFINE broken == {n \in Names : Impossible(plan, t, n)}
           lossy == {n \in Names : Loses(plan, t, n)}
           sound == Changed(plan) \ (broken \cup lossy)
           whole == Marked(plan, c, Mutated(plan, t, sound))
           final == IF plan.clears THEN Cleared(c, whole) ELSE whole
<1>1. \/ out = <<"ok", final>> /\ broken \cup lossy = {}
      \/ \E done : out = <<"bad", Mutated(plan, t, done)>>
      \/ \E done : out = <<"lossy", Mutated(plan, t, done)>>
  BY DEF Applied
<1>2. /\ whole \in Trees /\ Says(t, whole, c)
      /\ \A n \in Names : Mutated(plan, t, sound)[n] \subseteq whole[n]
  BY MutatedFacts, MarkedFacts, PlanParts
<1>3. \A n \in Names : Mutated(plan, t, sound)[n] = IF n \in sound THEN Body(plan, t, n) ELSE t[n]
  BY MutatedFacts
<1> HIDE DEF whole
<1>4. final \in Trees /\ Says(t, final, c)
      /\ \A n \in Names : \A u \in whole[n] : u[1] = Resolves[c] \/ u \in final[n]
  BY <1>2, ClearedFacts
<1> HIDE DEF final
<1>5. ASSUME broken \cup lossy = {} PROVE Keeps(t, final, c, Cuts(plan))
  <2> SUFFICES ASSUME NEW n \in Names \ Cuts(plan), NEW u \in Cited(t[n])
               PROVE  u[1] = Resolves[c] \/ u[1] \in TextsOf(final[n])
    BY DEF Keeps
  <2>1. n \notin broken /\ n \notin lossy
    BY <1>5
  <2>2. u \in Mutated(plan, t, sound)[n]
    <3>1. CASE n \in Changed(plan)
      BY <1>3, <2>1, <3>1, NothingIsLost
    <3>2. CASE n \notin Changed(plan)
      BY <1>3, <3>2 DEF Cited
    <3> QED
      BY <3>1, <3>2
  <2> QED
    BY <1>2, <1>4, <2>2 DEF TextsOf
<1>6. CASE out = <<"ok", final>> /\ broken \cup lossy = {}
  BY <1>4, <1>5, <1>6
<1>7. CASE \E done : out = <<"bad", Mutated(plan, t, done)>>
  BY <1>7, MutatedFacts
<1>8. CASE \E done : out = <<"lossy", Mutated(plan, t, done)>>
  BY <1>8, MutatedFacts
<1> QED
  BY <1>1, <1>6, <1>7, <1>8

-----------------------------------------------------------------------------
\* A job that is over, and the empty worktree it leaves.
LEMMA IdleFacts ==
    /\ Idle \in Jobs /\ Idle.pc = "idle" /\ Idle.cap = None /\ Idle.layer = None
    /\ Idle.gone = {} /\ Idle.rejected = FALSE /\ Idle.cut = {}
    /\ NoPlan \in PlanType /\ Nothing \in Trees
    /\ Blank \in [pages : Corpora, sources : Archives]
    /\ \A l \in Layers, n \in Names : Blank.pages[l][n] = {}
    /\ \A c \in Captures : Blank.sources[c] = None
<1>1. NoPlan \in PlanType
  <2>1. NoChange \in [action : Actions, body : Pages]
    BY DEF NoChange, NoPage, Actions, Pages
  <2> HIDE DEF NoChange
  <2> QED
    BY <2>1 DEF NoPlan, PlanType
<1>2. Nothing \in Trees /\ \A n \in Names : Nothing[n] = {}
  BY DEF Nothing, Trees, NoPage, Pages
<1>3. /\ Blank \in [pages : Corpora, sources : Archives]
      /\ \A l \in Layers, n \in Names : Blank.pages[l][n] = {}
      /\ \A c \in Captures : Blank.sources[c] = None
  BY <1>2 DEF Blank, Corpora, Archives
<1>4. /\ Idle \in Jobs /\ Idle.pc = "idle" /\ Idle.cap = None /\ Idle.layer = None
      /\ Idle.gone = {} /\ Idle.rejected = FALSE /\ Idle.cut = {}
  BY <1>1 DEF Idle, Jobs
<1> QED
  BY <1>1, <1>2, <1>3, <1>4

\* The parts of a job.
LEMMA JobParts ==
    ASSUME job \in Jobs
    PROVE  /\ job.pc \in {"idle", "plan", "correct", "drop", "fallback", "project", "sweep", "gate"}
           /\ job.cap \in Captures \cup {None} /\ job.layer \in Layers \cup {None}
           /\ job.plan \in PlanType /\ job.cut \in SUBSET Names
           /\ job.gone \in SUBSET (Layers \X (Names \cup Captures)) /\ job.rejected \in BOOLEAN
  BY DEF Jobs

\* The invariant holds of an empty repository.
LEMMA FilingInit_Inv == Init => FilingInv
<1> SUFFICES ASSUME Init PROVE FilingInv
  OBVIOUS
<1>1. /\ corpus = Blank.pages /\ archived = Blank.sources /\ settled = {} /\ deletes = 0
      /\ work = Blank /\ tree = Nothing /\ job = Idle
  BY DEF Init
<1>2. FilingType
  <2>1. corpus \in Corpora /\ archived \in Archives
    BY <1>1, IdleFacts
  <2>2. deletes \in 0 .. MaxDeletes
    BY <1>1, FilingAssumption
  <2> QED
    BY <1>1, <2>1, <2>2, IdleFacts DEF FilingType
<1>3. Sound(corpus, archived) /\ \A c \in Captures : archived[c] # None => c \in settled
  BY <1>1, IdleFacts DEF Sound
<1>4. CaptureInv /\ DeletionInv /\ SweepInv
  BY <1>1, IdleFacts DEF CaptureInv, DeletionInv, SweepInv
<1> QED
  BY <1>2, <1>3, <1>4 DEF FilingInv

\* A job that ends.
LEMMA IdlingStep ==
    ASSUME FilingInv, Idling, UNCHANGED <<corpus, archived, deletes>>,
           settled' \in SUBSET Captures, settled \subseteq settled'
    PROVE  FilingInv'
<1>1. work' = Blank /\ tree' = Nothing /\ job' = Idle
  BY DEF Idling
<1>2. FilingType'
  BY <1>1, IdleFacts DEF FilingType, FilingInv
<1>3. Sound(corpus, archived)' /\ (\A c \in Captures : archived[c] # None => c \in settled)'
  BY DEF FilingInv, Sound, Reaches, Backs
<1>4. CaptureInv' /\ DeletionInv' /\ SweepInv'
  BY <1>1, IdleFacts DEF CaptureInv, DeletionInv, SweepInv
<1> QED
  BY <1>2, <1>3, <1>4 DEF FilingInv

\* A capture that is given up.
LEMMA AbandonStep == ASSUME FilingInv, Abandon PROVE FilingInv'
<1>1. Idling /\ UNCHANGED <<corpus, archived, deletes>> /\ job.pc \in {"plan", "correct"}
      /\ (settled' = settled \cup {job.cap} \/ settled' = settled)
  BY DEF Abandon
<1>2. job.cap # None /\ job.cap \in Captures /\ settled \in SUBSET Captures
  BY <1>1, JobParts DEF FilingInv, DeletionInv, FilingType
<1> QED
  BY <1>1, <1>2, IdlingStep

\* A capture that begins has a worktree as the branch is, and its own source.
LEMMA BeginStep == ASSUME FilingInv, NEW c \in Captures, NEW l \in Layers, Begin(c, l) PROVE FilingInv'
<1>0. /\ c \notin settled /\ UNCHANGED <<corpus, archived, settled, deletes>>
      /\ work' = [pages |-> corpus, sources |-> [archived EXCEPT ![c] = l]]
      /\ tree' = View(corpus, l)
      /\ job' = [Idle EXCEPT !.pc = "plan", !.cap = c, !.layer = l]
  BY DEF Begin, repo
<1>1. /\ job' \in Jobs /\ job'.pc = "plan" /\ job'.cap = c /\ job'.layer = l
      /\ job'.gone = {} /\ job'.rejected = FALSE
  BY <1>0, IdleFacts DEF Jobs
<1>2. work'.pages = corpus /\ work'.sources = [archived EXCEPT ![c] = l]
  BY <1>0
<1>3. FilingType'
  <2>1. FilingType
    BY DEF FilingInv
  <2>2. tree' \in Trees
    BY <1>0, <2>1, ViewFacts DEF FilingType
  <2>3. work' \in [pages : Corpora, sources : Archives]
    BY <1>0, <2>1 DEF FilingType, Archives
  <2> QED
    BY <1>0, <1>1, <2>1, <2>2, <2>3 DEF FilingType
<1>4. Sound(corpus, archived)' /\ (\A d \in Captures : archived[d] # None => d \in settled)'
  BY <1>0 DEF FilingInv, Sound, Reaches, Backs
<1>5. c # None
  BY FilingAssumption
<1>6. CaptureInv'
  BY <1>0, <1>1, <1>2, <1>5 DEF CaptureInv, Snapshot
<1>7. DeletionInv' /\ SweepInv'
  BY <1>1, <1>5 DEF DeletionInv, SweepInv
<1> QED
  BY <1>3, <1>4, <1>6, <1>7 DEF FilingInv

\* A capture whose worktree is still as the branch is.
LEMMA StillPlanning ==
    ASSUME FilingInv, job.pc \in {"plan", "correct", "drop", "fallback", "project"}
    PROVE  /\ job.cap \in Captures /\ job.cap # None /\ job.layer \in Layers /\ job.gone = {}
           /\ work.pages = corpus /\ corpus \in Corpora
           /\ Snapshot = View(corpus, job.layer) /\ Snapshot \in Trees
<1>1. job.cap \in Captures /\ job.cap # None
  BY JobParts DEF FilingInv, DeletionInv, FilingType
<1>2. job.layer \in Layers /\ job.gone = {} /\ work.pages = corpus /\ corpus \in Corpora
  BY <1>1 DEF FilingInv, CaptureInv, FilingType
<1> QED
  BY <1>1, <1>2, ViewFacts DEF Snapshot

\* A step of the planning leaves the worktree as the branch is.
LEMMA PlanningFrame ==
    ASSUME FilingInv, job.pc \in {"plan", "correct", "drop", "fallback"}, UNCHANGED <<repo, work>>,
           tree' \in Trees, job' \in Jobs, job'.cap = job.cap, job'.layer = job.layer,
           job'.gone = job.gone, job'.pc \in {"correct", "drop", "fallback", "project"},
           job'.pc \in {"correct", "drop"} => ~job'.rejected,
           job'.pc = "drop" => PlanFits(job'.plan, job.cap, Snapshot),
           job'.pc = "project" => Projectable'
    PROVE  FilingInv'
<1>0. UNCHANGED <<corpus, archived, settled, deletes>> /\ work' = work
  BY DEF repo
<1>1. FilingType'
  BY <1>0 DEF FilingInv, FilingType
<1>2. Sound(corpus, archived)' /\ (\A d \in Captures : archived[d] # None => d \in settled)'
  BY <1>0 DEF FilingInv, Sound, Reaches, Backs
<1>3. Snapshot' = Snapshot
  BY <1>0 DEF Snapshot
<1>4. CaptureInv'
  BY <1>0, <1>3, StillPlanning DEF FilingInv, CaptureInv
<1>5. DeletionInv' /\ SweepInv'
  BY StillPlanning DEF DeletionInv, SweepInv
<1> QED
  BY <1>1, <1>2, <1>4, <1>5 DEF FilingInv

\* A plan that is accepted.
LEMMA AcceptStep ==
    ASSUME FilingInv, job.pc \in {"plan", "correct", "drop"}, UNCHANGED <<repo, work>>,
           NEW plan, PlanFits(plan, job.cap, Snapshot),
           NEW out \in Applied(plan, job.cap, Snapshot), out[1] = "ok", DeadLinks(out[2]) = {},
           tree' = out[2], Accept(plan)
    PROVE  FilingInv'
<1>0. job.cap \in Captures /\ Snapshot \in Trees /\ ~job.rejected /\ job \in Jobs
  BY StillPlanning DEF FilingInv, CaptureInv, FilingType
<1>1. job' = [job EXCEPT !.pc = "project", !.plan = NoPlan, !.cut = Cuts(plan)]
  BY DEF Accept
<1>2. Cuts(plan) \in SUBSET Names
  BY DEF Cuts
<1>3. /\ job' \in Jobs /\ job'.pc = "project" /\ job'.cap = job.cap /\ job'.layer = job.layer
      /\ job'.gone = job.gone /\ job'.rejected = job.rejected /\ job'.cut = Cuts(plan)
  BY <1>0, <1>1, <1>2, IdleFacts DEF Jobs
<1>4. tree' \in Trees /\ Says(Snapshot, tree', job.cap) /\ Keeps(Snapshot, tree', job.cap, Cuts(plan))
  BY <1>0, AppliedFacts
<1>5. Snapshot' = Snapshot
  BY <1>3 DEF Snapshot
<1>6. Projectable'
  BY <1>0, <1>3, <1>4, <1>5 DEF Projectable
<1> QED
  BY <1>3, <1>4, <1>6, PlanningFrame

\* A plan that is rejected.
LEMMA RejectStep ==
    ASSUME FilingInv, job.pc \in {"plan", "correct", "drop"}, UNCHANGED <<repo, work>>,
           tree' \in Trees, Reject
    PROVE  FilingInv'
<1>0. job \in Jobs
  BY DEF FilingInv, FilingType
<1>1. job' = [job EXCEPT !.pc = "fallback", !.plan = NoPlan, !.rejected = TRUE]
  BY DEF Reject
<1>3. /\ job' \in Jobs /\ job'.pc = "fallback" /\ job'.cap = job.cap /\ job'.layer = job.layer
      /\ job'.gone = job.gone
  BY <1>0, <1>1, IdleFacts DEF Jobs
<1> QED
  BY <1>3, PlanningFrame

\* A plan that goes back for its correction, or without the update that loses lines.
LEMMA AgainStep ==
    ASSUME FilingInv, job.pc \in {"plan", "correct", "drop"}, UNCHANGED <<repo, work>>,
           tree' \in Trees, NEW pc \in {"correct", "drop"}, NEW plan \in PlanType,
           job' = [job EXCEPT !.pc = pc, !.plan = plan],
           pc = "drop" => PlanFits(plan, job.cap, Snapshot)
    PROVE  FilingInv'
<1>0. job \in Jobs /\ ~job.rejected
  BY StillPlanning DEF FilingInv, FilingType, CaptureInv
<1>3. /\ job' \in Jobs /\ job'.pc = pc /\ job'.cap = job.cap /\ job'.layer = job.layer
      /\ job'.gone = job.gone /\ job'.plan = plan /\ job'.rejected = job.rejected
  BY <1>0 DEF Jobs
<1> QED
  BY <1>0, <1>3, PlanningFrame

\* The first plan.
LEMMA DraftStep == ASSUME FilingInv, Draft PROVE FilingInv'
<1>0. /\ job.pc = "plan" /\ UNCHANGED <<repo, work>> /\ tree = Snapshot /\ job \in Jobs
      /\ job.cap \in Captures /\ Snapshot \in Trees /\ job.plan \in PlanType
  BY StillPlanning, JobParts DEF Draft, FilingInv, CaptureInv, FilingType
<1>1. PICK plan \in Plans(job.cap, Snapshot) : \E out \in Applied(plan, job.cap, Snapshot) :
         /\ tree' = out[2]
         /\ IF /\ out[1] = "ok" /\ Proposes(plan)
               /\ Passes(plan, job.cap, Snapshot, out[2])
            THEN Accept(plan)
            ELSE job' = [job EXCEPT !.pc = "correct"]
  BY <1>0 DEF Draft
<1>2. PICK out \in Applied(plan, job.cap, Snapshot) :
         /\ tree' = out[2]
         /\ IF /\ out[1] = "ok" /\ Proposes(plan)
               /\ Passes(plan, job.cap, Snapshot, out[2])
            THEN Accept(plan)
            ELSE job' = [job EXCEPT !.pc = "correct"]
  BY <1>1
<1>3. PlanFits(plan, job.cap, Snapshot)
  BY <1>0, PlansFit
<1>4. tree' \in Trees
  BY <1>0, <1>2, <1>3, AppliedFacts
<1>5. CASE out[1] = "ok" /\ DeadLinks(out[2]) = {} /\ Accept(plan)
  BY <1>0, <1>2, <1>3, <1>5, AcceptStep
<1>6. CASE job' = [job EXCEPT !.pc = "correct"]
  <2>1. job' = [job EXCEPT !.pc = "correct", !.plan = job.plan]
    BY <1>0, <1>6 DEF Jobs
  <2> QED
    BY <1>0, <1>4, <2>1, AgainStep
<1> QED
  BY <1>2, <1>5, <1>6 DEF Passes

\* Its correction.
LEMMA CorrectStep == ASSUME FilingInv, Correct PROVE FilingInv'
<1>0. /\ job.pc = "correct" /\ UNCHANGED <<repo, work>> /\ job.cap \in Captures /\ Snapshot \in Trees
  BY StillPlanning DEF Correct
<1>1. PICK plan \in Plans(job.cap, Snapshot) : \E out \in Applied(plan, job.cap, Snapshot) :
         /\ tree' = out[2]
         /\ CASE out[1] = "lossy" -> job' = [job EXCEPT !.pc = "drop", !.plan = plan]
              [] out[1] = "ok" /\ Passes(plan, job.cap, Snapshot, out[2]) -> Accept(plan)
              [] OTHER -> Reject
  BY <1>0 DEF Correct, Restored
<1>2. PICK out \in Applied(plan, job.cap, Snapshot) :
         /\ tree' = out[2]
         /\ CASE out[1] = "lossy" -> job' = [job EXCEPT !.pc = "drop", !.plan = plan]
              [] out[1] = "ok" /\ Passes(plan, job.cap, Snapshot, out[2]) -> Accept(plan)
              [] OTHER -> Reject
  BY <1>1
<1>3. PlanFits(plan, job.cap, Snapshot) /\ plan \in PlanType
  BY <1>0, PlansFit, PlanParts
<1>4. tree' \in Trees
  BY <1>0, <1>2, <1>3, AppliedFacts
<1>5. CASE out[1] = "ok" /\ DeadLinks(out[2]) = {} /\ Accept(plan)
  BY <1>0, <1>2, <1>3, <1>5, AcceptStep
<1>6. CASE job' = [job EXCEPT !.pc = "drop", !.plan = plan]
  BY <1>0, <1>3, <1>4, <1>6, AgainStep
<1>7. CASE Reject
  BY <1>0, <1>4, <1>7, RejectStep
<1> QED
  BY <1>2, <1>5, <1>6, <1>7 DEF Passes

\* A correction without an update that loses lines.
LEMMA DropStep == ASSUME FilingInv, Drop PROVE FilingInv'
<1>0. /\ job.pc = "drop" /\ UNCHANGED <<repo, work>> /\ job.cap \in Captures /\ Snapshot \in Trees
      /\ PlanFits(job.plan, job.cap, Snapshot) /\ job \in Jobs
  BY StillPlanning DEF Drop, FilingInv, CaptureInv, FilingType
<1>1. PICK n \in Names : \E out \in Applied(Without(job.plan, n), job.cap, Snapshot) :
         /\ tree' = out[2]
         /\ CASE out[1] = "lossy" -> job' = [job EXCEPT !.plan = Without(job.plan, n)]
              [] /\ out[1] = "ok" /\ Changed(Without(job.plan, n)) # {}
                 /\ Passes(Without(job.plan, n), job.cap, Snapshot, out[2]) ->
                   Accept(Without(job.plan, n))
              [] OTHER -> Reject
  BY <1>0 DEF Drop, Restored
<1> DEFINE plan == Without(job.plan, n)
<1>2. PICK out \in Applied(plan, job.cap, Snapshot) :
         /\ tree' = out[2]
         /\ CASE out[1] = "lossy" -> job' = [job EXCEPT !.plan = plan]
              [] /\ out[1] = "ok" /\ Changed(plan) # {}
                 /\ Passes(plan, job.cap, Snapshot, out[2]) -> Accept(plan)
              [] OTHER -> Reject
  BY <1>1
<1>3. PlanFits(plan, job.cap, Snapshot) /\ plan \in PlanType
  BY <1>0, WithoutFits, PlanParts
<1> HIDE DEF plan
<1>4. tree' \in Trees
  BY <1>0, <1>2, <1>3, AppliedFacts
<1>5. CASE out[1] = "ok" /\ DeadLinks(out[2]) = {} /\ Accept(plan)
  BY <1>0, <1>2, <1>3, <1>5, AcceptStep
<1>6. CASE job' = [job EXCEPT !.plan = plan]
  <2>1. job' = [job EXCEPT !.pc = "drop", !.plan = plan]
    BY <1>0, <1>6 DEF Jobs
  <2> QED
    BY <1>0, <1>3, <1>4, <2>1, AgainStep
<1>7. CASE Reject
  BY <1>0, <1>4, <1>7, RejectStep
<1> QED
  BY <1>2, <1>5, <1>6, <1>7 DEF Passes

\* The view of public, and of a layer, has every link right when the branch has.
LEMMA SoundView ==
    ASSUME NEW pages \in Corpora, NEW sources, Sound(pages, sources), NEW l \in Layers
    PROVE  DeadLinks(View(pages, l)) = {}
<1>1. ASSUME NEW n \in Names, NEW u \in View(pages, l)[n], u[2]
      PROVE  LinkOf[u[1]] \in Living(View(pages, l))
  <2>1. PICK k \in {l, Public} : u \in pages[k][n]
    BY <1>1, ViewFacts
  <2>2. k \in Layers /\ u \in Units
    BY <2>1, FilingAssumption, CorpusFacts
  <2>3. Reaches(pages, k, LinkOf[u[1]])
    BY <1>1, <2>1, <2>2 DEF Sound
  <2>4. Reaches(pages, l, LinkOf[u[1]]) /\ LinkOf[u[1]] \in Names
    BY <1>1, <2>1, <2>2, <2>3, UnitFacts DEF Reaches
  <2> QED
    BY <2>4, ViewFacts
<1> QED
  BY <1>1 DEF DeadLinks

\* A plan that was rejected is projected as the view was, which is right.
LEMMA FallbackStep == ASSUME FilingInv, Fallback PROVE FilingInv'
<1>0. /\ job.pc = "fallback" /\ UNCHANGED <<repo, work>> /\ tree' = Snapshot
      /\ job' = [job EXCEPT !.pc = "project"] /\ Snapshot = View(corpus, job.layer)
      /\ Snapshot \in Trees /\ job \in Jobs /\ corpus \in Corpora /\ job.layer \in Layers
      /\ Sound(corpus, archived)
  BY StillPlanning DEF Fallback, Restored, FilingInv, FilingType
<1>1. /\ job' \in Jobs /\ job'.pc = "project" /\ job'.cap = job.cap /\ job'.layer = job.layer
      /\ job'.gone = job.gone
  BY <1>0 DEF Jobs
<1>2. Snapshot' = Snapshot
  BY <1>0, <1>1 DEF Snapshot
<1>3. DeadLinks(tree') = {}
  BY <1>0, SoundView
<1>4. Says(Snapshot, tree', job'.cap) /\ Keeps(Snapshot, tree', job'.cap, job'.cut)
  BY <1>0 DEF Says, Keeps, Cited, TextsOf
<1>5. Projectable'
  BY <1>0, <1>2, <1>3, <1>4 DEF Projectable
<1> QED
  BY <1>0, <1>1, <1>5, PlanningFrame

\* A deletion breaks only what points at what it takes away.
LEMMA DeleteStep == ASSUME FilingInv, Delete PROVE FilingInv'
<1>0. /\ job.pc = "idle" /\ deletes < MaxDeletes /\ deletes' = deletes + 1
      /\ UNCHANGED <<corpus, archived, settled, tree>>
      /\ FilingType /\ Sound(corpus, archived) /\ MaxDeletes \in Nat
  BY FilingAssumption DEF Delete, FilingInv
<1>1. PICK gone \in SUBSET Targets :
         /\ work' = [pages |-> [l \in Layers |-> [n \in Names |->
                                  IF <<l, n>> \in gone THEN NoPage ELSE corpus[l][n]]],
                     sources |-> [c \in Captures |->
                                  IF <<archived[c], c>> \in gone THEN None ELSE archived[c]]]
         /\ job' = [Idle EXCEPT !.pc = "sweep", !.gone = gone]
  BY DEF Delete
<1>2. gone \in SUBSET (Layers \X (Names \cup Captures))
  BY <1>0, FilingAssumption DEF Targets, FilingType, Archives
<1>3. /\ job' \in Jobs /\ job'.pc = "sweep" /\ job'.cap = None /\ job'.layer = None
      /\ job'.gone = gone /\ job'.rejected = FALSE
  BY <1>1, <1>2, IdleFacts DEF Jobs
<1>4. /\ \A l \in Layers, n \in Names :
            work'.pages[l][n] = IF <<l, n>> \in gone THEN NoPage ELSE corpus[l][n]
      /\ \A c \in Captures :
            work'.sources[c] = IF <<archived[c], c>> \in gone THEN None ELSE archived[c]
  BY <1>1
<1>5. work' \in [pages : Corpora, sources : Archives]
  <2>1. \A l \in Layers, n \in Names : (IF <<l, n>> \in gone THEN NoPage ELSE corpus[l][n]) \in Pages
    BY <1>0, CorpusFacts, TreeFacts DEF FilingType, NoPage, Pages
  <2>2. work'.pages \in Corpora
    BY <1>1, <2>1 DEF Corpora, Trees
  <2>3. work'.sources \in Archives
    BY <1>0, <1>1 DEF FilingType, Archives
  <2> QED
    BY <1>1, <2>2, <2>3
<1>6. Explained(work'.pages, work'.sources, gone)
  <2> SUFFICES ASSUME NEW l \in Layers, NEW n \in Names, NEW u \in work'.pages[l][n]
               PROVE  /\ u[2] => \/ Reaches(work'.pages, l, LinkOf[u[1]])
                                \/ LinkOf[u[1]] \in InScope(l, gone)
                      /\ Cites[u[1]] # None => Backs(work'.sources, l, Cites[u[1]])
                                               \/ Cites[u[1]] \in InScope(l, gone)
    BY DEF Explained
  <2>1. u \in corpus[l][n]
    BY <1>4 DEF NoPage
  <2>2. u \in Units /\ Public \in Layers
    BY <1>0, <2>1, CorpusFacts, FilingAssumption DEF FilingType
  <2>3. ASSUME u[2] PROVE Reaches(work'.pages, l, LinkOf[u[1]]) \/ LinkOf[u[1]] \in InScope(l, gone)
    <3>1. LinkOf[u[1]] \in Names
      BY <2>2, <2>3, UnitFacts
    <3>2. PICK k \in {l, Public} : corpus[k][LinkOf[u[1]]] # NoPage
      BY <1>0, <2>1, <2>3 DEF Sound, Reaches
    <3>3. work'.pages[k][LinkOf[u[1]]] # NoPage \/ <<k, LinkOf[u[1]]>> \in gone
      BY <1>4, <2>2, <3>1, <3>2
    <3> QED
      BY <3>2, <3>3 DEF Reaches, InScope
  <2>4. ASSUME Cites[u[1]] # None
        PROVE  Backs(work'.sources, l, Cites[u[1]]) \/ Cites[u[1]] \in InScope(l, gone)
    <3>1. Cites[u[1]] \in Captures
      BY <2>2, <2>4, UnitFacts
    <3>2. PICK k \in {l, Public} : archived[Cites[u[1]]] = k
      BY <1>0, <2>1, <2>4 DEF Sound, Backs
    <3>3. work'.sources[Cites[u[1]]] = k \/ <<k, Cites[u[1]]>> \in gone
      BY <1>4, <3>1, <3>2
    <3> QED
      BY <3>2, <3>3 DEF Backs, InScope
  <2> QED
    BY <2>3, <2>4
<1>7. FilingType'
  <2>1. deletes' \in 0 .. MaxDeletes
    BY <1>0 DEF FilingType
  <2> QED
    BY <1>0, <1>3, <1>5, <2>1 DEF FilingType
<1>8. Sound(corpus, archived)' /\ (\A d \in Captures : archived[d] # None => d \in settled)'
  BY <1>0 DEF FilingInv, Sound, Reaches, Backs
<1>9. CaptureInv' /\ SweepInv'
  BY <1>3, <1>6 DEF CaptureInv, SweepInv
<1>10. DeletionInv'
  BY <1>0, <1>3, <1>4 DEF DeletionInv
<1> QED
  BY <1>7, <1>8, <1>9, <1>10 DEF FilingInv

\* A round of the sweep.
LEMMA SweepStep == ASSUME FilingInv, Sweep PROVE FilingInv'
<1>0. /\ job.pc = "sweep" /\ UNCHANGED <<corpus, archived, settled, deletes, tree>>
      /\ FilingType /\ job \in Jobs /\ work.pages \in Corpora /\ corpus \in Corpora
  BY DEF Sweep, repo, FilingInv, FilingType
<1>1. Sound(corpus, archived)' /\ (\A d \in Captures : archived[d] # None => d \in settled)'
  BY <1>0 DEF FilingInv, Sound, Reaches, Backs
<1>2. CASE job.gone = {}
  <2>1. job' = [job EXCEPT !.pc = "gate"] /\ work' = work
    BY <1>0, <1>2 DEF Sweep
  <2>2. /\ job' \in Jobs /\ job'.pc = "gate" /\ job'.cap = job.cap /\ job'.layer = job.layer
        /\ job'.gone = {} /\ job'.rejected = job.rejected /\ job'.cut = job.cut
    BY <1>0, <1>2, <2>1 DEF Jobs
  <2>3. FilingType'
    BY <1>0, <2>1, <2>2 DEF FilingType
  <2>4. SweepInv'
    BY <1>0, <1>2, <2>1, <2>2 DEF FilingInv, SweepInv
  <2>5. Landable => Landable'
    BY <1>0, <1>2, <2>1, <2>2 DEF Landable
  <2>6. CaptureInv'
    BY <1>0, <2>1, <2>2, <2>5 DEF FilingInv, CaptureInv
  <2>7. DeletionInv'
    BY <1>0, <2>1, <2>2 DEF FilingInv, DeletionInv
  <2> QED
    BY <1>1, <2>3, <2>4, <2>6, <2>7 DEF FilingInv
<1>3. CASE job.gone # {}
  <2> DEFINE after == Round(job.gone, work.pages, job.cap # None)
             empty == Emptied(work.pages, after)
  <2>1. work' = [work EXCEPT !.pages = after] /\ job' = [job EXCEPT !.gone = empty]
    BY <1>0, <1>3 DEF Sweep
  <2>2. empty \in SUBSET (Layers \X Names)
    BY DEF Emptied
  <2>3. after \in Corpora
    BY <1>0, RoundFacts
  <2> HIDE DEF after, empty
  <2>4. /\ job' \in Jobs /\ job'.pc = "sweep" /\ job'.cap = job.cap /\ job'.layer = job.layer
        /\ job'.gone = empty /\ job'.rejected = job.rejected /\ job'.cut = job.cut
    BY <1>0, <2>1, <2>2 DEF Jobs
  <2>5. work' \in [pages : Corpora, sources : Archives] /\ work'.pages = after
        /\ work'.sources = work.sources
    BY <1>0, <2>1, <2>3 DEF FilingType
  <2>6. FilingType'
    BY <1>0, <2>4, <2>5 DEF FilingType
  <2>7. DeletionInv'
    BY <1>0, <2>4, <2>5 DEF FilingInv, DeletionInv
  <2>8. job.layer \in {None, Public}
        /\ (job.cap # None => job.layer = Public /\ ~job.rejected /\ Landable)
    BY <1>0, <1>3 DEF FilingInv, DeletionInv, CaptureInv, Landable
  <2>9. Explained(work.pages, work.sources, job.gone)
    BY <1>0, <2>8 DEF FilingInv, SweepInv
  <2>10. Explained(after, work.sources, empty)
         /\ (job.cap # None => PublicSound(after, work.sources))
    BY <1>0, <2>8, <2>9, RoundExplained DEF Landable, after, empty
  <2>11. SweepInv'
    BY <2>4, <2>5, <2>10 DEF SweepInv
  <2>12. ASSUME job.cap # None PROVE Landable'
    <3>1. Landable /\ job.layer = Public /\ ~job.rejected /\ Public \in Layers
      BY <2>8, <2>12, FilingAssumption
    <3>2. \A l \in Layers, n \in Names : TextsOf(after[l][n]) = TextsOf(work.pages[l][n])
      <4>1. job.gone \subseteq Layers \X Names
        BY <3>1 DEF Landable
      <4>2. PICK only \in BOOLEAN : after = Round(job.gone, work.pages, only)
        BY Zenon DEF after
      <4>3. ASSUME NEW l \in Layers, NEW n \in Names
            PROVE  TextsOf(after[l][n]) = TextsOf(work.pages[l][n])
        BY <1>0, <4>1, <4>2, RoundKeepsTexts
      <4> QED
        BY <4>3
    <3>3. \A l \in Layers \ {Public}, n \in Names : TextsOf(after[l][n]) = TextsOf(corpus[l][n])
      BY <3>1, <3>2 DEF Landable
    <3>4. ASSUME NEW l \in Layers, NEW n \in Names
          PROVE  TextsOf(View(after, l)[n]) = TextsOf(View(work.pages, l)[n])
      <4>1. /\ View(after, l)[n] = after[Public][n] \cup after[l][n]
            /\ View(work.pages, l)[n] = work.pages[Public][n] \cup work.pages[l][n]
        BY <1>0, <2>3, ViewFacts
      <4>2. \A p, q : TextsOf(p \cup q) = TextsOf(p) \cup TextsOf(q)
        <5> TAKE p, q
        <5>1. \A x : x \in TextsOf(p \cup q) <=> x \in TextsOf(p) \/ x \in TextsOf(q)
          BY DEF TextsOf
        <5> QED
          BY <5>1
      <4>3. TextsOf(after[Public][n]) = TextsOf(work.pages[Public][n])
            /\ TextsOf(after[l][n]) = TextsOf(work.pages[l][n])
        BY <3>1, <3>2
      <4>4. TextsOf(View(after, l)[n]) = TextsOf(after[Public][n]) \cup TextsOf(after[l][n])
        BY <4>1, <4>2
      <4>5. TextsOf(View(work.pages, l)[n])
                = TextsOf(work.pages[Public][n]) \cup TextsOf(work.pages[l][n])
        BY <4>1, <4>2
      <4> QED
        BY <4>3, <4>4, <4>5
    <3>5. \A l \in Layers : Keeps(corpus[l], View(after, l), job.cap, job.cut)
      BY <3>1, <3>4 DEF Landable, Keeps
    <3>6. PublicSound(after, work.sources)
      BY <2>10, <2>12
    <3> QED
      BY <1>0, <2>2, <2>4, <2>5, <3>1, <3>3, <3>5, <3>6 DEF Landable
  <2>13. CaptureInv'
    BY <1>0, <2>4, <2>5, <2>12 DEF FilingInv, CaptureInv
  <2> QED
    BY <1>1, <2>6, <2>7, <2>11, <2>13 DEF FilingInv
<1> QED
  BY <1>2, <1>3

\* What passes the last gate is sound: all that is wrong with it would be new.
LEMMA GateLandsSound ==
    ASSUME FilingInv, Introduced = {}
    PROVE  Sound(work.pages, work.sources)
<1>1. Violations(corpus, archived) = {}
  BY SoundIsNoViolation DEF FilingInv, FilingType
<1>2. Violations(work.pages, work.sources) = {}
  BY <1>1 DEF Introduced
<1> QED
  BY <1>2, SoundIsNoViolation DEF FilingInv, FilingType

\* The last gate.
LEMMA GateStep == ASSUME FilingInv, Gate PROVE FilingInv'
<1>0. /\ job.pc = "gate" /\ UNCHANGED deletes /\ settled' = settled \cup ({job.cap} \ {None})
      /\ work' = Blank /\ tree' = Nothing /\ job' = Idle
      /\ FilingType
      /\ IF Introduced = {} THEN corpus' = work.pages /\ archived' = work.sources
                            ELSE UNCHANGED <<corpus, archived>>
  BY DEF Gate, Idling, FilingInv
<1>1. settled' \in SUBSET Captures /\ settled \subseteq settled'
  BY <1>0, JobParts DEF FilingType
<1>2. CASE Introduced # {}
  BY <1>0, <1>1, <1>2, IdlingStep DEF Idling
<1>3. CASE Introduced = {}
  <2>1. corpus' = work.pages /\ archived' = work.sources
    BY <1>0, <1>3
  <2>2. FilingType'
    BY <1>0, <1>1, <2>1, IdleFacts DEF FilingType
  <2>3. Sound(corpus, archived)'
    BY <1>3, <2>1, GateLandsSound DEF Sound, Reaches, Backs
  <2>4. ASSUME NEW c \in Captures, archived'[c] # None PROVE c \in settled'
    <3>1. CASE job.cap = None
      BY <1>0, <2>1, <2>4, <3>1 DEF FilingInv, DeletionInv
    <3>2. CASE job.cap # None
      <4>1. work.sources = [archived EXCEPT ![job.cap] = job.layer]
        BY <3>2 DEF FilingInv, CaptureInv
      <4>2. c = job.cap \/ archived'[c] = archived[c]
        BY <1>0, <2>1, <4>1 DEF FilingType, Archives
      <4> QED
        BY <1>0, <2>4, <3>2, <4>2 DEF FilingInv
    <3> QED
      BY <3>1, <3>2
  <2>5. CaptureInv' /\ DeletionInv' /\ SweepInv'
    BY <1>0, IdleFacts DEF CaptureInv, DeletionInv, SweepInv
  <2> QED
    BY <2>2, <2>3, <2>4, <2>5 DEF FilingInv
<1> QED
  BY <1>2, <1>3

\* What a layer stores of a page of its view.
LEMMA StoredFacts ==
    ASSUME NEW base \in Pages, NEW own \in Pages, NEW new \in Pages, NEW old, old = base \cup own
    PROVE  /\ Stored(base, own, old, new) \in Pages
           /\ \A u \in own : u[1] \in TextsOf(new) =>
                  u[1] \in TextsOf(base \cup Stored(base, own, old, new))
<1> DEFINE s == Stored(base, own, old, new)
<1>1. \/ new = old /\ s = own
      \/ new # old /\ new = {} /\ s = {}
      \/ new # old /\ new # {} /\ base = {} /\ s = new
      \/ new # old /\ new # {} /\ base # {} /\ new \ base = {} /\ s = own
      \/ new # old /\ new # {} /\ base # {} /\ new \ base # {} /\ s = new \ base
  BY DEF Stored, NoPage
<1> HIDE DEF s
<1>2. s \in Pages
  BY <1>1 DEF Pages
<1>3. ASSUME NEW u \in own, u[1] \in TextsOf(new) PROVE u[1] \in TextsOf(base \cup s)
  BY <1>1, <1>3 DEF TextsOf
<1> QED
  BY <1>1, <1>2, <1>3 DEF s

\* The worktree after the projection.
LEMMA ProjectedFacts ==
    ASSUME FilingInv, job.pc = "project"
    PROVE  /\ Projected \in Corpora
           /\ \A l \in Layers \ {job.layer} : Projected[l] = corpus[l]
           /\ job.layer = Public => Projected[Public] = tree
           /\ job.layer # Public => \A n \in Names :
                  Projected[job.layer][n] =
                      Stored(corpus[Public][n], corpus[job.layer][n], Snapshot[n], tree[n])
           /\ tree = Snapshot => Projected = corpus
<1> DEFINE here == job.layer
           St == [n \in Names |-> Stored(corpus[Public][n], corpus[here][n], Snapshot[n], tree[n])]
           mine == IF here = Public THEN tree ELSE St
<1>0. /\ here \in Layers /\ work.pages = corpus /\ corpus \in Corpora /\ tree \in Trees
      /\ Snapshot = View(corpus, here) /\ Public \in Layers
  BY StillPlanning, FilingAssumption DEF FilingInv, FilingType
<1>1. Projected = [corpus EXCEPT ![here] = mine]
  BY <1>0 DEF Projected
<1>2. \A n \in Names : /\ corpus[Public][n] \in Pages /\ corpus[here][n] \in Pages /\ tree[n] \in Pages
                       /\ Snapshot[n] = corpus[Public][n] \cup corpus[here][n]
  BY <1>0, CorpusFacts, TreeFacts, ViewFacts
<1>3. St \in Trees
  BY <1>2, StoredFacts DEF Trees
<1>4. mine \in Trees
  BY <1>0, <1>3
<1>5. ASSUME tree = Snapshot PROVE mine = corpus[here]
  <2>1. CASE here = Public
    BY <1>0, <1>5, <2>1, PublicView
  <2>2. CASE here # Public
    <3>1. ASSUME NEW n \in Names PROVE St[n] = corpus[here][n]
      <4>1. Stored(corpus[Public][n], corpus[here][n], Snapshot[n], tree[n]) = corpus[here][n]
        <5>1. tree[n] = Snapshot[n]
          BY <1>5
        <5> QED
          BY <5>1 DEF Stored
      <4> QED
        BY <4>1
    <3>2. corpus[here] \in Trees
      BY <1>0, CorpusFacts
    <3> HIDE DEF St
    <3>3. St = corpus[here]
      BY <1>3, <3>1, <3>2 DEF Trees
    <3> QED
      BY <2>2, <3>3
  <2> QED
    BY <2>1, <2>2
<1>6. \A n \in Names : St[n] = Stored(corpus[Public][n], corpus[here][n], Snapshot[n], tree[n])
  OBVIOUS
<1>7. mine = IF here = Public THEN tree ELSE St
  OBVIOUS
<1> HIDE DEF mine, St
<1>8. /\ Projected \in Corpora /\ Projected[here] = mine
      /\ \A l \in Layers \ {here} : Projected[l] = corpus[l]
  BY <1>0, <1>1, <1>4 DEF Corpora
<1>9. mine = corpus[here] => Projected = corpus
  BY <1>0, <1>1 DEF Corpora
<1> QED
  BY <1>5, <1>6, <1>7, <1>8, <1>9

\* Every cited text a plan does not cut is readable where it was.
LEMMA ProjectionKeeps ==
    ASSUME FilingInv, job.pc = "project", NEW l \in Layers
    PROVE  Keeps(corpus[l], View(Projected, l), job.cap, job.cut)
<1> SUFFICES ASSUME NEW n \in Names \ job.cut, NEW u \in Cited(corpus[l][n]), u[1] # Resolves[job.cap]
             PROVE  u[1] \in TextsOf(View(Projected, l)[n])
  BY DEF Keeps
<1>0. /\ Projectable /\ corpus \in Corpora /\ tree \in Trees /\ job.layer \in Layers
      /\ Snapshot = View(corpus, job.layer) /\ job.cap # None /\ Public \in Layers
  BY StillPlanning, FilingAssumption DEF FilingInv, CaptureInv, FilingType
<1>1. View(Projected, l)[n] = Projected[Public][n] \cup Projected[l][n]
  BY ProjectedFacts, ViewFacts
<1>2. u \in corpus[l][n]
  BY DEF Cited
<1>3. CASE l # job.layer
  <2>1. Projected[l] = corpus[l]
    BY <1>3, ProjectedFacts
  <2> QED
    BY <1>1, <1>2, <2>1 DEF TextsOf
<1>4. CASE l = job.layer
  <2>1. u \in Cited(Snapshot[n])
    BY <1>0, <1>2, <1>4, ViewFacts DEF Cited
  <2>2. u[1] \in TextsOf(tree[n])
    BY <1>0, <2>1 DEF Projectable, Keeps
  <2>3. CASE job.layer = Public
    BY <1>1, <1>4, <2>2, <2>3, ProjectedFacts DEF TextsOf
  <2>4. CASE job.layer # Public
    <3>1. /\ Projected[l][n] = Stored(corpus[Public][n], corpus[l][n], Snapshot[n], tree[n])
          /\ Projected[Public] = corpus[Public]
      BY <1>0, <1>4, <2>4, ProjectedFacts
    <3>2. /\ corpus[Public][n] \in Pages /\ corpus[l][n] \in Pages /\ tree[n] \in Pages
          /\ Snapshot[n] = corpus[Public][n] \cup corpus[l][n]
      BY <1>0, <1>4, CorpusFacts, TreeFacts, ViewFacts
    <3>3. u[1] \in TextsOf(corpus[Public][n]
                              \cup Stored(corpus[Public][n], corpus[l][n], Snapshot[n], tree[n]))
      BY <1>2, <2>2, <3>2, StoredFacts
    <3> QED
      BY <1>1, <3>1, <3>3
  <2> QED
    BY <2>3, <2>4
<1> QED
  BY <1>3, <1>4

\* A public capture leaves public right, and in the layers only links to pages it took away.
LEMMA ProjectionIsExplained ==
    ASSUME FilingInv, job.pc = "project", job.layer = Public,
           NEW gone, \A n \in Names : tree[n] = NoPage /\ Snapshot[n] # NoPage => <<Public, n>> \in gone
    PROVE  /\ PublicSound(Projected, work.sources)
           /\ Explained(Projected, work.sources, gone)
<1>0. /\ Projectable /\ corpus \in Corpora /\ tree \in Trees /\ archived \in Archives
      /\ Snapshot = corpus[Public] /\ job.cap # None /\ job.cap \in Captures /\ Public \in Layers
      /\ work.sources = [archived EXCEPT ![job.cap] = Public] /\ Sound(corpus, archived)
      /\ Projected[Public] = tree /\ \A l \in Layers \ {Public} : Projected[l] = corpus[l]
  BY StillPlanning, PublicView, ProjectedFacts, FilingAssumption DEF FilingInv, CaptureInv, FilingType
<1>1. \A c \in Captures : work.sources[c] = IF c = job.cap THEN Public ELSE archived[c]
  BY <1>0 DEF Archives
<1>2. ASSUME NEW n \in Names, NEW u \in tree[n]
      PROVE  /\ u[2] => tree[LinkOf[u[1]]] # NoPage
             /\ Cites[u[1]] # None => work.sources[Cites[u[1]]] = Public
  <2>1. u \in Units /\ DeadLinks(tree) = {} /\ Says(Snapshot, tree, job.cap)
    BY <1>0, TreeFacts DEF Projectable
  <2>2. u[2] => LinkOf[u[1]] \in Living(tree)
    BY <2>1 DEF DeadLinks
  <2>3. ASSUME Cites[u[1]] # None, Cites[u[1]] # job.cap
        PROVE  archived[Cites[u[1]]] = Public
    <3>1. u[1] \in TextsOf(corpus[Public][n])
      BY <1>0, <2>1, <2>3 DEF Says
    <3>2. PICK v \in corpus[Public][n] : v[1] = u[1]
      BY <3>1 DEF TextsOf
    <3> QED
      BY <1>0, <2>3, <3>2 DEF Sound, Backs
  <2> QED
    BY <1>1, <2>1, <2>2, <2>3, UnitFacts DEF Living
<1>3. PublicSound(Projected, work.sources)
  BY <1>0, <1>2 DEF PublicSound
<1>4. ASSUME NEW l \in Layers, NEW n \in Names, NEW u \in Projected[l][n]
      PROVE  /\ u[2] => Reaches(Projected, l, LinkOf[u[1]]) \/ LinkOf[u[1]] \in InScope(l, gone)
             /\ Cites[u[1]] # None => Backs(work.sources, l, Cites[u[1]])
                                      \/ Cites[u[1]] \in InScope(l, gone)
  <2>1. CASE l = Public
    BY <1>3, <1>4, <2>1 DEF PublicSound, Reaches, Backs
  <2>2. CASE l # Public
    <3>1. u \in corpus[l][n] /\ u \in Units /\ Projected[l] = corpus[l]
      BY <1>0, <1>4, <2>2, CorpusFacts
    <3>2. /\ u[2] => Reaches(corpus, l, LinkOf[u[1]])
          /\ Cites[u[1]] # None => Backs(archived, l, Cites[u[1]])
      BY <1>0, <3>1 DEF Sound
    <3>3. ASSUME u[2] PROVE Reaches(Projected, l, LinkOf[u[1]]) \/ LinkOf[u[1]] \in InScope(l, gone)
      <4>1. LinkOf[u[1]] \in Names
        BY <3>1, <3>3, UnitFacts
      <4>2. CASE corpus[l][LinkOf[u[1]]] # NoPage
        BY <3>1, <4>2 DEF Reaches
      <4>3. CASE corpus[Public][LinkOf[u[1]]] # NoPage
        <5>1. tree[LinkOf[u[1]]] # NoPage \/ <<Public, LinkOf[u[1]]>> \in gone
          BY <1>0, <4>1, <4>3
        <5> QED
          BY <1>0, <5>1 DEF Reaches, InScope
      <4> QED
        BY <3>2, <3>3, <4>2, <4>3 DEF Reaches
    <3>4. ASSUME Cites[u[1]] # None PROVE Backs(work.sources, l, Cites[u[1]])
      BY <1>1, <3>1, <3>2, <3>4, UnitFacts DEF Backs
    <3> QED
      BY <3>3, <3>4
  <2> QED
    BY <2>1, <2>2
<1> QED
  BY <1>3, <1>4 DEF Explained

\* The projection of a view.
LEMMA ProjectStep == ASSUME FilingInv, Project PROVE FilingInv'
<1>0. /\ job.pc = "project" /\ UNCHANGED <<corpus, archived, deletes>> /\ job \in Jobs
      /\ job.cap \in Captures /\ job.cap # None /\ job.layer \in Layers /\ FilingType
      /\ Projectable /\ work.pages = corpus /\ Snapshot \in Trees /\ Public \in Layers
      /\ job.cap \notin settled /\ work.sources = [archived EXCEPT ![job.cap] = job.layer]
  BY StillPlanning, FilingAssumption DEF Project, FilingInv, CaptureInv, FilingType
<1>1. CASE Overreaches
  <2>1. Idling /\ settled' = settled \cup {job.cap}
    BY <1>0, <1>1 DEF Project
  <2> QED
    BY <1>0, <2>1, IdlingStep DEF FilingType
<1>2. CASE ~Overreaches
  <2> DEFINE names == IF job.layer # Public THEN {}
                      ELSE {n \in Names : tree[n] = NoPage /\ Snapshot[n] # NoPage}
             gone == {<<Public, n>> : n \in names}
  <2>1. /\ work' = [work EXCEPT !.pages = Projected]
        /\ job' = [job EXCEPT !.pc = "sweep", !.gone = gone]
        /\ UNCHANGED <<tree, settled>>
    BY <1>0, <1>2 DEF Project
  <2>2. /\ gone \subseteq Layers \X Names
        /\ job.layer # Public => gone = {}
        /\ job.layer = Public =>
                \A n \in Names : tree[n] = NoPage /\ Snapshot[n] # NoPage => <<Public, n>> \in gone
        /\ tree = Snapshot => gone = {}
    BY <1>0
  <2> HIDE DEF gone
  <2>3. /\ job' \in Jobs /\ job'.pc = "sweep" /\ job'.cap = job.cap /\ job'.layer = job.layer
        /\ job'.gone = gone /\ job'.rejected = job.rejected /\ job'.cut = job.cut
    BY <1>0, <2>1, <2>2 DEF Jobs
  <2>4. work' \in [pages : Corpora, sources : Archives] /\ work'.pages = Projected
        /\ work'.sources = work.sources
    BY <1>0, <2>1, ProjectedFacts DEF FilingType
  <2>5. FilingType'
    BY <1>0, <2>1, <2>3, <2>4 DEF FilingType
  <2>6. Sound(corpus, archived)' /\ (\A d \in Captures : archived[d] # None => d \in settled)'
    BY <1>0, <2>1 DEF FilingInv, Sound, Reaches, Backs
  <2>7. DeletionInv'
    BY <1>0, <2>3 DEF DeletionInv
  <2>8. SweepInv'
    <3>1. job.layer \in {None, Public} => Explained(Projected, work.sources, gone)
      BY <1>0, <2>2, ProjectionIsExplained, FilingAssumption
    <3> QED
      BY <2>3, <2>4, <3>1 DEF SweepInv
  <2>9. Landable'
    <3>1. job.rejected => Projected = corpus /\ gone = {}
      BY <1>0, <2>2, ProjectedFacts DEF Projectable
    <3>2. job.layer # Public => \A l \in Layers \ {job.layer} : Projected[l] = corpus[l]
      BY <1>0, ProjectedFacts
    <3>3. job.layer = Public =>
              /\ PublicSound(Projected, work.sources)
              /\ \A l \in Layers \ {Public}, n \in Names :
                     TextsOf(Projected[l][n]) = TextsOf(corpus[l][n])
      BY <1>0, <2>2, ProjectionIsExplained, ProjectedFacts
    <3>4. \A l \in Layers : Keeps(corpus[l], View(Projected, l), job.cap, job.cut)
      BY <1>0, ProjectionKeeps
    <3> QED
      BY <1>0, <2>2, <2>3, <2>4, <3>1, <3>2, <3>3, <3>4 DEF Landable
  <2>10. CaptureInv'
    <3>1. /\ job'.layer \in Layers /\ job'.cap \notin settled' /\ job'.pc # "idle"
          /\ work'.sources = [archived' EXCEPT ![job'.cap] = job'.layer]
      BY <1>0, <2>1, <2>3, <2>4
    <3> QED
      BY <2>3, <2>9, <3>1 DEF CaptureInv
  <2> QED
    BY <2>5, <2>6, <2>7, <2>8, <2>10 DEF FilingInv
<1> QED
  BY <1>1, <1>2

\* A step of nothing.
LEMMA FilingStutter == ASSUME FilingInv, UNCHANGED vars PROVE FilingInv'
<1>0. UNCHANGED <<corpus, archived, settled, deletes, work, tree, job>>
  BY DEF vars
<1>1. FilingType' /\ DeletionInv' /\ SweepInv'
  BY <1>0 DEF FilingInv, FilingType, DeletionInv, SweepInv
<1>2. Sound(corpus, archived)' /\ (\A d \in Captures : archived[d] # None => d \in settled)'
  BY <1>0 DEF FilingInv, Sound, Reaches, Backs
<1>3. Snapshot' = Snapshot
  BY <1>0 DEF Snapshot
<1>4. Projectable' = Projectable /\ Landable' = Landable
  BY <1>0, <1>3 DEF Projectable, Landable
<1>5. CaptureInv'
  BY <1>0, <1>3, <1>4 DEF FilingInv, CaptureInv
<1> QED
  BY <1>1, <1>2, <1>5 DEF FilingInv

\* The invariant is inductive.
LEMMA FilingNext_Inv == FilingInv /\ [Next]_vars => FilingInv'
<1> SUFFICES ASSUME FilingInv, [Next]_vars PROVE FilingInv'
  OBVIOUS
<1>1. CASE \E c \in Captures, l \in Layers : Begin(c, l)
  BY <1>1, BeginStep
<1>2. CASE File
  BY <1>2, DraftStep, CorrectStep, DropStep, FallbackStep, ProjectStep, SweepStep, GateStep DEF File
<1>3. CASE Abandon
  BY <1>3, AbandonStep
<1>4. CASE Delete
  BY <1>4, DeleteStep
<1>5. CASE UNCHANGED vars
  BY <1>5, FilingStutter
<1> QED
  BY <1>1, <1>2, <1>3, <1>4, <1>5 DEF Next

\* So it always holds.
LEMMA FilingSpec_Inv == Spec => []FilingInv
  BY FilingInit_Inv, FilingNext_Inv, PTL DEF Spec

\* What the invariant calls sound is what the checks accept.
LEMMA FilingInv_Sound == FilingInv => CorpusIsSound
  BY DEF FilingInv, Sound, Reaches, Backs, CorpusIsSound

\* At the gate of a deletion or of a public capture nothing is left to explain.
LEMMA FilingInv_Sweep == FilingInv => SweepIsEnough
<1> SUFFICES ASSUME FilingInv, job.pc = "gate", job.layer \in {None, Public} PROVE Introduced = {}
  BY DEF SweepIsEnough
<1>1. Explained(work.pages, work.sources, {})
  BY DEF FilingInv, SweepInv
<1>2. Violations(work.pages, work.sources) = {}
  BY <1>1, SoundIsNoViolation DEF FilingInv, FilingType
<1> QED
  BY <1>2 DEF Introduced

\* Whatever is filed and deleted, in whatever order, every live link of the branch reaches a page its
\* layer reads and every citation a source its layer has, and the sweeps of a deletion and of a
\* public capture leave the last gate nothing to refuse (lint.py; writer.py:1680-1722).
THEOREM FilingStaysSound == Spec => [](CorpusIsSound /\ SweepIsEnough)
  BY FilingSpec_Inv, FilingInv_Sound, FilingInv_Sweep, PTL

\* The branch, the worktree, the view and the job have their types (_capture and _delete of
\* writer.py).
THEOREM FilingTypeCorrect == Spec => []TypeOK
<1>1. FilingInv => TypeOK
  BY JobParts DEF FilingInv, FilingType, TypeOK, Corpora, Trees, Archives
<1> QED
  BY <1>1, FilingSpec_Inv, PTL

\* The branch changes at the gate alone.
LEMMA OnlyGateChanges ==
    ASSUME [Next]_vars, corpus' # corpus
    PROVE  job.pc = "gate" /\ corpus' = work.pages
  BY DEF Next, vars, repo, Begin, File, Draft, Correct, Drop, Fallback, Project,
         Sweep, Gate, Abandon, Delete

\* What a capture does to the branch.
LEMMA CaptureLands ==
    ASSUME FilingInv, [Next]_vars, job.cap # None
    PROVE  /\ job.rejected => corpus' = corpus
           /\ \A l \in Layers, n \in Names \ job.cut :
                 \A u \in Cited(corpus[l][n]) :
                     u[1] = Resolves[job.cap] \/ u[1] \in TextsOf(View(corpus', l)[n])
           /\ \A l \in Layers \ {job.layer} : \A n \in Names :
                 IF job.layer = Public THEN TextsOf(corpus'[l][n]) = TextsOf(corpus[l][n])
                 ELSE corpus'[l][n] = corpus[l][n]
<1>1. CASE corpus' # corpus
  <2>1. Landable /\ corpus' = work.pages
    BY <1>1, OnlyGateChanges DEF FilingInv, CaptureInv
  <2>2. \A l \in Layers \ {job.layer} : \A n \in Names :
            IF job.layer = Public THEN TextsOf(corpus'[l][n]) = TextsOf(corpus[l][n])
            ELSE corpus'[l][n] = corpus[l][n]
    BY <2>1 DEF Landable
  <2>3. \A l \in Layers, n \in Names \ job.cut :
           \A u \in Cited(corpus[l][n]) :
               u[1] = Resolves[job.cap] \/ u[1] \in TextsOf(View(corpus', l)[n])
    BY <2>1 DEF Landable, Keeps
  <2> QED
    BY <2>1, <2>2, <2>3 DEF Landable
<1>2. CASE corpus' = corpus
  <2>1. \A l \in Layers, n \in Names : \A u \in Cited(corpus[l][n]) :
           u[1] \in TextsOf(View(corpus, l)[n])
    BY ViewFacts DEF FilingInv, FilingType, Cited, TextsOf
  <2> QED
    BY <1>2, <2>1
<1> QED
  BY <1>1, <1>2

\* Of a plan that is rejected nothing reaches the branch: the source is archived and no page changes
\* (writer.py:1037-1043).
THEOREM RejectedPlansOnlyArchive == Spec => RejectedArchivesOnly
<1> DEFINE Same == job.rejected => corpus' = corpus
<1>1. FilingInv /\ [Next]_vars => Same
  BY CaptureLands DEF FilingInv, DeletionInv
<1> HIDE DEF Same
<1>2. Spec => [][Same]_vars
  BY <1>1, FilingSpec_Inv, PTL DEF Spec
<1> QED
  BY <1>2 DEF Same, RejectedArchivesOnly

\* A capture leaves every cited text readable where it was, except on a page its accepted plan
\* deletes or replaces and the callout it resolves (writer.py:1602-1621; layered.py:181-218): for any
\* number of layers, pages and texts and whatever plan the model makes.
THEOREM CitedTextsSurvive == Spec => CitedSurvives
<1> DEFINE Kept == job.cap # None =>
                       \A l \in Layers, n \in Names \ job.cut :
                         \A u \in Cited(corpus[l][n]) :
                           \/ u[1] = Resolves[job.cap]
                           \/ u[1] \in TextsOf(View(corpus', l)[n])
<1>1. FilingInv /\ [Next]_vars => Kept
  BY CaptureLands
<1> HIDE DEF Kept
<1>2. Spec => [][Kept]_vars
  BY <1>1, FilingSpec_Inv, PTL DEF Spec
<1> QED
  BY <1>2 DEF Kept, CitedSurvives

\* A capture changes its own layer; a public one leaves in the others only plain text where links
\* were (layered.py:181-218; _sweep_other_layers of writer.py).
THEOREM LayersStayApart == Spec => LayersKeepApart
<1> DEFINE Apart == job.cap # None =>
                        \A l \in Layers \ {job.layer} : \A n \in Names :
                          IF job.layer = Public THEN TextsOf(corpus'[l][n]) = TextsOf(corpus[l][n])
                          ELSE corpus'[l][n] = corpus[l][n]
<1>1. FilingInv /\ [Next]_vars => Apart
  BY CaptureLands
<1> HIDE DEF Apart
<1>2. Spec => [][Apart]_vars
  BY <1>1, FilingSpec_Inv, PTL DEF Spec
<1> QED
  BY <1>2 DEF Apart, LayersKeepApart

-----------------------------------------------------------------------------
(* The recompile of everything derived.                                               *)

Books == [Titles -> SUBSET Origins]
Rounds == [pc : {"open", "read", "land", "landed", "refused"}, at : DOMAIN Shelving,
           left : Seq(Origins),
           own : SUBSET Titles, corrected : BOOLEAN, tombs : [Shelves -> Books]]

RecompileType ==
    /\ library \in [Shelves -> Books] /\ shelf \in [Shelves -> Books] /\ desk \in Books
    /\ disputed \in SUBSET (Shelves \X Titles) /\ round \in Rounds

Backed(pages) == \A l \in Shelves, n \in Titles : WellBacked(l, pages[l][n])

\* The layers that are compiled, or passed over; all of them when the commit is made.
Compiled == {Shelving[i] : i \in {j \in DOMAIN Shelving : round.pc = "land" \/ j < round.at}}

\* What a compiled layer no longer has, all of its sources gave up, or public has too.
GivenUp(l) ==
    \A n \in Titles : library[l][n] # {} /\ shelf[l][n] = {} /\ (l = Common \/ shelf[Common][n] = {})
        => round.tombs[l][n] = library[l][n]

UnderWay == round.pc \in {"open", "read", "land"}

Waiting ==
    {Shelving[i] : i \in {j \in DOMAIN Shelving :
                            j > round.at \/ (j = round.at /\ round.pc = "open")}}

\* What is written so far of a layer: its pages are backed by its sources, those of public keep theirs.
DeskIsBacked ==
    /\ round.pc = "open" => round.own = {}
    /\ round.pc = "read" =>
        /\ \A i \in DOMAIN round.left : ShelfOf[round.left[i]] = Layer
        /\ \A n \in Titles : desk[n] \subseteq MayBack(Layer)
        /\ \A n \in Titles \ Keep : WellBacked(Layer, desk[n])
        /\ \A n \in Keep \cap round.own : \E s \in desk[n] \ shelf[Common][n] : ShelfOf[s] = Layer
        /\ shelf[Layer] = Bare

RecompileInv ==
    /\ RecompileType
    /\ Backed(library) /\ Backed(shelf)
    /\ \A l \in Shelves, n \in Titles : round.tombs[l][n] # {} => <<l, n>> \notin disputed
    /\ UnderWay => \A l \in Compiled : GivenUp(l)
    /\ round.pc \in {"open", "read"} => \A l \in Waiting : shelf[l] = library[l]
    /\ round.pc = "land" => \A l \in Shelves : l \in Compiled
    /\ DeskIsBacked
-----------------------------------------------------------------------------
\* The public layer comes first, and every layer once.
LEMMA CommonIsFirst ==
    /\ 1 \in DOMAIN Shelving /\ Common \in Shelves
    /\ \A i \in DOMAIN Shelving : Shelving[i] \in Shelves /\ (Shelving[i] = Common <=> i = 1)
    /\ \A i, j \in DOMAIN Shelving : Shelving[i] = Shelving[j] => i = j
    /\ \A i \in DOMAIN Shelving : i \in Nat \ {0} /\ (i < Len(Shelving) => i + 1 \in DOMAIN Shelving)
                                  /\ i <= Len(Shelving)
<1>1. 1 \in DOMAIN Shelving
  BY RecompileAssumption
<1>2. \A i \in DOMAIN Shelving : Shelving[i] \in Shelves
  BY DEF Shelves
<1>3. ASSUME NEW i \in DOMAIN Shelving PROVE Shelving[i] = Shelving[1] <=> i = 1
  BY <1>1, RecompileAssumption
<1>4. \A i, j \in DOMAIN Shelving : Shelving[i] = Shelving[j] => i = j
  BY RecompileAssumption
<1>5. \A i \in DOMAIN Shelving : i \in Nat \ {0} /\ (i < Len(Shelving) => i + 1 \in DOMAIN Shelving)
                                 /\ i <= Len(Shelving)
  BY RecompileAssumption
<1> QED
  BY <1>1, <1>2, <1>3, <1>4, <1>5 DEF Common

\* The types of the parts of a round.
LEMMA RoundParts ==
    ASSUME RecompileType
    PROVE  /\ round.pc \in {"open", "read", "land", "landed", "refused"} /\ round.at \in DOMAIN Shelving
           /\ round.left \in Seq(Origins) /\ round.own \in SUBSET Titles /\ round.corrected \in BOOLEAN
           /\ round.tombs \in [Shelves -> Books] /\ Layer \in Shelves
<1>1. round \in Rounds
  BY DEF RecompileType
<1>2. /\ round.pc \in {"open", "read", "land", "landed", "refused"} /\ round.at \in DOMAIN Shelving
      /\ round.left \in Seq(Origins) /\ round.own \in SUBSET Titles /\ round.corrected \in BOOLEAN
      /\ round.tombs \in [Shelves -> Books]
  BY <1>1 DEF Rounds
<1> QED
  BY <1>2, CommonIsFirst DEF Layer

\* A layer of no page.
LEMMA BareIsBooks == Bare \in Books /\ \A n \in Titles : Bare[n] = {}
  BY DEF Bare, Books

\* How a layer is opened.
LEMMA OpeningParts ==
    ASSUME NEW i \in DOMAIN Shelving
    PROVE  /\ Opening(i) \in Rounds /\ Opening(i).pc = "open" /\ Opening(i).at = i
           /\ Opening(i).own = {}
           /\ Opening(i).tombs = [m \in Shelves |-> Bare]
<1>1. [m \in Shelves |-> Bare] \in [Shelves -> Books] /\ <<>> \in Seq(Origins)
  BY BareIsBooks
<1> HIDE DEF Bare
<1> QED
  BY <1>1 DEF Opening, Rounds

\* How a recompile ends.
LEMMA EndedParts ==
    ASSUME NEW how \in {"open", "read", "land", "landed", "refused"}
    PROVE  /\ Ended(how) \in Rounds /\ Ended(how).pc = how /\ Ended(how).at = 1
           /\ Ended(how).tombs = [m \in Shelves |-> Bare]
<1>1. 1 \in DOMAIN Shelving
  BY CommonIsFirst
<1>2. /\ Opening(1) \in Rounds /\ Opening(1).pc = "open" /\ Opening(1).at = 1
      /\ Opening(1).tombs = [m \in Shelves |-> Bare]
  BY <1>1, OpeningParts
<1> QED
  BY <1>2 DEF Ended, Rounds

\* A recompile begins with the branch as it is.
LEMMA RecompileInit_Inv == RecompileInit => RecompileInv
<1> SUFFICES ASSUME RecompileInit PROVE RecompileInv
  OBVIOUS
<1>1. /\ library \in [Shelves -> Books] /\ Backed(library)
      /\ disputed \in SUBSET (Shelves \X Titles)
      /\ shelf = library /\ desk = Bare /\ round = Opening(1)
  BY DEF RecompileInit, Books, Backed
<1>2. /\ Opening(1) \in Rounds /\ Opening(1).pc = "open" /\ Opening(1).at = 1 /\ Opening(1).own = {}
      /\ Opening(1).tombs = [m \in Shelves |-> Bare]
  BY CommonIsFirst, OpeningParts
<1>3. RecompileType
  BY <1>1, <1>2, BareIsBooks DEF RecompileType
<1>4. \A l \in Shelves, n \in Titles : round.tombs[l][n] # {} => <<l, n>> \notin disputed
  BY <1>1, <1>2, BareIsBooks
<1>5. Compiled = {}
  BY <1>1, <1>2, CommonIsFirst DEF Compiled
<1>6. DeskIsBacked
  BY <1>1, <1>2 DEF DeskIsBacked
<1> QED
  BY <1>1, <1>2, <1>3, <1>4, <1>5, <1>6 DEF RecompileInv

\* A worktree that is abandoned.
LEMMA RefuseStep ==
    ASSUME RecompileInv, Refuse, UNCHANGED <<library, disputed>> PROVE RecompileInv'
<1>1. shelf' = library /\ desk' = Bare /\ round' = Ended("refused")
  BY DEF Refuse
<1>2. /\ round' \in Rounds /\ round'.pc = "refused" /\ round'.tombs = [m \in Shelves |-> Bare]
  BY <1>1, EndedParts
<1>3. RecompileType'
  BY <1>1, <1>2, BareIsBooks DEF RecompileInv, RecompileType
<1>4. Backed(library)' /\ Backed(shelf)'
  BY <1>1 DEF RecompileInv, Backed
<1>5. \A l \in Shelves, n \in Titles : round'.tombs[l][n] # {} => <<l, n>> \notin disputed'
  BY <1>2, BareIsBooks
<1>6. DeskIsBacked' /\ ~UnderWay'
  BY <1>2 DEF DeskIsBacked, UnderWay
<1> QED
  BY <1>2, <1>3, <1>4, <1>5, <1>6 DEF RecompileInv

\* A layer that is done, or passed over, with what is kept of it.
LEMMA OnwardParts ==
    ASSUME RecompileType, round' = Onward
    PROVE  /\ round' \in Rounds /\ round'.tombs = round.tombs
           /\ \/ /\ round.at < Len(Shelving) /\ round'.pc = "open" /\ round'.at = round.at + 1
                 /\ round'.own = {}
              \/ round.at = Len(Shelving) /\ round'.pc = "land"
<1>0. round.at \in DOMAIN Shelving /\ round.tombs \in [Shelves -> Books]
  BY RoundParts
<1>1. CASE round.at < Len(Shelving)
  <2>1. /\ Opening(round.at + 1) \in Rounds /\ Opening(round.at + 1).pc = "open"
        /\ Opening(round.at + 1).at = round.at + 1 /\ Opening(round.at + 1).own = {}
    BY <1>0, <1>1, CommonIsFirst, OpeningParts
  <2>2. Onward = [Opening(round.at + 1) EXCEPT !.tombs = round.tombs]
    BY <1>1 DEF Onward
  <2> QED
    BY <1>0, <1>1, <2>1, <2>2 DEF Rounds
<1>2. CASE ~(round.at < Len(Shelving))
  <2>1. round.at = Len(Shelving)
    BY <1>0, <1>2, CommonIsFirst, RecompileAssumption
  <2>2. Ended("land") \in Rounds /\ Ended("land").pc = "land"
    BY EndedParts
  <2>3. Onward = [Ended("land") EXCEPT !.tombs = round.tombs]
    BY <1>2 DEF Onward
  <2> QED
    BY <1>0, <2>1, <2>2, <2>3 DEF Rounds
<1> QED
  BY <1>1, <1>2

\* A layer that is done moves on to the next, and leaves its own pages backed.
LEMMA LayerDone ==
    ASSUME RecompileInv, round.pc \in {"open", "read"}, round' = Onward,
           UNCHANGED <<library, disputed>>,
           shelf' \in [Shelves -> Books], desk' \in Books,
           \A l \in Shelves : l # Layer => shelf'[l] = shelf[l],
           \A n \in Titles : WellBacked(Layer, shelf'[Layer][n]),
           \A n \in Titles : /\ library[Layer][n] # {} /\ shelf'[Layer][n] = {}
                             /\ (Layer = Common \/ shelf[Common][n] = {})
                             => round.tombs[Layer][n] = library[Layer][n]
    PROVE  RecompileInv'
<1>0. RecompileType /\ round.at \in DOMAIN Shelving /\ Layer \in Shelves
      /\ round.tombs \in [Shelves -> Books]
      /\ Layer = Shelving[round.at]
  BY RoundParts DEF RecompileInv, Layer
<1>1. /\ round' \in Rounds /\ round'.tombs = round.tombs
      /\ \/ /\ round.at < Len(Shelving) /\ round'.pc = "open" /\ round'.at = round.at + 1
            /\ round'.own = {}
         \/ round.at = Len(Shelving) /\ round'.pc = "land"
  BY <1>0, OnwardParts
<1> PICK at \in DOMAIN Shelving : at = round.at
  BY <1>0
<1> PICK here \in Shelves : here = Layer
  BY <1>0
<1>2. RecompileType'
  BY <1>0, <1>1 DEF RecompileType
<1>3. Backed(shelf)' /\ Backed(library)'
  BY DEF RecompileInv, Backed
<1>4. \A l \in Shelves, n \in Titles : round'.tombs[l][n] # {} => <<l, n>> \notin disputed'
  BY <1>1 DEF RecompileInv
<1>5. Compiled' \subseteq Compiled \cup {here}
  <2> SUFFICES ASSUME NEW j \in DOMAIN Shelving, round'.pc = "land" \/ j < round'.at
               PROVE  Shelving[j] \in Compiled \cup {here}
    BY DEF Compiled
  <2>1. j <= at
    BY <1>1, CommonIsFirst
  <2>2. CASE j = at
    BY <2>2, <1>0
  <2>3. CASE j < at
    BY <2>3 DEF Compiled
  <2> QED
    BY <2>1, <2>2, <2>3, CommonIsFirst
<1>6. ASSUME NEW l \in Compiled' PROVE GivenUp(l)'
  <2>0. l \in Shelves
    BY <1>6, CommonIsFirst DEF Compiled
  <2>1. CASE l = here
    <3>1. Common = here \/ shelf'[Common] = shelf[Common]
      BY CommonIsFirst
    <3>2. \A n \in Titles : /\ library'[here][n] # {} /\ shelf'[here][n] = {}
                            /\ (here = Common \/ shelf'[Common][n] = {})
                            => round'.tombs[here][n] = library'[here][n]
      BY <3>1, <1>1
    <3> QED
      BY <2>1, <3>2 DEF GivenUp
  <2>2. CASE l # here
    <3>1. l \in Compiled
      BY <2>2, <1>5
    <3>2. GivenUp(l)
      BY <3>1 DEF RecompileInv, UnderWay
    <3>3. here # Common
      <4>1. PICK j \in DOMAIN Shelving : l = Shelving[j] /\ j < at
        BY <3>1 DEF Compiled
      <4> QED
        BY <4>1, <1>0, CommonIsFirst
    <3>4. shelf'[l] = shelf[l] /\ shelf'[Common] = shelf[Common]
      BY <2>0, <2>2, <3>3, CommonIsFirst
    <3>5. \A n \in Titles : /\ library'[l][n] # {} /\ shelf'[l][n] = {}
                            /\ (l = Common \/ shelf'[Common][n] = {})
                            => round'.tombs[l][n] = library'[l][n]
      BY <3>2, <3>4, <1>1 DEF GivenUp
    <3> QED
      BY <3>5 DEF GivenUp
  <2> QED
    BY <2>1, <2>2
<1>7. ASSUME NEW l \in Waiting', round'.pc \in {"open", "read"} PROVE shelf'[l] = library'[l]
  <2>1. PICK j \in DOMAIN Shelving : l = Shelving[j] /\ j >= at + 1
    BY <1>7, <1>1, CommonIsFirst DEF Waiting
  <2>2. l \in Waiting /\ l # here
    BY <2>1, <1>0, CommonIsFirst DEF Waiting
  <2> QED
    BY <2>1, <2>2, CommonIsFirst DEF RecompileInv
<1>8. round'.pc = "land" => \A l \in Shelves : l \in Compiled'
  BY DEF Compiled, Shelves
<1>9. DeskIsBacked'
  BY <1>1 DEF DeskIsBacked
<1> QED
  BY <1>2, <1>3, <1>4, <1>6, <1>7, <1>8, <1>9 DEF RecompileInv

\* Opening a layer.
LEMMA OpenLayerStep == ASSUME RecompileInv, OpenLayer PROVE RecompileInv'
<1>0. /\ RecompileType /\ round.at \in DOMAIN Shelving /\ Layer \in Shelves /\ round.pc = "open"
      /\ UNCHANGED <<library, disputed>> /\ Layer \in Waiting /\ shelf[Layer] = library[Layer]
      /\ Reading[Layer] \in Seq(Origins)
      /\ \A i \in DOMAIN Reading[Layer] : ShelfOf[Reading[Layer][i]] = Layer
  <2>1. RecompileType /\ round.at \in DOMAIN Shelving /\ Layer \in Shelves /\ round.pc = "open"
        /\ UNCHANGED <<library, disputed>>
    BY RoundParts DEF RecompileInv, OpenLayer
  <2>2. Layer \in Waiting
    BY <2>1 DEF Waiting, Layer
  <2>3. shelf[Layer] = library[Layer]
    BY <2>1, <2>2 DEF RecompileInv
  <2> QED
    BY <2>1, <2>2, <2>3, RecompileAssumption
<1>1. CASE /\ shelf' = [shelf EXCEPT ![Layer] = Bare]
           /\ desk' = IF Layer = Common THEN Bare ELSE shelf[Common]
           /\ round' = [round EXCEPT !.pc = "read", !.left = Reading[Layer]]
  <2>1. /\ round' \in Rounds /\ round'.pc = "read" /\ round'.left = Reading[Layer]
        /\ round'.at = round.at
        /\ round'.tombs = round.tombs /\ round'.own = round.own
    BY <1>0, <1>1 DEF RecompileType, Rounds
  <2> PICK here \in Shelves : here = Layer
    BY <1>0
  <2> PICK at \in DOMAIN Shelving : at = round.at
    BY <1>0
  <2>a. here = Shelving[at] /\ round'.at = at /\ round.own = {}
    BY <1>0, <2>1 DEF Layer, RecompileInv, DeskIsBacked
  <2>2. Layer' = here
    BY <2>1 DEF Layer
  <2>3. /\ shelf' \in [Shelves -> Books] /\ shelf'[here] = Bare
        /\ \A l \in Shelves : l # here => shelf'[l] = shelf[l]
    BY <1>0, <1>1, BareIsBooks DEF RecompileType
  <2>4. desk' \in Books
    BY <1>0, <1>1, BareIsBooks, CommonIsFirst DEF RecompileType
  <2>5. RecompileType'
    BY <1>0, <2>1, <2>3, <2>4 DEF RecompileType
  <2>6. Backed(library)' /\ Backed(shelf)'
    BY <1>0, <2>3, BareIsBooks DEF RecompileInv, Backed, WellBacked
  <2>7. \A l \in Shelves, n \in Titles : round'.tombs[l][n] # {} => <<l, n>> \notin disputed'
    BY <1>0, <2>1 DEF RecompileInv
  <2>8. ASSUME NEW l \in Compiled' PROVE GivenUp(l)'
    <3>1. l \in Compiled /\ l \in Shelves
      BY <1>0, <2>1, <2>8, CommonIsFirst DEF Compiled
    <3>2. GivenUp(l)
      BY <1>0, <3>1 DEF RecompileInv, UnderWay
    <3>3. l # here /\ Common # here
      <4>1. PICK j \in DOMAIN Shelving : l = Shelving[j] /\ j < at
        BY <1>0, <3>1 DEF Compiled
      <4> QED
        BY <4>1, <2>a, CommonIsFirst
    <3>4. shelf'[l] = shelf[l] /\ shelf'[Common] = shelf[Common]
      BY <3>1, <3>3, <2>3, CommonIsFirst
    <3> QED
      BY <1>0, <2>1, <3>2, <3>4 DEF GivenUp
  <2>9. ASSUME NEW l \in Waiting' PROVE shelf'[l] = library'[l]
    <3>1. l \in Waiting /\ l # here /\ l \in Shelves
      <4>1. PICK j \in DOMAIN Shelving : l = Shelving[j] /\ j > at
        BY <2>1, <2>9, <2>a DEF Waiting
      <4> QED
        BY <4>1, <2>a, CommonIsFirst DEF Waiting
    <3> QED
      BY <1>0, <3>1, <2>3 DEF RecompileInv
  <2>10. DeskIsBacked'
    <3>1. Keep' = IF here = Common THEN {} ELSE Holds(shelf'[Common])
      BY <2>2 DEF Keep, Holds
    <3>2. here # Common => shelf'[Common] = shelf[Common] /\ desk' = shelf[Common]
      BY <1>1, <2>3, CommonIsFirst
    <3>3. \A n \in Titles : shelf[Common][n] \subseteq MayBack(here)
      <4>1. \A n \in Titles : WellBacked(Common, shelf[Common][n])
        BY CommonIsFirst DEF RecompileInv, Backed
      <4> QED
        BY <4>1 DEF WellBacked, MayBack
    <3>4. \A n \in Titles : desk'[n] \subseteq MayBack(here)
      BY <1>1, <3>2, <3>3, BareIsBooks
    <3>5. \A n \in Titles \ Keep' : desk'[n] = {}
      BY <1>1, <3>1, <3>2, BareIsBooks DEF Holds
    <3> QED
      BY <1>0, <2>1, <2>2, <2>3, <2>a, <3>4, <3>5 DEF DeskIsBacked, WellBacked
  <2> QED
    BY <2>1, <2>5, <2>6, <2>7, <2>8, <2>9, <2>10 DEF RecompileInv
<1>2. CASE Layer # Common /\ Holds(Previous) = {} /\ round' = Onward /\ UNCHANGED <<shelf, desk>>
  <2>1. \A n \in Titles : library[Layer][n] = {}
    BY <1>2 DEF Holds, Previous
  <2>2. \A n \in Titles : WellBacked(Layer, shelf'[Layer][n])
    BY <1>0, <1>2, <2>1 DEF WellBacked
  <2>3. shelf' \in [Shelves -> Books] /\ desk' \in Books
    BY <1>0, <1>2 DEF RecompileType
  <2> QED
    BY <1>0, <1>2, <2>1, <2>2, <2>3, LayerDone
<1>3. CASE Refuse
  BY <1>0, <1>3, RefuseStep
<1> QED
  BY <1>1, <1>2, <1>3 DEF OpenLayer, SourcesIn

\* What the plan of one source may leave on the desk.
LEMMA WrittenFacts ==
    ASSUME RecompileInv, round.pc = "read", round.left # <<>>, NEW plan \in Answers
    PROVE  /\ Source \in Origins /\ ShelfOf[Source] = Layer /\ Written(plan) \in Books
           /\ \A n \in Titles : /\ desk[n] \subseteq Written(plan)[n]
                                /\ Written(plan)[n] \subseteq MayBack(Layer)
                                /\ Written(plan)[n] = desk[n] \/ Source \in Written(plan)[n]
           /\ \A n \in plan.adds \cup plan.claim.page : Source \in Written(plan)[n]
           /\ plan.adds \cup plan.claim.page \subseteq Titles
<1>0. /\ RecompileType /\ round.left \in Seq(Origins) /\ Layer \in Shelves
      /\ \A i \in DOMAIN round.left : ShelfOf[round.left[i]] = Layer
      /\ \A n \in Titles : desk[n] \subseteq MayBack(Layer)
  BY RoundParts DEF RecompileInv, DeskIsBacked
<1>1. Source \in Origins /\ ShelfOf[Source] = Layer
  <2>1. Source = round.left[1] /\ 1 \in DOMAIN round.left
    BY <1>0 DEF Source
  <2> QED
    BY <2>1, <1>0
<1>2. Source \in MayBack(Layer)
  BY <1>1 DEF MayBack
<1> HIDE DEF Source
<1>3. plan.adds \subseteq Doing(plan, "update") /\ plan.adds \subseteq Keep
      /\ plan.claim \in {NoClaim} \cup [page : {{n} : n \in Titles}, other : MayBack(Layer)]
  BY DEF Answers
<1>4. plan.claim.page \subseteq Titles /\ plan.claim.other \in MayBack(Layer)
  BY <1>2, <1>3 DEF NoClaim
<1>5. Doing(plan, "update") \subseteq Titles
  BY DEF Doing
<1> DEFINE own(n) == IF n \in Doing(plan, "create") \cup Doing(plan, "update") THEN {Source} ELSE {}
           said(n) == IF n \in plan.claim.page THEN {Source, plan.claim.other} ELSE {}
<1>6. \A n \in Titles : own(n) \subseteq MayBack(Layer) /\ said(n) \subseteq MayBack(Layer)
                        /\ (own(n) = {} \/ Source \in own(n)) /\ (said(n) = {} \/ Source \in said(n))
                        /\ (n \in plan.adds => Source \in own(n))
                        /\ (n \in plan.claim.page => Source \in said(n))
  BY <1>2, <1>3, <1>4
<1>7. Written(plan) = [n \in Titles |-> desk[n] \cup own(n) \cup said(n)]
  BY DEF Written
<1> HIDE DEF own, said
<1>8. \A n \in Titles : Written(plan)[n] = desk[n] \cup own(n) \cup said(n)
  BY <1>7
<1>9. MayBack(Layer) \subseteq Origins
  BY DEF MayBack
<1>10. Written(plan) \in Books
  <2>1. \A n \in Titles : desk[n] \cup own(n) \cup said(n) \in SUBSET Origins
    BY <1>0, <1>6, <1>9
  <2> QED
    BY <2>1, <1>7 DEF Books
<1>11. \A n \in Titles : /\ desk[n] \subseteq Written(plan)[n]
                         /\ Written(plan)[n] \subseteq MayBack(Layer)
                         /\ Written(plan)[n] = desk[n] \/ Source \in Written(plan)[n]
  BY <1>0, <1>6, <1>8
<1>12. \A n \in plan.adds \cup plan.claim.page : n \in Titles /\ Source \in Written(plan)[n]
  BY <1>3, <1>4, <1>5, <1>6, <1>8
<1> QED
  BY <1>1, <1>10, <1>11, <1>12

\* A round that reads on in the same layer, over pages that stay as they were.
LEMMA ReadsOn ==
    ASSUME RecompileInv, round.pc = "read", round' \in Rounds, round'.pc = "read", round'.at = round.at,
           UNCHANGED <<library, disputed, shelf>>, desk' \in Books,
           \A l \in Shelves : l # Layer => round'.tombs[l] = round.tombs[l],
           \A n \in Titles : round'.tombs[Layer][n] # {} => <<Layer, n>> \notin disputed,
           DeskIsBacked'
    PROVE  RecompileInv'
<1>0. RecompileType /\ round.at \in DOMAIN Shelving /\ Layer \in Shelves
  BY RoundParts DEF RecompileInv
<1> PICK at \in DOMAIN Shelving : at = round.at
  BY <1>0
<1> PICK here \in Shelves : here = Layer
  BY <1>0
<1>1. here = Shelving[at]
  BY DEF Layer
<1>2. RecompileType'
  BY <1>0 DEF RecompileType
<1>3. Backed(library)' /\ Backed(shelf)'
  BY DEF RecompileInv, Backed
<1>4. \A l \in Shelves, n \in Titles : round'.tombs[l][n] # {} => <<l, n>> \notin disputed'
  BY DEF RecompileInv
<1>5. ASSUME NEW l \in Compiled' PROVE GivenUp(l)'
  <2>1. PICK j \in DOMAIN Shelving : l = Shelving[j] /\ j < at
    BY <1>5 DEF Compiled
  <2>2. l \in Compiled /\ l # here /\ l \in Shelves
    BY <2>1, <1>1, CommonIsFirst DEF Compiled
  <2>3. GivenUp(l)
    BY <2>2 DEF RecompileInv, UnderWay
  <2> QED
    BY <2>2, <2>3 DEF GivenUp
<1>6. ASSUME NEW l \in Waiting' PROVE shelf'[l] = library'[l]
  <2>1. l \in Waiting
    BY <1>6 DEF Waiting
  <2> QED
    BY <2>1 DEF RecompileInv
<1> QED
  BY <1>2, <1>3, <1>4, <1>5, <1>6 DEF RecompileInv

\* Compiling a source.
LEMMA CompileStep == ASSUME RecompileInv, Compile PROVE RecompileInv'
<1>0. /\ RecompileType /\ round.at \in DOMAIN Shelving /\ Layer \in Shelves /\ round \in Rounds
      /\ round.pc = "read" /\ round.left # <<>> /\ round.left \in Seq(Origins)
      /\ round.own \in SUBSET Titles /\ round.tombs \in [Shelves -> Books]
      /\ UNCHANGED <<library, disputed>>
  BY RoundParts DEF RecompileInv, RecompileType, Compile
<1> PICK here \in Shelves : here = Layer
  BY <1>0
<1>a. round'.at = round.at => Layer' = here
  BY DEF Layer
<1>1. ASSUME NEW plan \in Answers, Disposed(plan), desk' = Written(plan), UNCHANGED shelf,
             round' = [round EXCEPT
                         !.left = Tail(@), !.corrected = FALSE,
                         !.own = @ \cup (Keep \cap (plan.adds \cup plan.claim.page)),
                         !.tombs[Layer] = [n \in Titles |->
                             IF n \in Doing(plan, "delete") THEN @[n] \cup {Source} ELSE @[n]]]
      PROVE  RecompileInv'
  <2>1. /\ Source \in Origins /\ ShelfOf[Source] = here /\ desk' \in Books
        /\ \A n \in Titles : /\ desk[n] \subseteq desk'[n] /\ desk'[n] \subseteq MayBack(here)
                             /\ desk'[n] = desk[n] \/ Source \in desk'[n]
        /\ \A n \in plan.adds \cup plan.claim.page : Source \in desk'[n]
        /\ plan.adds \cup plan.claim.page \subseteq Titles
    BY <1>0, <1>1, WrittenFacts
  <2> PICK source \in Origins : source = Source
    BY <2>1
  <2> DEFINE more == Keep \cap (plan.adds \cup plan.claim.page)
             tomb == [n \in Titles |-> IF n \in Doing(plan, "delete") THEN
                                           round.tombs[here][n] \cup {source}
                                       ELSE round.tombs[here][n]]
             tombs == [round.tombs EXCEPT ![here] = tomb]
  <2>2. tomb \in Books /\ tombs \in [Shelves -> Books]
    BY <1>0 DEF Books
  <2>3. Tail(round.left) \in Seq(Origins)
        /\ \A i \in DOMAIN Tail(round.left) : i + 1 \in DOMAIN round.left
                                              /\ Tail(round.left)[i] = round.left[i + 1]
    BY <1>0
  <2>4. round' = [round EXCEPT !.left = Tail(round.left), !.corrected = FALSE,
                                 !.own = round.own \cup more,
                               !.tombs = tombs]
    BY <1>0, <1>1 DEF Rounds
  <2>5. more \subseteq Titles /\ round.own \cup more \in SUBSET Titles
    BY <1>0, <2>1
  <2> HIDE DEF more, tomb, tombs
  <2>6. /\ round' \in Rounds /\ round'.pc = "read" /\ round'.at = round.at
        /\ round'.left = Tail(round.left)
        /\ round'.own = round.own \cup more /\ round'.tombs = tombs
    BY <1>0, <2>2, <2>3, <2>4, <2>5 DEF Rounds
  <2>7. /\ \A l \in Shelves : l # here => round'.tombs[l] = round.tombs[l]
        /\ round'.tombs[here] = tomb
    BY <1>0, <2>6 DEF tombs
  <2>8. ASSUME NEW n \in Titles, tomb[n] # {} PROVE <<here, n>> \notin disputed
    <3>1. CASE n \in Doing(plan, "delete")
      BY <3>1, <1>1 DEF Disposed
    <3>2. CASE n \notin Doing(plan, "delete")
      <4>1. tomb[n] = round.tombs[here][n]
        BY <3>2 DEF tomb
      <4> QED
        BY <4>1, <2>8 DEF RecompileInv
    <3> QED
      BY <3>1, <3>2
  <2>9. DeskIsBacked'
    <3>1. Keep' = Keep /\ Layer' = here
      BY <1>1, <1>a, <2>6 DEF Keep, Holds
    <3>2. \A i \in DOMAIN round'.left : ShelfOf[round'.left[i]] = here
      BY <1>0, <2>3, <2>6 DEF RecompileInv, DeskIsBacked
    <3>3. ASSUME NEW n \in Titles \ Keep PROVE WellBacked(here, desk'[n])
      <4>1. WellBacked(here, desk[n])
        BY <1>0 DEF RecompileInv, DeskIsBacked
      <4> QED
        BY <4>1, <2>1 DEF WellBacked
    <3>4. ASSUME NEW n \in Keep \cap (round.own \cup more)
          PROVE  \E s \in desk'[n] \ shelf'[Common][n] : ShelfOf[s] = here
      <4>0. n \in Titles
        BY <1>0, <2>5
      <4>1. CASE n \in round.own
        BY <4>0, <4>1, <3>4, <1>0, <1>1, <2>1 DEF RecompileInv, DeskIsBacked
      <4>2. CASE n \in more
        <5>1. source \in desk'[n] /\ ShelfOf[source] = here
          BY <4>2, <2>1 DEF more
        <5>2. here # Common
          BY <3>4 DEF Keep
        <5>3. source \notin shelf[Common][n]
          <6>1. WellBacked(Common, shelf[Common][n])
            BY <4>0, CommonIsFirst DEF RecompileInv, Backed
          <6> QED
            BY <6>1, <5>1, <5>2 DEF WellBacked, MayBack
        <5> QED
          BY <5>1, <5>3, <1>1
      <4> QED
        BY <4>1, <4>2, <3>4
    <3>5. shelf'[here] = Bare
      BY <1>0, <1>1 DEF RecompileInv, DeskIsBacked
    <3> QED
      BY <2>1, <2>6, <3>1, <3>2, <3>3, <3>4, <3>5 DEF DeskIsBacked
  <2> QED
    BY <1>0, <1>1, <2>1, <2>6, <2>7, <2>8, <2>9, ReadsOn
<1>2. CASE round' = [round EXCEPT !.corrected = TRUE] /\ UNCHANGED <<shelf, desk>>
  <2>1. /\ round' \in Rounds /\ round'.pc = "read" /\ round'.at = round.at /\ round'.left = round.left
        /\ round'.own = round.own /\ round'.tombs = round.tombs
    BY <1>0, <1>2 DEF Rounds
  <2>2. DeskIsBacked'
    <3>1. Keep' = Keep /\ Layer' = here
      BY <1>2, <1>a, <2>1 DEF Keep, Holds
    <3> QED
      BY <1>0, <1>2, <2>1, <3>1 DEF RecompileInv, DeskIsBacked
  <2>3. desk' \in Books
    BY <1>0, <1>2 DEF RecompileType
  <2>4. \A n \in Titles : round'.tombs[Layer][n] # {} => <<Layer, n>> \notin disputed
    BY <1>0, <2>1 DEF RecompileInv
  <2> QED
    BY <1>0, <1>2, <2>1, <2>2, <2>3, <2>4, ReadsOn
<1>3. CASE Refuse
  BY <1>0, <1>3, RefuseStep
<1> QED
  BY <1>1, <1>2, <1>3 DEF Compile

\* Closing a layer.
LEMMA CloseLayerStep == ASSUME RecompileInv, CloseLayer PROVE RecompileInv'
<1>0. /\ RecompileType /\ Layer \in Shelves /\ round.pc = "read" /\ UNCHANGED <<library, disputed>>
      /\ desk \in Books /\ shelf \in [Shelves -> Books]
  BY RoundParts DEF RecompileInv, RecompileType, CloseLayer
<1>1. CASE /\ Vanished = {} /\ desk' = Bare /\ round' = Onward
           /\ shelf' = [shelf EXCEPT ![Layer] = [n \in Titles |-> Part(n)]]
  <2>1. \A n \in Titles : Part(n) = IF n \notin Keep THEN desk[n]
                                    ELSE IF n \in round.own THEN desk[n] \ shelf[Common][n] ELSE {}
    BY DEF Part
  <2>2. \A n \in Titles : shelf'[Layer][n] = Part(n)
    BY <1>0, <1>1
  <2>3. shelf' \in [Shelves -> Books] /\ desk' \in Books
    <3>1. \A n \in Titles : desk[n] \subseteq Origins
      BY <1>0 DEF Books
    <3>2. \A n \in Titles : Part(n) \subseteq Origins
      BY <2>1, <3>1
    <3>3. [n \in Titles |-> Part(n)] \in Books
      BY <3>2 DEF Books
    <3> QED
      BY <1>0, <1>1, <3>3, BareIsBooks
  <2>4. \A l \in Shelves : l # Layer => shelf'[l] = shelf[l]
    BY <1>0, <1>1
  <2>5. ASSUME NEW n \in Titles PROVE WellBacked(Layer, Part(n))
    <3>0. desk[n] \subseteq MayBack(Layer)
      BY <1>0 DEF RecompileInv, DeskIsBacked
    <3>1. CASE n \notin Keep
      BY <1>0, <2>1, <3>1 DEF RecompileInv, DeskIsBacked
    <3>2. CASE n \in Keep /\ n \in round.own
      <4>1. PICK s \in desk[n] \ shelf[Common][n] : ShelfOf[s] = Layer
        BY <1>0, <3>2 DEF RecompileInv, DeskIsBacked
      <4>2. Part(n) = desk[n] \ shelf[Common][n]
        BY <2>1, <3>2
      <4> QED
        BY <3>0, <4>1, <4>2 DEF WellBacked
    <3>3. CASE n \in Keep /\ n \notin round.own
      <4>1. Part(n) = {}
        BY <2>1, <3>3
      <4> QED
        BY <4>1 DEF WellBacked
    <3> QED
      BY <3>1, <3>2, <3>3
  <2>6. ASSUME NEW n \in Titles, library[Layer][n] # {}, Part(n) = {},
               Layer = Common \/ shelf[Common][n] = {}
        PROVE  round.tombs[Layer][n] = library[Layer][n]
    <3>1. n \notin Keep
      BY <2>6 DEF Keep, Holds
    <3>2. desk[n] = {}
      BY <2>1, <2>6, <3>1
    <3> QED
      BY <1>1, <2>6, <3>2 DEF Vanished, Previous
  <2> QED
    BY <1>0, <1>1, <2>2, <2>3, <2>4, <2>5, <2>6, LayerDone
<1>2. CASE Refuse
  BY <1>0, <1>2, RefuseStep
<1> QED
  BY <1>1, <1>2 DEF CloseLayer

\* Landing.
LEMMA LandStep == ASSUME RecompileInv, Land PROVE RecompileInv'
<1>0. RecompileType /\ round.pc = "land" /\ UNCHANGED <<disputed, shelf, desk>>
      /\ (library' = shelf \/ library' = library)
      /\ (round' = Ended("landed") \/ round' = Ended("refused"))
  BY DEF RecompileInv, Land
<1>1. /\ round' \in Rounds /\ round'.pc \in {"landed", "refused"}
      /\ round'.tombs = [m \in Shelves |-> Bare]
  BY <1>0, EndedParts
<1>2. RecompileType' /\ Backed(library)' /\ Backed(shelf)'
  BY <1>0, <1>1 DEF RecompileInv, RecompileType, Backed
<1>3. \A l \in Shelves, n \in Titles : round'.tombs[l][n] # {} => <<l, n>> \notin disputed'
  BY <1>1, BareIsBooks
<1>4. DeskIsBacked' /\ ~UnderWay'
  BY <1>1 DEF DeskIsBacked, UnderWay
<1> QED
  BY <1>1, <1>2, <1>3, <1>4 DEF RecompileInv

\* A step of nothing.
LEMMA RecompileStutter == ASSUME RecompileInv, UNCHANGED recompileVars PROVE RecompileInv'
<1>1. library' = library /\ disputed' = disputed /\ shelf' = shelf /\ desk' = desk /\ round' = round
  BY DEF recompileVars
<1>2. RecompileType' /\ Backed(library)' /\ Backed(shelf)'
  BY <1>1 DEF RecompileInv, RecompileType, Backed
<1>3. Compiled' = Compiled /\ Waiting' = Waiting /\ UnderWay' = UnderWay /\ Layer' = Layer
  BY <1>1 DEF Compiled, Waiting, UnderWay, Layer
<1>4. \A l : GivenUp(l)' = GivenUp(l)
  BY <1>1 DEF GivenUp
<1>5. Keep' = Keep
  BY <1>1, <1>3 DEF Keep, Holds
<1>6. DeskIsBacked'
  BY <1>1, <1>3, <1>5 DEF RecompileInv, DeskIsBacked
<1>7. UnderWay' => \A l \in Compiled' : GivenUp(l)'
  BY <1>3, <1>4 DEF RecompileInv
<1> QED
  BY <1>1, <1>2, <1>3, <1>6, <1>7 DEF RecompileInv

LEMMA RecompileNext_Inv == RecompileInv /\ [RecompileNext]_recompileVars => RecompileInv'
  BY OpenLayerStep, CompileStep, CloseLayerStep, LandStep, RecompileStutter DEF RecompileNext

\* The invariant always holds.
LEMMA RecompileSpec_Inv == RecompileSpec => []RecompileInv
  BY RecompileInit_Inv, RecompileNext_Inv, PTL DEF RecompileSpec

\* What a recompile commits of a layer is its own: one of its sources backs every page, and none of a
\* narrower layer does (layered.py:133-218; writer.py:780-870).
THEOREM LayersStayBacked == RecompileSpec => []LayersBackTheirPages
<1>1. RecompileInv => LayersBackTheirPages
  BY DEF RecompileInv, Backed, LayersBackTheirPages
<1> QED
  BY <1>1, RecompileSpec_Inv, PTL

\* A page that is lost was given up by each of its sources, which none does of one in dispute.
LEMMA OnlyWhatWasGivenUpIsLost ==
    ASSUME RecompileInv, [RecompileNext]_recompileVars, NEW l \in Shelves, NEW n \in Lost(l) \ Shown(l)
    PROVE  round.tombs[l][n] = library[l][n] /\ <<l, n>> \notin disputed
<1>0. n \in Titles /\ library[l][n] # {} /\ library'[l][n] = {}
      /\ (l = Common \/ library'[Common][n] = {})
  BY DEF Lost, Shown, Holds
<1>1. library' # library
  BY <1>0
<1>2. Land
  BY <1>1 DEF RecompileNext, OpenLayer, Compile, CloseLayer, recompileVars
<1>3. round.pc = "land" /\ library' = shelf
  BY <1>1, <1>2 DEF Land
<1>4. GivenUp(l)
  BY <1>3 DEF RecompileInv, UnderWay
<1>5. round.tombs[l][n] = library[l][n]
  BY <1>0, <1>3, <1>4 DEF GivenUp
<1> QED
  BY <1>0, <1>5 DEF RecompileInv

\* So it is from any state of the invariant on.
LEMMA GivenUpFromHere == RecompileInv /\ [][RecompileNext]_recompileVars => RecompileKeepsTheRest
<1> DEFINE Asked == \A l \in Shelves : \A n \in Lost(l) \ Shown(l) : round.tombs[l][n] = library[l][n]
           Stays == \A l \in Shelves : \A n \in Lost(l) \ Shown(l) : <<l, n>> \notin disputed
<1>1. RecompileInv /\ [RecompileNext]_recompileVars => Asked /\ Stays
  BY OnlyWhatWasGivenUpIsLost
<1> HIDE DEF Asked, Stays
<1>2. RecompileInv /\ [][RecompileNext]_recompileVars =>
          [][Asked]_recompileVars /\ [][Stays]_recompileVars
  BY <1>1, RecompileNext_Inv, PTL
<1> QED
  BY <1>2 DEF Asked, Stays, RecompileKeepsTheRest, GivenUpByAll, DisputedStays

\* A recompile loses a page only if each source that backs it gave it up, and never one with an
\* unresolved contradiction (writer.py:738-778), for any layers, pages and sources, whichever plans
\* the model makes and wherever the recompile fails.
THEOREM RecompileLosesOnlyTheGivenUp == RecompileSpec => RecompileKeepsTheRest
  BY RecompileInit_Inv, GivenUpFromHere, PTL DEF RecompileSpec

-----------------------------------------------------------------------------
(* Both together.                                                                     *)

\* Of either write, the other is where it begins or ended.
LEMMA PlansInit_Inv == PlansInit => FilingInv /\ RecompileInv
<1>1. PlansInit => Init /\ (RecompileInit \/ Shut)
  BY DEF PlansInit
<1>2. ASSUME Shut PROVE RecompileInv
  <2>1. /\ library = [l \in Shelves |-> Bare] /\ disputed = {} /\ shelf = library /\ desk = Bare
        /\ round = Ended("refused")
    BY <1>2 DEF Shut
  <2>2. /\ round \in Rounds /\ round.pc = "refused" /\ round.tombs = [m \in Shelves |-> Bare]
    BY <2>1, EndedParts
  <2>3. RecompileType
    BY <2>1, <2>2, BareIsBooks DEF RecompileType
  <2>4. Backed(library) /\ Backed(shelf)
    BY <2>1, BareIsBooks DEF Backed, WellBacked
  <2>5. \A l \in Shelves, n \in Titles : round.tombs[l][n] = {}
    BY <2>2, BareIsBooks
  <2> QED
    BY <2>2, <2>3, <2>4, <2>5 DEF RecompileInv, UnderWay, DeskIsBacked
<1> QED
  BY <1>1, <1>2, FilingInit_Inv, RecompileInit_Inv

\* A step of one write is a step of nothing of the other.
LEMMA PlansStep ==
    [PlansNext]_planVars => [Next]_vars /\ [RecompileNext]_recompileVars
  BY DEF PlansNext, planVars

\* A behaviour of both is one of filing, and one of recompiling from its invariant on.
LEMMA PlansBehave ==
    PlansSpec => Spec /\ RecompileInv /\ [][RecompileNext]_recompileVars
<1>1. PlansInit => Init
  BY DEF PlansInit
<1> QED
  BY <1>1, PlansInit_Inv, PlansStep, PTL DEF PlansSpec, Spec

\* The branch a capture, a deletion or a recompile leaves behind is one that lint accepts, the sweeps
\* are enough for the last gate, and each layer backs its own pages (lint.py; writer.py:738-778,
\* 1680-1722): for any layers, pages, texts, captures and sources.
THEOREM BranchStaysSound == PlansSpec => []BranchIsSound
<1>1. RecompileInv /\ [][RecompileNext]_recompileVars => []RecompileInv
  BY RecompileNext_Inv, PTL
<1>2. RecompileInv => LayersBackTheirPages
  BY DEF RecompileInv, Backed, LayersBackTheirPages
<1>3. FilingInv /\ RecompileInv => BranchIsSound
  BY <1>2, FilingInv_Sound, FilingInv_Sweep DEF BranchIsSound
<1> QED
  BY <1>1, <1>3, PlansBehave, FilingSpec_Inv, PTL

\* What is proved of each write holds of the specification of both: a recompile loses only what was
\* given up, and a capture changes only what its accepted plan says, in its layer (writer.py:738-778,
\* 1037-1043, 1602-1621; layered.py:181-218).
THEOREM PlansKeepTheRest ==
    PlansSpec => /\ RecompileKeepsTheRest
                 /\ RejectedArchivesOnly /\ CitedSurvives /\ LayersKeepApart
  BY PlansBehave, GivenUpFromHere, RejectedPlansOnlyArchive, CitedTextsSurvive, LayersStayApart, PTL
=============================================================================
