------------------------ MODULE IndexConvergence_proofs ------------------------
(***************************************************************************)
(* Theorems about IndexConvergence: its types, that the pages of the index *)
(* are the corpus of the commit it says it stands at, and that no push     *)
(* that was reported is forgotten by an index that calls itself clean.     *)
(*                                                                         *)
(* The second is not inductive alone: a push is applied to the index as    *)
(* the files it names, so one must know that a push names every page that  *)
(* differs between its ends, that the handlers hold pushes that were sent, *)
(* and that the checkout of a rebuild is a commit of the branch.           *)
(*                                                                         *)
(* Nor is the third: a rebuild takes the index to its checkout, which may  *)
(* be behind it, so one must know that what is reported while a rebuild    *)
(* goes undisturbed is in its checkout.  That rests on a request that      *)
(* found its push in the index already: it records a push that another     *)
(* delivery recorded, or one that a full rebuild put there.                *)
(***************************************************************************)
EXTENDS IndexConvergence, SequenceTheorems, TLAPS

\* A push names every page that differs between the commits it joins.
PushNamesChanges ==
    \A d \in sent :
        /\ d.before \in 0..Tip
        /\ d.after \in 0..Tip
        /\ \A p \in Pages \ d.changed : Tree(d.before)[p] = Tree(d.after)[p]

\* A handler works on a push that was sent.
JobsSent == \A h \in Handlers : pc[h] # "idle" => job[h] \in sent

\* What the index and the rebuild name are commits of the branch.
OnBranch == checkout \in 0..Tip /\ indexed \in 0..Tip

IndexInv ==
    /\ TypeOK
    /\ PushNamesChanges
    /\ JobsSent
    /\ OnBranch
    /\ IndexIsCorpus

-----------------------------------------------------------------------------

\* The tree of a commit has a version for each page.
LEMMA TreeType ==
    ASSUME TypeOK, NEW n \in 0..Tip
    PROVE  Tree(n) \in [Pages -> Nat]
  BY DEF TypeOK, Tree, Tip, EmptyTree

\* Commits are added at the end of the branch and change none before them.
LEMMA TreesKept ==
    ASSUME TypeOK, NEW s \in Seq([Pages -> Nat]), trees' = trees \o s, NEW n \in 0..Tip
    PROVE  Tree(n)' = Tree(n)
  BY DEF TypeOK, Tree, Tip, EmptyTree

\* A push whose commits are added at the end, and which names every page that
\* differs between its ends, keeps what is known of the pushes.
LEMMA BranchGrows ==
    ASSUME TypeOK, PushNamesChanges, OnBranch, IndexIsCorpus,
           NEW s \in Seq([Pages -> Nat]),
           NEW changed \in SUBSET Pages,
           Len(s) > 0,
           \A p \in Pages \ changed : Tree(Tip)[p] = s[Len(s)][p],
           trees' = trees \o s,
           sent' = sent \cup {[before |-> Tip, after |-> Tip + Len(s), changed |-> changed]},
           UNCHANGED <<pages, indexed, checkout>>
    PROVE  /\ trees' \in Seq([Pages -> Nat])
           /\ sent' \subseteq Push
           /\ PushNamesChanges'
           /\ OnBranch'
           /\ IndexIsCorpus'
<1>1. trees \in Seq([Pages -> Nat]) /\ Tip \in Nat /\ Len(s) \in Nat
  BY DEF TypeOK, Tip
<1>2. trees' \in Seq([Pages -> Nat]) /\ Tip' = Tip + Len(s)
  BY <1>1 DEF Tip
<1>3. sent' \subseteq Push
  BY <1>1 DEF TypeOK, Push
<1>4. \A n \in 0..Tip : Tree(n)' = Tree(n)
  BY TreesKept
<1>5. Tree(Tip)' = s[Len(s)]
  <2>1. trees'[Tip + Len(s)] = s[Len(s)]
    BY <1>1 DEF Tip
  <2>2. Tip' # 0
    BY <1>1, <1>2
  <2> QED
    BY <2>1, <2>2, <1>2 DEF Tree
<1>6. PushNamesChanges'
  <2> SUFFICES ASSUME NEW d \in sent'
               PROVE  /\ d.before \in 0..Tip'
                      /\ d.after \in 0..Tip'
                      /\ \A p \in Pages \ d.changed : Tree(d.before)'[p] = Tree(d.after)'[p]
    BY DEF PushNamesChanges
  <2>1. CASE d \in sent
    BY <2>1, <1>1, <1>2, <1>4 DEF PushNamesChanges
  <2>2. CASE d = [before |-> Tip, after |-> Tip + Len(s), changed |-> changed]
    <3>1. Tree(d.before)' = Tree(Tip)
      BY <2>2, <1>1, <1>4
    <3>2. Tree(d.after)' = s[Len(s)]
      <4>1. d.after = Tip'
        BY <2>2, <1>2
      <4> QED
        BY <4>1, <1>5 DEF Tree
    <3> QED
      BY <2>2, <3>1, <3>2, <1>1, <1>2
  <2> QED
    BY <2>1, <2>2
<1>7. OnBranch'
  BY <1>1, <1>2 DEF OnBranch
<1>8. IndexIsCorpus'
  BY <1>4 DEF OnBranch, IndexIsCorpus
<1> QED
  BY <1>2, <1>3, <1>6, <1>7, <1>8

\* The same for one page, as the writer and others push it.
LEMMA PushCommitGrows ==
    ASSUME TypeOK, PushNamesChanges, OnBranch, IndexIsCorpus,
           NEW p \in Pages, NEW removed \in BOOLEAN, PushCommit(p, removed),
           UNCHANGED <<pages, indexed, checkout>>
    PROVE  /\ trees' \in Seq([Pages -> Nat])
           /\ sent' \subseteq Push
           /\ sent \subseteq sent'
           /\ PushNamesChanges'
           /\ OnBranch'
           /\ IndexIsCorpus'
<1> DEFINE t == [Tree(Tip) EXCEPT ![p] = IF removed THEN 0 ELSE Tip + 1]
<1>1. Tip \in Nat /\ Tree(Tip) \in [Pages -> Nat]
  BY TreeType DEF TypeOK, Tip
<1>2. t \in [Pages -> Nat] /\ \A q \in Pages \ {p} : Tree(Tip)[q] = t[q]
  BY <1>1
<1>3. trees' = trees \o <<t>>
  <2>1. trees' = Append(trees, t) /\ trees \in Seq([Pages -> Nat])
    BY DEF PushCommit, TypeOK
  <2> HIDE DEF t
  <2> QED
    BY <1>2, <2>1, AppendIsConcat
<1>4. sent' = sent \cup {[before |-> Tip, after |-> Tip + 1, changed |-> {p}]}
  BY DEF PushCommit
<1> HIDE DEF t
<1>5. <<t>> \in Seq([Pages -> Nat]) /\ Len(<<t>>) = 1 /\ <<t>>[1] = t
  BY <1>2
<1>6. \A q \in Pages \ {p} : Tree(Tip)[q] = <<t>>[Len(<<t>>)][q]
  BY <1>2, <1>5
<1>7. sent' = sent \cup {[before |-> Tip, after |-> Tip + Len(<<t>>), changed |-> {p}]}
  BY <1>4, <1>5
<1>8. {p} \in SUBSET Pages /\ Len(<<t>>) > 0
  BY <1>5
<1>9. /\ trees' \in Seq([Pages -> Nat])
      /\ sent' \subseteq Push
      /\ PushNamesChanges'
      /\ OnBranch'
      /\ IndexIsCorpus'
  BY <1>3, <1>5, <1>6, <1>7, <1>8, BranchGrows
<1> QED
  BY <1>4, <1>9

\* Where the branch stays, so does what is known of its pushes.
LEMMA BranchKept ==
    ASSUME PushNamesChanges, UNCHANGED branchVars
    PROVE  PushNamesChanges'
  BY DEF PushNamesChanges, branchVars, Tip, Tree, EmptyTree

-----------------------------------------------------------------------------

LEMMA InitIndexInv == Init => IndexInv
<1> SUFFICES ASSUME Init PROVE IndexInv
  OBVIOUS
<1> USE IndexAssumption
<1>1. TypeOK
  <2>1. trees \in Seq([Pages -> Nat]) /\ sent \subseteq Push
    BY DEF Init
  <2>2. /\ job \in [Handlers -> Push \cup {NoPush}]
        /\ pc \in [Handlers -> {"idle", "reading", "current", "deferring", "applying"}]
        /\ \A h \in Handlers : pc[h] = "idle"
    BY DEF Init
  <2>3. /\ status \in [Captures -> {"absent", "queued", "publishing", "recorded", "landed", "failed"}]
        /\ commitOf \in [Captures -> Nat]
        /\ pages \in [Pages -> Nat]
    BY DEF Init, EmptyTree
  <2> QED
    BY <2>1, <2>2, <2>3 DEF Init, TypeOK, Times
<1>2. PushNamesChanges /\ JobsSent
  BY DEF Init, PushNamesChanges, JobsSent
<1>3. OnBranch
  BY DEF Init, OnBranch, Tip
<1>4. IndexIsCorpus
  BY DEF Init, IndexIsCorpus, Tree
<1> QED
  BY <1>1, <1>2, <1>3, <1>4 DEF IndexInv

-----------------------------------------------------------------------------

\* A step that leaves the branch, the index and the checkout alone.
LEMMA CorpusKept ==
    ASSUME IndexInv, UNCHANGED <<branchVars, pages, indexed, checkout>>
    PROVE  PushNamesChanges' /\ OnBranch' /\ IndexIsCorpus'
<1>1. PushNamesChanges'
  BY BranchKept DEF IndexInv
<1>2. OnBranch'
  BY DEF IndexInv, OnBranch, branchVars, Tip
<1>3. IndexIsCorpus'
  BY DEF IndexInv, IndexIsCorpus, Tree, EmptyTree, branchVars
<1> QED
  BY <1>1, <1>2, <1>3

\* The steps that only push, of the writer and of others.
LEMMA PushSteps ==
    ASSUME IndexInv,
           \/ \E c \in Captures : Publish(c)
           \/ OthersPush
           \/ OthersPushTwo
    PROVE  IndexInv'
<1> USE DEF branchVars, writerVars, healthVars, indexVars, handlerVars, adminVars, boundVars
<1>1. ASSUME NEW c \in Captures, Publish(c) PROVE IndexInv'
  <2>1. PICK p \in Pages : PushCommit(p, FALSE)
    BY <1>1 DEF Publish
  <2>2. UNCHANGED <<pages, indexed, checkout>>
    BY <1>1 DEF Publish
  <2>3. /\ trees' \in Seq([Pages -> Nat])
        /\ sent' \subseteq Push
        /\ sent \subseteq sent'
        /\ PushNamesChanges'
        /\ OnBranch'
        /\ IndexIsCorpus'
    BY <2>1, <2>2, PushCommitGrows DEF IndexInv
  <2>4. TypeOK'
    BY <1>1, <2>3 DEF IndexInv, TypeOK, Publish, Tip
  <2>5. JobsSent'
    BY <1>1, <2>3 DEF IndexInv, JobsSent, Publish
  <2> QED
    BY <2>3, <2>4, <2>5 DEF IndexInv
<1>2. CASE OthersPush
  <2>1. PICK p \in Pages, removed \in BOOLEAN : PushCommit(p, removed)
    BY <1>2 DEF OthersPush
  <2>2. UNCHANGED <<pages, indexed, checkout>>
    BY <1>2 DEF OthersPush
  <2>3. /\ trees' \in Seq([Pages -> Nat])
        /\ sent' \subseteq Push
        /\ sent \subseteq sent'
        /\ PushNamesChanges'
        /\ OnBranch'
        /\ IndexIsCorpus'
    BY <2>1, <2>2, PushCommitGrows DEF IndexInv
  <2>4. TypeOK'
    BY <1>2, <2>3 DEF IndexInv, TypeOK, OthersPush
  <2>5. JobsSent'
    BY <1>2, <2>3 DEF IndexInv, JobsSent, OthersPush
  <2> QED
    BY <2>3, <2>4, <2>5 DEF IndexInv
<1>3. CASE OthersPushTwo
  <2> DEFINE first(p) == [Tree(Tip) EXCEPT ![p] = Tip + 1]
             second(p, q) == [first(p) EXCEPT ![q] = Tip + 2]
  <2>1. PICK p \in Pages, q \in Pages :
          /\ trees' = trees \o <<first(p), second(p, q)>>
          /\ sent' = sent \cup {[before |-> Tip, after |-> Tip + 2, changed |-> {p, q}]}
    BY <1>3 DEF OthersPushTwo
  <2>2. UNCHANGED <<pages, indexed, checkout>>
    BY <1>3 DEF OthersPushTwo
  <2>3. Tip \in Nat /\ Tree(Tip) \in [Pages -> Nat]
    BY TreeType DEF IndexInv, TypeOK, Tip
  <2>4. /\ first(p) \in [Pages -> Nat]
        /\ second(p, q) \in [Pages -> Nat]
        /\ \A r \in Pages \ {p, q} : Tree(Tip)[r] = second(p, q)[r]
    BY <2>3
  <2> HIDE DEF first, second
  <2> DEFINE s == <<first(p), second(p, q)>>
  <2>5. s \in Seq([Pages -> Nat]) /\ Len(s) = 2 /\ s[2] = second(p, q)
    BY <2>4
  <2>6. \A r \in Pages \ {p, q} : Tree(Tip)[r] = s[Len(s)][r]
    BY <2>4, <2>5
  <2>7. /\ trees' = trees \o s
        /\ sent' = sent \cup {[before |-> Tip, after |-> Tip + Len(s), changed |-> {p, q}]}
    BY <2>1, <2>5
  <2>8. {p, q} \in SUBSET Pages /\ Len(s) > 0
    BY <2>5
  <2>9. TypeOK /\ PushNamesChanges /\ OnBranch /\ IndexIsCorpus
    BY DEF IndexInv
  <2> HIDE DEF s
  <2>10. /\ trees' \in Seq([Pages -> Nat])
         /\ sent' \subseteq Push
         /\ PushNamesChanges'
         /\ OnBranch'
         /\ IndexIsCorpus'
    BY <2>2, <2>5, <2>6, <2>7, <2>8, <2>9, BranchGrows
  <2>11. TypeOK'
    <3>1. /\ others' = others + 2
          /\ UNCHANGED <<writerVars, healthVars, indexVars, handlerVars, adminVars, deliveries,
                         faults, asks>>
      BY <1>3 DEF OthersPushTwo
    <3> QED
      BY <2>10, <3>1 DEF IndexInv, TypeOK
  <2>12. JobsSent'
    BY <1>3, <2>7 DEF IndexInv, JobsSent, OthersPushTwo
  <2> QED
    BY <2>10, <2>11, <2>12 DEF IndexInv
<1> QED
  BY <1>1, <1>2, <1>3

\* A handler that answers leaves the others on pushes that were sent.
LEMMA AnswerKeeps ==
    ASSUME IndexInv, NEW h \in Handlers, Answer(h), UNCHANGED sent
    PROVE  /\ JobsSent'
           /\ pc' \in [Handlers -> {"idle", "reading", "current", "deferring", "applying"}]
           /\ job' \in [Handlers -> Push \cup {NoPush}]
           /\ \A g \in Handlers : pc'[g] # "idle" => job'[g] \in Push
  BY DEF IndexInv, TypeOK, JobsSent, Answer

\* The push a handler works on.
LEMMA JobType ==
    ASSUME IndexInv, NEW h \in Handlers, pc[h] # "idle"
    PROVE  /\ job[h] \in sent
           /\ job[h] \in Push
           /\ job[h].before \in Nat
           /\ job[h].after \in Nat
  BY DEF IndexInv, TypeOK, JobsSent, Push

\* The steps of a webhook request.
LEMMA HandlerSteps ==
    ASSUME IndexInv, NEW h \in Handlers,
           \/ Handler(h)
           \/ FailHandler(h)
           \/ \E d \in sent : Receive(h, d)
    PROVE  IndexInv'
<1> USE DEF branchVars, writerVars, healthVars, indexVars, handlerVars, adminVars, boundVars
<1>1. ASSUME NEW d \in sent, Receive(h, d) PROVE IndexInv'
  <2>1. TypeOK'
    BY <1>1 DEF IndexInv, TypeOK, Receive
  <2>2. JobsSent'
    BY <1>1 DEF IndexInv, TypeOK, JobsSent, Receive
  <2> QED
    BY <1>1, <2>1, <2>2, CorpusKept DEF IndexInv, Receive
<1>2. CASE Read(h)
  <2>1. TypeOK'
    <3>1. UNCHANGED <<branchVars, writerVars, healthVars, indexVars, job, adminVars, boundVars>>
      BY <1>2 DEF Read
    <3>2. \/ pc' = [pc EXCEPT ![h] = "current"] \/ pc' = [pc EXCEPT ![h] = "deferring"]
          \/ pc' = [pc EXCEPT ![h] = "applying"]
      BY <1>2 DEF Read
    <3>3. job[h] \in Push
      BY <1>2 DEF IndexInv, TypeOK, Read
    <3> QED
      BY <3>1, <3>2, <3>3 DEF IndexInv, TypeOK, branchVars, writerVars, healthVars, indexVars, adminVars,
         boundVars
  <2>2. JobsSent'
    BY <1>2 DEF IndexInv, TypeOK, JobsSent, Read
  <2> QED
    BY <1>2, <2>1, <2>2, CorpusKept DEF IndexInv, Read
<1>3. CASE RecordCurrent(h)
  <2>1. job[h].after \in Nat
    BY <1>3, JobType DEF RecordCurrent
  <2>2. TypeOK' /\ JobsSent'
    BY <1>3, <2>1, AnswerKeeps DEF IndexInv, TypeOK, RecordCurrent, RecordDelivery
  <2> QED
    BY <1>3, <2>2, CorpusKept DEF IndexInv, RecordCurrent
<1>4. CASE Defer(h)
  <2>1. job[h].after \in Nat
    BY <1>4, JobType DEF Defer
  <2>2. TypeOK' /\ JobsSent'
    BY <1>4, <2>1, AnswerKeeps DEF IndexInv, TypeOK, Defer, RecordDelivery, MarkDirty
  <2> QED
    BY <1>4, <2>2, CorpusKept DEF IndexInv, Defer, MarkDirty
<1>5. CASE FailHandler(h)
  <2>1. job[h].after \in Nat
    BY <1>5, JobType DEF FailHandler
  <2>2. head' \in Nat /\ dirty' \in BOOLEAN /\ undisturbed' \in BOOLEAN
    BY <1>5, <2>1 DEF IndexInv, TypeOK, FailHandler, MarkDirty
  <2>3. faults' \in Nat
    BY <1>5 DEF IndexInv, TypeOK, FailHandler
  <2>4. /\ JobsSent'
        /\ pc' \in [Handlers -> {"idle", "reading", "current", "deferring", "applying"}]
        /\ job' \in [Handlers -> Push \cup {NoPush}]
        /\ \A g \in Handlers : pc'[g] # "idle" => job'[g] \in Push
    BY <1>5, AnswerKeeps DEF FailHandler
  <2>5. TypeOK'
    BY <1>5, <2>2, <2>3, <2>4 DEF IndexInv, TypeOK, FailHandler
  <2> QED
    BY <1>5, <2>4, <2>5, CorpusKept DEF IndexInv, FailHandler
<1>6. CASE Apply(h)
  <2> DEFINE d == job[h]
  <2>1. /\ d \in sent
        /\ d.before \in Nat
        /\ d.after \in Nat
    BY <1>6, JobType DEF Apply
  <2>2. /\ d.before \in 0..Tip
        /\ d.after \in 0..Tip
        /\ \A p \in Pages \ d.changed : Tree(d.before)[p] = Tree(d.after)[p]
    BY <2>1 DEF IndexInv, PushNamesChanges
  <2>3. Tree(d.before) \in [Pages -> Nat] /\ Tree(d.after) \in [Pages -> Nat]
    BY <2>2, TreeType DEF IndexInv
  <2>4. CASE ~dirty /\ indexed = d.before /\ pages' = WithChanges(d)
             /\ RecordIncremental(h) /\ UNCHANGED dirty
    <3>1. pages = Tree(d.before)
      BY <2>4 DEF IndexInv, IndexIsCorpus
    <3>2. pages' = Tree(d.after)
      BY <2>2, <2>3, <2>4, <3>1 DEF WithChanges
    <3>3. TypeOK' /\ JobsSent'
      BY <1>6, <2>1, <2>3, <2>4, <3>2, AnswerKeeps
         DEF IndexInv, TypeOK, Times, Apply, RecordDelivery, RecordIncremental
    <3>4. PushNamesChanges'
      BY <1>6, BranchKept DEF IndexInv, Apply
    <3>5. OnBranch'
      BY <1>6, <2>2, <2>4 DEF IndexInv, OnBranch, Apply, RecordIncremental, Tip
    <3>6. IndexIsCorpus'
      BY <1>6, <2>4, <3>2 DEF IndexIsCorpus, Apply, RecordIncremental, Tree, EmptyTree
    <3> QED
      BY <3>3, <3>4, <3>5, <3>6 DEF IndexInv
  <2>5. CASE MarkDirty(h) /\ UNCHANGED <<indexed, lastInc, pages>>
    <3>1. TypeOK' /\ JobsSent'
      BY <1>6, <2>1, <2>5, AnswerKeeps DEF IndexInv, TypeOK, Apply, RecordDelivery, MarkDirty
    <3> QED
      BY <1>6, <2>5, <3>1, CorpusKept DEF IndexInv, Apply
  <2> QED
    BY <1>6, <2>4, <2>5 DEF Apply
<1> QED
  BY <1>1, <1>2, <1>3, <1>4, <1>5, <1>6 DEF Handler

\* The steps of the rebuild.
LEMMA RebuildSteps ==
    ASSUME IndexInv, Fetch \/ ReadHealth \/ Replace \/ Abandon \/ AskRebuild
    PROVE  IndexInv'
<1> USE DEF branchVars, writerVars, healthVars, indexVars, handlerVars, adminVars, boundVars
<1>1. CASE Fetch
  <2>1. TypeOK' /\ JobsSent'
    BY <1>1 DEF IndexInv, TypeOK, JobsSent, Fetch, Tip
  <2>2. PushNamesChanges'
    BY <1>1, BranchKept DEF IndexInv, Fetch
  <2>3. OnBranch' /\ IndexIsCorpus'
    BY <1>1 DEF IndexInv, TypeOK, OnBranch, IndexIsCorpus, Fetch, Tip, Tree, EmptyTree
  <2> QED
    BY <2>1, <2>2, <2>3 DEF IndexInv
<1>2. CASE ReadHealth
  <2>1. TypeOK' /\ JobsSent'
    BY <1>2 DEF IndexInv, TypeOK, JobsSent, ReadHealth
  <2> QED
    BY <1>2, <2>1, CorpusKept DEF IndexInv, ReadHealth
<1>3. CASE Replace
  <2>1. checkout \in 0..Tip /\ Tree(checkout) \in [Pages -> Nat]
    BY TreeType DEF IndexInv, OnBranch
  <2>2. TypeOK' /\ JobsSent'
    BY <1>3, <2>1 DEF IndexInv, TypeOK, Times, JobsSent, Replace
  <2>3. PushNamesChanges'
    BY <1>3, BranchKept DEF IndexInv, Replace
  <2>4. OnBranch' /\ IndexIsCorpus'
    BY <1>3, <2>1 DEF OnBranch, IndexIsCorpus, Replace, Tip, Tree, EmptyTree
  <2> QED
    BY <2>2, <2>3, <2>4 DEF IndexInv
<1>4. CASE Abandon
  <2>1. TypeOK' /\ JobsSent'
    BY <1>4 DEF IndexInv, TypeOK, JobsSent, Abandon
  <2> QED
    BY <1>4, <2>1, CorpusKept DEF IndexInv, Abandon
<1>5. CASE AskRebuild
  <2>1. TypeOK'
    <3>1. asks' \in Nat /\ lastFull' \in Times
      BY <1>5 DEF IndexInv, TypeOK, Times, AskRebuild
    <3> QED
      BY <1>5, <3>1 DEF IndexInv, TypeOK, AskRebuild
  <2>2. JobsSent'
    BY <1>5 DEF IndexInv, JobsSent, AskRebuild
  <2> QED
    BY <1>5, <2>1, <2>2, CorpusKept DEF IndexInv, AskRebuild
<1> QED
  BY <1>1, <1>2, <1>3, <1>4, <1>5

\* The steps of captures, of the idle stop and of the administrator.
LEMMA OtherSteps ==
    ASSUME IndexInv,
           \/ \E c \in Captures : Submit(c) \/ Record(c) \/ Land(c) \/ FailCapture(c)
           \/ Sleep
           \/ Admin
           \/ UNCHANGED vars
    PROVE  IndexInv'
<1> USE DEF branchVars, writerVars, healthVars, indexVars, handlerVars, adminVars, boundVars
<1>1. ASSUME NEW c \in Captures, Submit(c) \/ Record(c) \/ Land(c) \/ FailCapture(c)
      PROVE  IndexInv'
  <2>1. TypeOK'
    <3>1. CASE Submit(c)
      BY <3>1 DEF IndexInv, TypeOK, Submit
    <3>2. CASE Record(c)
      BY <3>2 DEF IndexInv, TypeOK, Times, Record, Older
    <3>3. CASE Land(c)
      BY <3>3 DEF IndexInv, TypeOK, Land
    <3>4. CASE FailCapture(c)
      BY <3>4 DEF IndexInv, TypeOK, FailCapture
    <3> QED
      BY <1>1, <3>1, <3>2, <3>3, <3>4
  <2>2. JobsSent'
    BY <1>1 DEF IndexInv, JobsSent, Submit, Record, Land, FailCapture
  <2>3. UNCHANGED <<branchVars, pages, indexed, checkout>>
    BY <1>1 DEF Submit, Record, Land, FailCapture
  <2> QED
    BY <2>1, <2>2, <2>3, CorpusKept DEF IndexInv
<1>2. CASE Sleep
  <2>1. TypeOK' /\ JobsSent'
    BY <1>2 DEF IndexInv, TypeOK, JobsSent, Sleep
  <2> QED
    BY <1>2, <2>1, CorpusKept DEF IndexInv, Sleep
<1>3. CASE Admin
  <2>1. TypeOK'
    BY <1>3 DEF IndexInv, TypeOK, Admin, CheckHealth, CheckPages, DeleteLayer
  <2>2. JobsSent'
    BY <1>3 DEF IndexInv, JobsSent, Admin, CheckHealth, CheckPages, DeleteLayer
  <2>3. UNCHANGED <<branchVars, pages, indexed, checkout>>
    BY <1>3 DEF Admin, CheckHealth, CheckPages, DeleteLayer
  <2> QED
    BY <2>1, <2>2, <2>3, CorpusKept DEF IndexInv
<1>4. CASE UNCHANGED vars
  <2>1. TypeOK' /\ JobsSent'
    BY <1>4 DEF IndexInv, TypeOK, JobsSent, vars
  <2> QED
    BY <1>4, <2>1, CorpusKept DEF IndexInv, vars
<1> QED
  BY <1>1, <1>2, <1>3, <1>4

LEMMA NextIndexInv == IndexInv /\ [Next]_vars => IndexInv'
  BY PushSteps, HandlerSteps, RebuildSteps, OtherSteps DEF Next, Writer

-----------------------------------------------------------------------------

\* The inductive invariant holds in every reachable state.
THEOREM IndexInvariant == Spec => []IndexInv
  BY InitIndexInv, NextIndexInv, PTL DEF Spec

\* Types: the branch, the health row, the pages, the handlers and the bounds, for
\* any number of pages, captures and concurrent webhook requests.
THEOREM IndexTypeCorrect == Spec => []TypeOK
<1>1. IndexInv => TypeOK
  BY DEF IndexInv
<1> QED
  BY <1>1, IndexInvariant, PTL

\* Whatever pushes cross, repeat, overtake each other or are lost, and however the
\* rebuild crosses them, process_push and rebuild leave the pages of exactly the
\* commit that index_health names.
THEOREM IndexHoldsItsCommit == Spec => []IndexIsCorpus
<1>1. IndexInv => IndexIsCorpus
  BY DEF IndexInv
<1> QED
  BY <1>1, IndexInvariant, PTL
-----------------------------------------------------------------------------
(* What was reported.                                                      *)

\* A push ends after it begins.
PushesGoForward == \A d \in sent : d.before < d.after

RecordedOnBranch == recorded \subseteq 0..Tip

\* The index stands where a push took it, or no further than the checkout.
IndexedIsReportedOrBuilt == indexed \in recorded \/ indexed <= checkout

\* A request that found its push in the index: another delivery of it was recorded, or
\* a rebuild put it there.
CurrentIsKept ==
    \A h \in Handlers : pc[h] = "current" =>
        job[h].after \in recorded \/ (job[h].after <= checkout /\ job[h].after <= indexed)

\* What was reported since an undisturbed rebuild read the row is in its checkout.
BuildHoldsReports ==
    worker = "building" /\ undisturbed => \A d \in recorded \ known : d <= checkout

\* While only the writer pushes, the checkout of a rebuild stays at the tip.
CheckoutIsTip == others = 0 /\ worker \in {"fetched", "building"} => checkout = Tip

ReportInv ==
    /\ PushesGoForward
    /\ RecordedOnBranch
    /\ IndexedIsReportedOrBuilt
    /\ CurrentIsKept
    /\ BuildHoldsReports
    /\ CheckoutIsTip
    /\ ReportsAreKept

\* The numbers compared are naturals.
LEMMA ReportTypes ==
    ASSUME IndexInv
    PROVE  /\ Tip \in Nat /\ indexed \in 0..Tip /\ checkout \in 0..Tip /\ recorded \subseteq Nat
           /\ \A h \in Handlers : pc[h] # "idle" =>
                /\ job[h] \in sent
                /\ job[h].after \in 0..Tip
                /\ job[h].before \in 0..Tip
  BY DEF IndexInv, TypeOK, OnBranch, JobsSent, PushNamesChanges, Tip

LEMMA InitReportInv == Init => ReportInv
  BY DEF Init, ReportInv, PushesGoForward, RecordedOnBranch, IndexedIsReportedOrBuilt,
         CurrentIsKept, BuildHoldsReports, CheckoutIsTip, ReportsAreKept,
         ReportedIsIndexedOrDirty, ReportedSinceRebuild

\* A step that records nothing, moves neither the branch, the index nor a checkout and
\* clears nothing.
LEMMA ReportsStand ==
    ASSUME ReportInv,
           UNCHANGED <<branchVars, checkout, indexed, recorded, known, others>>,
           dirty => dirty',
           \A h \in Handlers : pc'[h] = "current" => pc[h] = "current" /\ job'[h] = job[h],
           worker' = "building" /\ undisturbed' => worker = "building" /\ undisturbed,
           worker' \in {"fetched", "building"} => worker' = worker
    PROVE  ReportInv'
<1> USE DEF branchVars
<1>1. PushesGoForward' /\ RecordedOnBranch' /\ IndexedIsReportedOrBuilt'
  BY DEF ReportInv, PushesGoForward, RecordedOnBranch, IndexedIsReportedOrBuilt, Tip
<1>2. CurrentIsKept'
  BY DEF ReportInv, CurrentIsKept
<1>3. BuildHoldsReports' /\ CheckoutIsTip'
  BY DEF ReportInv, BuildHoldsReports, CheckoutIsTip, Tip
<1>4. ReportsAreKept'
  BY DEF ReportInv, ReportsAreKept, ReportedIsIndexedOrDirty, ReportedSinceRebuild
<1> QED
  BY <1>1, <1>2, <1>3, <1>4 DEF ReportInv

\* A push makes the branch longer, and either others made it or the writer that holds
\* the lock.
LEMMA PushReports ==
    ASSUME IndexInv, ReportInv,
           \/ \E c \in Captures : Publish(c)
           \/ OthersPush
           \/ OthersPushTwo
    PROVE  ReportInv'
<1> USE DEF branchVars, writerVars, healthVars, indexVars, handlerVars, adminVars, boundVars
<1>1. Tip \in Nat /\ trees \in Seq([Pages -> Nat]) /\ others \in Nat
  BY DEF IndexInv, TypeOK, Tip
<1>2. \E k \in {1, 2} : /\ Len(trees') = Len(trees) + k
                        /\ \A d \in sent' : d \in sent \/ (d.before = Tip /\ d.after = Tip + k)
  <2>1. ASSUME NEW p \in Pages, NEW removed \in BOOLEAN, PushCommit(p, removed)
        PROVE  /\ Len(trees') = Len(trees) + 1
               /\ \A d \in sent' : d \in sent \/ (d.before = Tip /\ d.after = Tip + 1)
    <3> DEFINE t == [Tree(Tip) EXCEPT ![p] = IF removed THEN 0 ELSE Tip + 1]
    <3>1. trees' = Append(trees, t)
      BY <2>1 DEF PushCommit
    <3> HIDE DEF t
    <3>2. Len(trees') = Len(trees) + 1
      BY <1>1, <3>1
    <3> QED
      BY <2>1, <3>2 DEF PushCommit
  <2>2. ASSUME NEW c \in Captures, Publish(c)
        PROVE  \E p \in Pages : PushCommit(p, FALSE)
    BY <2>2 DEF Publish
  <2>3. CASE OthersPushTwo
    <3> DEFINE first(p) == [Tree(Tip) EXCEPT ![p] = Tip + 1]
               second(p, q) == [first(p) EXCEPT ![q] = Tip + 2]
    <3>1. PICK p \in Pages, q \in Pages :
            /\ trees' = trees \o <<first(p), second(p, q)>>
            /\ sent' = sent \cup {[before |-> Tip, after |-> Tip + 2, changed |-> {p, q}]}
      BY <2>3 DEF OthersPushTwo
    <3> HIDE DEF first, second
    <3>2. Len(trees') = Len(trees) + 2
      BY <1>1, <3>1
    <3> QED
      BY <3>1, <3>2
  <2>4. CASE OthersPush
    BY <2>1, <2>4 DEF OthersPush
  <2> QED
    BY <2>1, <2>2, <2>3, <2>4
<1>3. /\ UNCHANGED <<checkout, indexed, recorded, known, dirty, pc, job, undisturbed>>
      /\ worker' = "publishing" \/ (worker' = worker /\ others' # 0)
      /\ others' = 0 => others = 0
  <2>1. CASE OthersPush
    <3>1. others' = others + 1 /\ worker' = worker
      BY <2>1 DEF OthersPush
    <3> QED
      BY <1>1, <2>1, <3>1 DEF OthersPush
  <2>2. CASE OthersPushTwo
    <3>1. others' = others + 2 /\ worker' = worker
      BY <2>2 DEF OthersPushTwo
    <3> QED
      BY <1>1, <2>2, <3>1 DEF OthersPushTwo
  <2>3. ASSUME NEW c \in Captures, Publish(c)
        PROVE  /\ UNCHANGED <<checkout, indexed, recorded, known, dirty, pc, job, undisturbed>>
               /\ worker' = "publishing" /\ others' = others
    BY <2>3 DEF Publish
  <2> QED
    BY <2>1, <2>2, <2>3
<1>4. Tip' \in Nat /\ Tip' > Tip
  BY <1>1, <1>2 DEF Tip
<1>5. PushesGoForward'
  BY <1>1, <1>2 DEF ReportInv, PushesGoForward
<1>6. RecordedOnBranch' /\ IndexedIsReportedOrBuilt'
  BY <1>1, <1>3, <1>4 DEF ReportInv, RecordedOnBranch, IndexedIsReportedOrBuilt
<1>7. CurrentIsKept' /\ BuildHoldsReports' /\ CheckoutIsTip'
  BY <1>3 DEF ReportInv, CurrentIsKept, BuildHoldsReports, CheckoutIsTip
<1>8. ReportsAreKept'
  BY <1>3 DEF ReportInv, ReportsAreKept, ReportedIsIndexedOrDirty, ReportedSinceRebuild
<1> QED
  BY <1>5, <1>6, <1>7, <1>8 DEF ReportInv

\* The rebuild: it takes the index to a checkout that holds what it did not know of.
LEMMA RebuildReports ==
    ASSUME IndexInv, ReportInv, Fetch \/ ReadHealth \/ Replace \/ Abandon \/ AskRebuild
    PROVE  ReportInv'
<1> USE DEF branchVars, writerVars, healthVars, indexVars, handlerVars, adminVars, boundVars
<1>0. /\ Tip \in Nat /\ indexed \in 0..Tip /\ checkout \in 0..Tip /\ recorded \subseteq Nat
      /\ \A h \in Handlers : pc[h] # "idle" => job[h].after \in 0..Tip
  BY ReportTypes
<1>1. CASE Fetch
  <2>1. Tip' = Tip /\ checkout' = Tip /\ worker' = "fetched"
    BY <1>1 DEF Fetch, Tip
  <2>2. PushesGoForward' /\ RecordedOnBranch' /\ IndexedIsReportedOrBuilt'
    BY <1>0, <1>1, <2>1
       DEF Fetch, ReportInv, PushesGoForward, RecordedOnBranch, IndexedIsReportedOrBuilt
  <2>3. CurrentIsKept'
    BY <1>0, <1>1, <2>1 DEF Fetch, ReportInv, CurrentIsKept
  <2>4. BuildHoldsReports' /\ CheckoutIsTip'
    BY <2>1 DEF BuildHoldsReports, CheckoutIsTip
  <2>5. ReportsAreKept'
    BY <1>1 DEF Fetch, ReportInv, ReportsAreKept, ReportedIsIndexedOrDirty, ReportedSinceRebuild
  <2> QED
    BY <2>2, <2>3, <2>4, <2>5 DEF ReportInv
<1>2. CASE ReadHealth
  <2>1. /\ Tip' = Tip /\ worker = "fetched" /\ known' = recorded
        /\ UNCHANGED <<sent, checkout, indexed, dirty, recorded, pc, job, others>>
    BY <1>2 DEF ReadHealth, Tip
  <2>2. PushesGoForward' /\ RecordedOnBranch' /\ IndexedIsReportedOrBuilt' /\ CurrentIsKept'
    BY <2>1
       DEF ReportInv, PushesGoForward, RecordedOnBranch, IndexedIsReportedOrBuilt, CurrentIsKept
  <2>3. BuildHoldsReports' /\ CheckoutIsTip'
    BY <2>1 DEF ReportInv, BuildHoldsReports, CheckoutIsTip
  <2>4. ReportsAreKept'
    BY <2>1 DEF ReportInv, ReportsAreKept, ReportedIsIndexedOrDirty, ReportedSinceRebuild
  <2> QED
    BY <2>2, <2>3, <2>4 DEF ReportInv
<1>3. CASE Replace
  <2>1. /\ Tip' = Tip /\ indexed' = checkout /\ worker = "building" /\ undisturbed
        /\ worker' = "idle"
        /\ UNCHANGED <<sent, checkout, recorded, known, pc, job, others>>
    BY <1>3 DEF Replace, Tip
  <2>2. PushesGoForward' /\ RecordedOnBranch' /\ IndexedIsReportedOrBuilt'
    BY <1>0, <2>1 DEF ReportInv, PushesGoForward, RecordedOnBranch, IndexedIsReportedOrBuilt
  <2>3. CurrentIsKept'
    BY <2>1 DEF ReportInv, CurrentIsKept
  <2>4. BuildHoldsReports' /\ CheckoutIsTip'
    BY <2>1 DEF BuildHoldsReports, CheckoutIsTip
  <2>5. ReportedSinceRebuild'
    BY <2>1 DEF ReportInv, BuildHoldsReports, ReportedSinceRebuild
  <2>6. ReportedIsIndexedOrDirty'
    BY <1>0, <2>1 DEF ReportInv, CheckoutIsTip, RecordedOnBranch, ReportedIsIndexedOrDirty
  <2> QED
    BY <2>2, <2>3, <2>4, <2>5, <2>6 DEF ReportInv, ReportsAreKept
<1>4. CASE Abandon
  BY <1>4, ReportsStand DEF Abandon
<1>5. CASE AskRebuild
  BY <1>5, ReportsStand DEF AskRebuild
<1> QED
  BY <1>1, <1>2, <1>3, <1>4, <1>5

\* A request that fails or is received, or looks at the row.
LEMMA RequestReports ==
    ASSUME IndexInv, ReportInv, NEW h \in Handlers,
           FailHandler(h) \/ Read(h) \/ \E d \in sent : Receive(h, d)
    PROVE  ReportInv'
<1> USE DEF branchVars, writerVars, healthVars, indexVars, handlerVars, adminVars, boundVars
<1>0. pc \in [Handlers -> {"idle", "reading", "current", "deferring", "applying"}]
  BY DEF IndexInv, TypeOK
<1>1. CASE FailHandler(h)
  <2>1. \A g \in Handlers : pc'[g] = "current" => pc[g] = "current" /\ job'[g] = job[g]
    BY <1>0, <1>1 DEF FailHandler, Answer, IndexInv, TypeOK
  <2>2. dirty => dirty'
    BY <1>1 DEF FailHandler, MarkDirty
  <2>3. worker' = "building" /\ undisturbed' => worker = "building" /\ undisturbed
    BY <1>1 DEF FailHandler, MarkDirty
  <2> QED
    BY <1>1, <2>1, <2>2, <2>3, ReportsStand DEF FailHandler
<1>2. ASSUME NEW d \in sent, Receive(h, d) PROVE ReportInv'
  <2>1. \A g \in Handlers : pc'[g] = "current" => pc[g] = "current" /\ job'[g] = job[g]
    BY <1>0, <1>2 DEF Receive, IndexInv, TypeOK
  <2> QED
    BY <1>2, <2>1, ReportsStand DEF Receive
<1>3. CASE Read(h)
  <2>0. UNCHANGED <<branchVars, writerVars, healthVars, indexVars, job, others>>
    BY <1>3 DEF Read
  <2>1. CASE pc' = [pc EXCEPT ![h] = "current"] /\ indexed = job[h].after
    <3>1. job[h].after \in recorded \/ (job[h].after <= checkout /\ job[h].after <= indexed)
      BY <2>1, ReportTypes DEF ReportInv, IndexedIsReportedOrBuilt
    <3>2. CurrentIsKept'
      BY <1>0, <2>0, <2>1, <3>1 DEF ReportInv, CurrentIsKept
    <3> QED
      BY <2>0, <3>2
         DEF ReportInv, PushesGoForward, RecordedOnBranch, IndexedIsReportedOrBuilt,
             BuildHoldsReports, CheckoutIsTip, ReportsAreKept, ReportedIsIndexedOrDirty,
             ReportedSinceRebuild, Tip
  <2>2. CASE \/ pc' = [pc EXCEPT ![h] = "deferring"]
             \/ pc' = [pc EXCEPT ![h] = "applying"]
    <3>1. \A g \in Handlers : pc'[g] = "current" => pc[g] = "current" /\ job'[g] = job[g]
      BY <1>0, <2>0, <2>2
    <3> QED
      BY <2>0, <3>1, ReportsStand
  <2> QED
    BY <1>3, <2>1, <2>2 DEF Read
<1> QED
  BY <1>1, <1>2, <1>3

\* A request that records its delivery: the index is there, goes there, or is marked.
LEMMA RecordingReports ==
    ASSUME IndexInv, ReportInv, NEW h \in Handlers, RecordCurrent(h) \/ Defer(h) \/ Apply(h)
    PROVE  ReportInv'
<1> USE DEF branchVars, writerVars, healthVars, indexVars, handlerVars, adminVars, boundVars
<1> DEFINE d == job[h]
<1>0. /\ pc \in [Handlers -> {"idle", "reading", "current", "deferring", "applying"}]
      /\ job \in [Handlers -> Push \cup {NoPush}]
  BY DEF IndexInv, TypeOK
<1>1. /\ Tip \in Nat /\ indexed \in 0..Tip /\ checkout \in 0..Tip /\ recorded \subseteq Nat
      /\ d \in sent /\ d.after \in 0..Tip /\ d.before \in 0..Tip
  BY ReportTypes DEF RecordCurrent, Defer, Apply
<1>2. /\ UNCHANGED <<branchVars, checkout, worker, known, others>>
      /\ recorded' = recorded \cup {d.after} /\ Tip' = Tip
      /\ \A g \in Handlers : pc'[g] # "idle" => g # h /\ pc'[g] = pc[g] /\ job'[g] = job[g]
  BY <1>0 DEF RecordCurrent, Defer, Apply, RecordDelivery, Answer, Tip, MarkDirty,
              RecordIncremental
<1>3. PushesGoForward' /\ RecordedOnBranch'
  BY <1>1, <1>2 DEF ReportInv, PushesGoForward, RecordedOnBranch
<1>4. CheckoutIsTip'
  BY <1>2 DEF ReportInv, CheckoutIsTip
<1>5. CASE RecordCurrent(h)
  <2>1. /\ d.after \in recorded \/ (d.after <= checkout /\ d.after <= indexed)
        /\ UNCHANGED <<indexed, dirty, undisturbed>>
    BY <1>5 DEF ReportInv, CurrentIsKept, RecordCurrent
  <2>2. IndexedIsReportedOrBuilt' /\ CurrentIsKept'
    BY <1>2, <2>1 DEF ReportInv, IndexedIsReportedOrBuilt, CurrentIsKept
  <2>3. BuildHoldsReports'
    BY <1>2, <2>1 DEF ReportInv, BuildHoldsReports
  <2>4. ReportsAreKept'
    BY <1>2, <2>1 DEF ReportInv, ReportsAreKept, ReportedIsIndexedOrDirty, ReportedSinceRebuild
  <2> QED
    BY <1>3, <1>4, <2>2, <2>3, <2>4 DEF ReportInv
<1>6. CASE MarkDirty(h) /\ UNCHANGED indexed
  <2>1. dirty' /\ ~undisturbed' /\ indexed' = indexed
    BY <1>6 DEF MarkDirty
  <2>2. IndexedIsReportedOrBuilt' /\ CurrentIsKept'
    BY <1>2, <2>1 DEF ReportInv, IndexedIsReportedOrBuilt, CurrentIsKept
  <2>3. BuildHoldsReports' /\ ReportsAreKept'
    BY <2>1 DEF BuildHoldsReports, ReportsAreKept, ReportedIsIndexedOrDirty, ReportedSinceRebuild
  <2> QED
    BY <1>3, <1>4, <2>2, <2>3 DEF ReportInv
<1>7. CASE indexed = d.before /\ RecordIncremental(h) /\ UNCHANGED dirty
  <2>1. indexed' = d.after /\ ~undisturbed' /\ dirty' = dirty /\ indexed < d.after
    BY <1>1, <1>7 DEF RecordIncremental, ReportInv, PushesGoForward
  <2>2. IndexedIsReportedOrBuilt'
    BY <1>2, <2>1 DEF IndexedIsReportedOrBuilt
  <2>3. CurrentIsKept'
    <3> SUFFICES ASSUME NEW g \in Handlers, pc'[g] = "current"
                 PROVE  \/ job'[g].after \in recorded'
                        \/ job'[g].after <= checkout' /\ job'[g].after <= indexed'
      BY DEF CurrentIsKept
    <3>1. pc[g] = "current" /\ job'[g] = job[g] /\ job[g].after \in 0..Tip
      BY <1>2, ReportTypes
    <3> HIDE DEF d
    <3>2. \/ job[g].after \in recorded
          \/ job[g].after <= checkout /\ job[g].after <= indexed
      BY <3>1 DEF ReportInv, CurrentIsKept
    <3> QED
      BY <1>1, <1>2, <2>1, <3>1, <3>2
  <2>4. BuildHoldsReports'
    BY <2>1 DEF BuildHoldsReports
  <2>5. ReportsAreKept'
    <3> HIDE DEF d
    <3>1. ReportedIsIndexedOrDirty'
      <4> SUFFICES ASSUME others' = 0, NEW e \in recorded'
                   PROVE  e <= indexed' \/ dirty'
        BY DEF ReportedIsIndexedOrDirty
      <4>1. e \in Nat /\ (e \in recorded => e <= indexed \/ dirty)
        BY <1>1, <1>2 DEF ReportInv, ReportsAreKept, ReportedIsIndexedOrDirty
      <4> QED
        BY <1>1, <1>2, <2>1, <4>1
    <3>2. ReportedSinceRebuild'
      BY <1>1, <1>2, <2>1 DEF ReportInv, ReportsAreKept, ReportedSinceRebuild
    <3> QED
      BY <3>1, <3>2 DEF ReportsAreKept
  <2> QED
    BY <1>3, <1>4, <2>2, <2>3, <2>4, <2>5 DEF ReportInv
<1> QED
  BY <1>5, <1>6, <1>7 DEF Defer, Apply

\* The steps of captures, of the idle stop and of the administrator report nothing.
LEMMA OtherReports ==
    ASSUME ReportInv,
           \/ \E c \in Captures : Submit(c) \/ Record(c) \/ Land(c) \/ FailCapture(c)
           \/ Sleep
           \/ Admin
           \/ UNCHANGED vars
    PROVE  ReportInv'
<1> USE DEF branchVars, writerVars, healthVars, indexVars, handlerVars, adminVars, boundVars
<1>1. ASSUME NEW c \in Captures, Submit(c) \/ Record(c) \/ Land(c) \/ FailCapture(c)
      PROVE  ReportInv'
  <2>1. /\ UNCHANGED <<branchVars, checkout, indexed, recorded, known, others, dirty, pc, job,
                       undisturbed>>
        /\ worker' = worker \/ worker' = "idle"
    BY <1>1 DEF Submit, Record, Land, FailCapture
  <2> QED
    BY <2>1, ReportsStand
<1>2. CASE Sleep \/ Admin \/ UNCHANGED vars
  <2>1. UNCHANGED <<branchVars, checkout, indexed, recorded, known, others, dirty, pc, job,
                    undisturbed, worker>>
    BY <1>2 DEF Sleep, Admin, CheckHealth, CheckPages, DeleteLayer, vars
  <2> QED
    BY <2>1, ReportsStand
<1> QED
  BY <1>1, <1>2

LEMMA NextReportInv == IndexInv /\ ReportInv /\ [Next]_vars => ReportInv'
  BY PushReports, RebuildReports, RequestReports, RecordingReports, OtherReports
     DEF Next, Writer, Handler

\* A push that was reported is in the index, or the health row says that the index is
\* behind: always while only the writer pushes, and after the last rebuild read the row
\* whoever does, however deliveries and rebuilds cross (webhook.py:152-244,
\* build.py:271-317).
THEOREM ReportedIsNeverForgotten == Spec => []ReportsAreKept
<1>1. IndexInv /\ ReportInv => ReportsAreKept
  BY DEF ReportInv
<1> QED
  BY <1>1, InitIndexInv, NextIndexInv, InitReportInv, NextReportInv, PTL DEF Spec

=============================================================================
