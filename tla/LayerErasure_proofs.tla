------------------------- MODULE LayerErasure_proofs -------------------------
(***************************************************************************)
(* The erasure of a layer, proved: what every attempt, crash and resumed   *)
(* run keeps of the branch, of the records that name its commits, and of   *)
(* the rows and bytes (ops/erasure.py, ops/erase_layer.py).                *)
(*                                                                         *)
(* The argument is on prefixes.  While one request has recorded a rewrite, *)
(* the branch goes on either from the history the rewrite read or from the *)
(* one it left, and a filter maps prefixes to prefixes; so a stored commit *)
(* is on the branch, or the request's commit map leads it there, until the *)
(* purge has remapped all of them at once.                                 *)
(***************************************************************************)
EXTENDS LayerErasure, SequenceTheorems, FiniteSetTheorems, TLAPS

-----------------------------------------------------------------------------
(* Prefixes.                                                               *)

LEMMA PrefixMeans ==
    ASSUME NEW S, NEW s \in Seq(S), NEW t \in Seq(S)
    PROVE  IsPrefix(s, t) <=> /\ Len(s) <= Len(t)
                              /\ \A i \in 1..Len(s) : s[i] = t[i]
<1>1. Len(s) \in Nat /\ Len(t) \in Nat BY LenProperties
<1> SUFFICES ASSUME Len(s) <= Len(t)
             PROVE  SubSeq(s, 1, Len(s)) = SubSeq(t, 1, Len(s))
                        <=> \A i \in 1..Len(s) : s[i] = t[i]
  BY <1>1 DEF IsPrefix
<1>2. SubSeq(s, 1, Len(s)) = s BY SubSeqFull
<1>3. \A i \in 1..Len(s) : t[i] \in S
  <2> TAKE i \in 1..Len(s)
  <2>1. i \in 1..Len(t) BY <1>1
  <2>2. QED BY <2>1, ElementOfSeq
<1>4. /\ SubSeq(t, 1, Len(s)) \in Seq(S)
      /\ Len(SubSeq(t, 1, Len(s))) = Len(s)
      /\ \A i \in 1..Len(s) : SubSeq(t, 1, Len(s))[i] = t[i]
  BY <1>1, <1>3
<1>5. CASE SubSeq(s, 1, Len(s)) = SubSeq(t, 1, Len(s)) BY <1>2, <1>4, <1>5
<1>6. CASE \A i \in 1..Len(s) : s[i] = t[i]
  <2>1. \A i \in 1..Len(s) : s[i] = SubSeq(t, 1, Len(s))[i] BY <1>4, <1>6
  <2>2. s = SubSeq(t, 1, Len(s)) BY <1>4, <2>1, SeqEqual
  <2>3. QED BY <1>2, <1>6, <2>2
<1>7. QED BY <1>5, <1>6

LEMMA PrefixRefl == ASSUME NEW S, NEW s \in Seq(S) PROVE IsPrefix(s, s)
BY PrefixMeans, LenProperties

LEMMA PrefixTrans ==
    ASSUME NEW S, NEW s \in Seq(S), NEW t \in Seq(S), NEW u \in Seq(S),
           IsPrefix(s, t), IsPrefix(t, u)
    PROVE  IsPrefix(s, u)
<1>1. Len(s) \in Nat /\ Len(t) \in Nat /\ Len(u) \in Nat BY LenProperties
<1>2. /\ Len(s) <= Len(t) /\ \A i \in 1..Len(s) : s[i] = t[i]
      /\ Len(t) <= Len(u) /\ \A i \in 1..Len(t) : t[i] = u[i]
  BY PrefixMeans
<1>3. Len(s) <= Len(u) /\ \A i \in 1..Len(s) : s[i] = u[i] BY <1>1, <1>2
<1>4. QED BY <1>3, PrefixMeans

LEMMA EmptyPrefix ==
    ASSUME NEW S, NEW s \in Seq(S)
    PROVE  <<>> \in Seq(S) /\ IsPrefix(<<>>, s)
<1>1. <<>> \in Seq(S) /\ Len(<<>>) = 0 BY EmptySeq
<1>2. Len(s) \in Nat BY LenProperties
<1>3. Len(<<>>) <= Len(s) /\ \A i \in 1..Len(<<>>) : <<>>[i] = s[i] BY <1>1, <1>2
<1>4. QED BY <1>1, <1>3, PrefixMeans

LEMMA AppendExtends ==
    ASSUME NEW S, NEW s \in Seq(S), NEW c \in S
    PROVE  Append(s, c) \in Seq(S) /\ IsPrefix(s, Append(s, c))
<1>1. /\ Append(s, c) \in Seq(S) /\ Len(Append(s, c)) = Len(s) + 1
      /\ \A i \in 1..Len(s) : Append(s, c)[i] = s[i]
  BY AppendProperties
<1>2. Len(s) \in Nat BY LenProperties
<1>3. Len(s) <= Len(Append(s, c)) BY <1>1, <1>2
<1>4. QED BY <1>1, <1>3, PrefixMeans

LEMMA SubSeqIsPrefix ==
    ASSUME NEW S, NEW s \in Seq(S), NEW n \in 0..Len(s)
    PROVE  /\ SubSeq(s, 1, n) \in Seq(S)
           /\ IsPrefix(SubSeq(s, 1, n), s)
           /\ Len(SubSeq(s, 1, n)) = n
           /\ \A i \in 1..n : SubSeq(s, 1, n)[i] = s[i]
<1>1. Len(s) \in Nat /\ n \in Nat /\ n <= Len(s) BY LenProperties
<1>2. \A i \in 1..n : s[i] \in S
  <2> TAKE i \in 1..n
  <2>1. i \in 1..Len(s) BY <1>1
  <2>2. QED BY <2>1, ElementOfSeq
<1>4. /\ SubSeq(s, 1, n) \in Seq(S)
      /\ Len(SubSeq(s, 1, n)) = n
      /\ \A i \in 1..n : SubSeq(s, 1, n)[i] = s[i]
  BY <1>1, <1>2
<1>5. Len(SubSeq(s, 1, n)) <= Len(s) BY <1>1, <1>4
<1>6. QED BY <1>4, <1>5, PrefixMeans

\* All but the last commit: what a push was made on.
LEMMA FrontIsPrefix ==
    ASSUME NEW S, NEW s \in Seq(S), s # <<>>
    PROVE  Front(s) \in Seq(S) /\ IsPrefix(Front(s), s)
<1>1. Len(s) \in Nat \ {0} BY EmptySeq
<1>2. Len(s) - 1 \in 0..Len(s) BY <1>1
<1>3. Front(s) = SubSeq(s, 1, Len(s) - 1) BY DEF Front
<1>4. QED BY <1>2, <1>3, SubSeqIsPrefix

-----------------------------------------------------------------------------
(* What filter-repo leaves.                                                *)

\* Ranks number a finite set of numbers from one on.
LEMMA RankCounts ==
    ASSUME NEW S \in SUBSET Nat, IsFiniteSet(S)
    PROVE  /\ Cardinality(S) \in Nat
           /\ \A i \in S : Rank(S, i) \in 1..Cardinality(S)
           /\ \A i, j \in S : Rank(S, i) = Rank(S, j) => i = j
           /\ \A k \in 1..Cardinality(S) : \E i \in S : Rank(S, i) = k
<1> DEFINE Upto(i) == {j \in S : j <= i}
           n == Cardinality(S)
           f == [i \in S |-> Rank(S, i)]
<1>1. n \in Nat BY FS_CardinalityType
<1>2. ASSUME NEW i \in S
      PROVE  /\ IsFiniteSet(Upto(i)) /\ Cardinality(Upto(i)) <= n
             /\ Cardinality(Upto(i)) \in Nat /\ Cardinality(Upto(i)) # 0
  <2>1. Upto(i) \in SUBSET S OBVIOUS
  <2>2. IsFiniteSet(Upto(i)) /\ Cardinality(Upto(i)) <= n BY <2>1, FS_Subset
  <2>3. i \in Upto(i) OBVIOUS
  <2>4. QED BY <2>2, <2>3, FS_CardinalityType, FS_EmptySet
<1>3. \A i \in S : Rank(S, i) \in 1..n
  <2> TAKE i \in S
  <2>1. Rank(S, i) = Cardinality(Upto(i)) BY DEF Rank
  <2>2. QED BY <1>1, <1>2, <2>1
<1>4. \A i, j \in S : Rank(S, i) = Rank(S, j) => i = j
  <2>1. ASSUME NEW i \in S, NEW j \in S, i < j PROVE Rank(S, i) # Rank(S, j)
    <3>1. Upto(i) \in SUBSET Upto(j)
      <4>1. \A k \in S : k \in Nat OBVIOUS
      <4>2. \A k \in S : k <= i => k <= j BY <2>1, <4>1
      <4>3. QED BY <4>2
    <3>2. j \in Upto(j) /\ j \notin Upto(i) BY <2>1
    <3>3. IsFiniteSet(Upto(j)) BY <1>2
    <3>4. Cardinality(Upto(i)) # Cardinality(Upto(j)) BY <3>1, <3>2, <3>3, FS_Subset
    <3>5. QED BY <3>4 DEF Rank
  <2>2. \A i, j \in S : i < j \/ j < i \/ i = j OBVIOUS
  <2>3. QED BY <2>1, <2>2
<1>5. \A k \in 1..n : \E i \in S : Rank(S, i) = k
  <2>1. IsFiniteSet(1..n) /\ Cardinality(1..n) = n
    <3>1. 1 \in Int /\ n \in Int BY <1>1
    <3>2. IsFiniteSet(1..n) /\ Cardinality(1..n) = IF 1 > n THEN 0 ELSE n - 1 + 1
      BY <3>1, FS_Interval, Zenon
    <3>3. QED BY <1>1, <3>2
  <2>2. f \in [S -> 1..n] BY <1>3
  <2>3. f \in Injection(S, 1..n) BY <1>4, <2>2 DEF Injection, IsInjective
  <2>4. f \in Surjection(S, 1..n) BY <2>1, <2>3, FS_Injection
  <2>5. QED BY <2>4 DEF Surjection
<1>6. QED BY <1>1, <1>3, <1>4, <1>5

Without(commit, l) == [commit EXCEPT !.folders = @ \ {l}]

\* Filter keeps the kept commits in their order, each without the folder.
LEMMA FilterKeeps ==
    ASSUME NEW h \in Shas, NEW l \in Layers
    PROVE  /\ IsFiniteSet(Kept(h, l)) /\ Kept(h, l) \in SUBSET (1..Len(h))
           /\ Filter(h, l) \in Shas
           /\ Len(Filter(h, l)) = Cardinality(Kept(h, l))
           /\ \A i \in Kept(h, l) :
                 /\ Rank(Kept(h, l), i) \in DOMAIN Filter(h, l)
                 /\ Filter(h, l)[Rank(Kept(h, l), i)] = Without(h[i], l)
           /\ \A k \in 1..Len(Filter(h, l)) : \E i \in Kept(h, l) : Rank(Kept(h, l), i) = k
<1> DEFINE K == Kept(h, l)
           n == Cardinality(K)
           At(k) == CHOOSE j \in K : Rank(K, j) = k
<1>1. Len(h) \in Nat /\ DOMAIN h = 1..Len(h) /\ \A i \in 1..Len(h) : h[i] \in Commits
  BY LenProperties, ElementOfSeq DEF Shas
<1>2. K \in SUBSET (1..Len(h)) BY <1>1 DEF Kept
<1>3. IsFiniteSet(K)
  <2>1. IsFiniteSet(1..Len(h)) BY <1>1, FS_Interval
  <2>2. QED BY <1>2, <2>1, FS_Subset
<1>4. /\ n \in Nat
      /\ \A i \in K : Rank(K, i) \in 1..n
      /\ \A i, j \in K : Rank(K, i) = Rank(K, j) => i = j
      /\ \A k \in 1..n : \E i \in K : Rank(K, i) = k
  <2>1. K \in SUBSET Nat BY <1>1, <1>2
  <2>2. QED BY <1>3, <2>1, RankCounts
<1>5. \A k \in 1..n : At(k) \in K /\ Rank(K, At(k)) = k
  <2> TAKE k \in 1..n
  <2>1. \E i \in K : Rank(K, i) = k BY <1>4
  <2>2. QED BY <2>1, Zenon
<1>6. \A i \in K : Without(h[i], l) \in Commits
  BY <1>1, <1>2 DEF Without, Commits
<1>7. Filter(h, l) = [k \in 1..n |-> Without(h[At(k)], l)] BY DEF Filter, Without
<1> HIDE DEF K, At
<1>8. Filter(h, l) \in [1..n -> Commits] BY <1>5, <1>6, <1>7
<1>9. Filter(h, l) \in Shas /\ Len(Filter(h, l)) = n /\ DOMAIN Filter(h, l) = 1..n
  BY <1>4, <1>8, SeqDef, LenProperties DEF Shas
<1>10. ASSUME NEW i \in K PROVE Filter(h, l)[Rank(K, i)] = Without(h[i], l)
  <2>1. Rank(K, i) \in 1..n BY <1>4
  <2>2. At(Rank(K, i)) \in K /\ Rank(K, At(Rank(K, i))) = Rank(K, i) BY <1>5, <2>1
  <2>3. At(Rank(K, i)) = i BY <1>4, <2>2
  <2>4. QED BY <1>7, <2>1, <2>3
<1>11. \A i \in K : Rank(K, i) \in DOMAIN Filter(h, l) BY <1>4, <1>9
<1>12. \A k \in 1..Len(Filter(h, l)) : \E i \in K : Rank(K, i) = k BY <1>4, <1>9
<1>13. QED BY <1>2, <1>3, <1>9, <1>10, <1>11, <1>12 DEF K

\* A rewrite keeps the order of histories: what a commit ends with stays a
\* history of what a later one ends with.
LEMMA FilterMonotonic ==
    ASSUME NEW s \in Shas, NEW h \in Shas, NEW l \in Layers, IsPrefix(s, h)
    PROVE  IsPrefix(Filter(s, l), Filter(h, l))
<1> DEFINE K == Kept(s, l)
           L == Kept(h, l)
<1>1. /\ Len(s) \in Nat /\ Len(h) \in Nat /\ DOMAIN s = 1..Len(s) /\ DOMAIN h = 1..Len(h)
      /\ Len(s) <= Len(h) /\ \A i \in 1..Len(s) : s[i] = h[i]
  BY LenProperties, PrefixMeans DEF Shas
<1>2. K = {i \in L : i <= Len(s)} BY <1>1 DEF Kept
<1>3. /\ IsFiniteSet(K) /\ IsFiniteSet(L) /\ K \in SUBSET (1..Len(s)) /\ L \in SUBSET (1..Len(h))
      /\ Filter(s, l) \in Seq(Commits) /\ Filter(h, l) \in Seq(Commits)
      /\ Len(Filter(s, l)) = Cardinality(K) /\ Len(Filter(h, l)) = Cardinality(L)
  BY FilterKeeps DEF Shas
<1>4. Cardinality(K) <= Cardinality(L)
  <2>1. K \in SUBSET L BY <1>2
  <2>2. QED BY <1>3, <2>1, FS_Subset
<1>5. \A i \in K : Rank(K, i) = Rank(L, i)
  <2> TAKE i \in K
  <2>1. {j \in K : j <= i} = {j \in L : j <= i} BY <1>1, <1>2, <1>3
  <2>2. QED BY <2>1 DEF Rank
<1>6. ASSUME NEW k \in 1..Len(Filter(s, l)) PROVE Filter(s, l)[k] = Filter(h, l)[k]
  <2>1. PICK i \in K : Rank(K, i) = k BY FilterKeeps
  <2>2. i \in L /\ Rank(L, i) = k BY <1>2, <1>5, <2>1
  <2>3. Filter(s, l)[k] = Without(s[i], l) BY <2>1, FilterKeeps
  <2>4. Filter(h, l)[k] = Without(h[i], l) BY <2>2, FilterKeeps
  <2>5. s[i] = h[i] BY <1>1, <1>3, <2>1
  <2>6. QED BY <2>3, <2>4, <2>5
<1>7. Len(Filter(s, l)) <= Len(Filter(h, l)) BY <1>3, <1>4
<1>8. QED BY <1>3, <1>6, <1>7, PrefixMeans

\* A commit loses the erased folder and no other.
LEMMA FilterLosesOne ==
    ASSUME NEW h \in Shas, NEW l \in Layers, NEW filed \in Filed(h) \ Filed(Filter(h, l))
    PROVE  filed[2] = l
<1>1. PICK i \in DOMAIN h : \E f \in h[i].folders : filed = <<h[i].cap, f>>
  BY DEF Filed
<1>2. PICK f \in h[i].folders : filed = <<h[i].cap, f>> BY <1>1
<1>3. h[i] \in Commits BY LenProperties, ElementOfSeq DEF Shas
<1> SUFFICES ASSUME f # l PROVE FALSE BY <1>2
<1>4. i \in Kept(h, l) BY <1>2 DEF Kept
<1> DEFINE k == Rank(Kept(h, l), i)
<1>5. k \in DOMAIN Filter(h, l) /\ Filter(h, l)[k] = Without(h[i], l) BY <1>4, FilterKeeps
<1>6. Without(h[i], l).cap = h[i].cap /\ f \in Without(h[i], l).folders
  BY <1>2, <1>3 DEF Without, Commits
<1>7. filed \in Filed(Filter(h, l)) BY <1>2, <1>5, <1>6 DEF Filed
<1>8. QED BY <1>7

-----------------------------------------------------------------------------
(* The inductive invariant.                                                *)

Recorded == {"pushing", "marking", "resetting", "purging", "collecting", "clearing",
             "rebuilding", "finishing"}
Reset == {"purging", "collecting", "clearing", "rebuilding", "finishing"}
Purged == {"collecting", "clearing", "rebuilding", "finishing"}
Cleared == {"clearing", "rebuilding", "finishing"}

\* Only the holder of the writer lock files, records or erases.
LockInv == \A w \in Workers : pc[w] \in {"filing", "recording"} \cup ErasePhases => lock = w

\* What a writer carries fits what it does.
JobInv ==
    \A w \in Workers :
        /\ pc[w] \in {"claimed", "filing", "recording", "reporting"} => job[w] \in Captures
        /\ pc[w] \in ErasePhases => job[w] \in Layers /\ req[job[w]].status = "running"
        /\ pc[w] \in {"filing", "recording"} => sha[w] # NoSha

\* One open request has a rewrite, and what it stored is the filter of what it read.
RewriteInv ==
    /\ \A l \in Layers : req[l].recorded => req[l].new = Filter(req[l].old, l)
    /\ \A l \in Layers : req[l].pushed => req[l].recorded
    /\ \A l \in Layers : req[l].garbage # {} => req[l].pushed
    /\ \A l, m \in Layers : (Open(l) /\ Open(m) /\ req[l].recorded /\ req[m].recorded) => l = m
    /\ \A w \in Workers :
         /\ pc[w] \in Recorded => req[job[w]].recorded
         /\ pc[w] \in Reset \cup {"resetting"} => req[job[w]].pushed
         /\ pc[w] \in ErasePhases =>
              \A m \in Layers \ {job[w]} : Open(m) => ~req[m].recorded

\* The branch goes on from what a rewrite read or from what it left, and from the
\* latter once the checkout has been reset.  A rewrite that is made again was not on it.
RemoteInv ==
    /\ \A l \in Layers : (Open(l) /\ req[l].recorded) =>
           IsPrefix(req[l].old, remote) \/ IsPrefix(req[l].new, remote)
    /\ \A w \in Workers :
         /\ pc[w] = "rewriting" /\ req[job[w]].recorded => IsPrefix(req[job[w]].old, remote)
         /\ pc[w] \in Reset => IsPrefix(req[job[w]].new, remote)
         /\ pc[w] = "recording" => IsPrefix(sha[w], remote)

\* After the purge no record waits for a remap.
LedgerInv ==
    /\ \A c \in Captures : Resolves(ledger[c].sha)
    /\ \A w \in Workers : pc[w] \in Purged => \A c \in Captures : IsPrefix(ledger[c].sha, remote)

\* The same for the commit on a landed row, which one writer alone puts there.
LandedInv ==
    /\ \A c \in Captures : row[c] = "landed" => Resolves(rowSha[c])
    /\ \A w \in Workers :
         /\ pc[w] = "reporting" => Resolves(sha[w])
         /\ pc[w] \in Purged =>
              \A c \in Captures : row[c] = "landed" => IsPrefix(rowSha[c], remote)

\* No commit of a capture in h has the folder of l.
Gone(h, l) == \A i \in DOMAIN h : h[i].cap \in Captures => l \notin h[i].folders

GoneInv ==
    \A w \in Workers :
        /\ pc[w] \in Reset => Gone(remote, job[w])
        /\ pc[w] = "finishing" => Gone(indexed, job[w])
        /\ pc[w] \in Purged => \A c \in Captures :
             /\ job[w] \notin ledger[c].folders
             /\ LayerOf[c] = job[w] => row[c] \in {"absent", "queued", "erased"}

\* Another capture has the same bytes.
Shared(c) == \E d \in Captures \ {c} : Blob[d] = Blob[c]

\* The bytes of a deleted row are shared, or noted down for deletion, or deleted.
BytesInv ==
    /\ \A c \in accepted : row[c] = "absent"
    /\ \A w \in Workers :
         pc[w] \in {"claimed", "filing", "recording", "reporting"} => row[job[w]] # "absent"
    /\ \A c \in Captures : (row[c] = "erased" /\ Blob[c] \in objects /\ ~Shared(c)) =>
           Open(LayerOf[c]) /\ Blob[c] \in req[LayerOf[c]].garbage
    /\ \A w \in Workers : pc[w] \in Cleared => \A c \in Captures :
           (LayerOf[c] = job[w] /\ row[c] = "erased" /\ ~Shared(c)) => Blob[c] \notin objects

\* A push under way is of one commit, or of the rewrite somebody asked for.
InFlightInv ==
    \A p \in inflight :
        \/ p.to # <<>> /\ p.from = Front(p.to)
        \/ \E l \in Layers : req[l].status # "none" /\ p.to = Filter(p.from, l)

WriterInv == TypeOK /\ LockInv /\ JobInv /\ RewriteInv /\ InFlightInv

-----------------------------------------------------------------------------
(* Types.                                                                  *)

LEMMA HistoryType == TypeOK => /\ remote \in Shas /\ indexed \in Shas
                               /\ \A l \in Layers : req[l].old \in Shas /\ req[l].new \in Shas
                               /\ \A c \in Captures : ledger[c].sha \in Shas /\ rowSha[c] \in Shas
                               /\ \A w \in Workers : sha[w] \in Shas
BY DEF TypeOK

LEMMA RemapType ==
    ASSUME NEW old \in Shas, NEW l \in Layers, NEW s \in Shas
    PROVE  Remap(old, l, s) \in Shas
<1>1. NoSha \in Shas BY EmptySeq DEF NoSha, Shas
<1>2. QED BY <1>1, FilterKeeps DEF Remap

LEMMA InitType == ASSUME ErasureAssumption, Init PROVE TypeOK
<1>1. <<>> \in Shas /\ NoSha \in Shas BY EmptySeq DEF NoSha, Shas
<1>2. QED BY <1>1 DEF Init, TypeOK, NoRequest, NoChange, Statuses

LEMMA CaptureType ==
    ASSUME ErasureAssumption, TypeOK, NEW c \in Captures,
           Accept(c) \/ Refuse(c) \/ Enqueue(c) \/ Reclaim(c)
    PROVE  TypeOK'
<1>1. CASE Accept(c) BY <1>1 DEF Accept, TypeOK, workerVars, Blobs
<1>2. CASE Refuse(c) BY <1>2 DEF Refuse, TypeOK, workerVars
<1>3. CASE Enqueue(c) BY <1>3 DEF Enqueue, TypeOK, workerVars
<1>4. CASE Reclaim(c) BY <1>4 DEF Reclaim, TypeOK, workerVars
<1>5. QED BY <1>1, <1>2, <1>3, <1>4

LEMMA RestType ==
    ASSUME ErasureAssumption, TypeOK, NEW w \in Workers, Rest(w)
    PROVE  /\ lock' \in Workers \cup {NoWorker}
           /\ pc' \in [Workers -> ErasePhases \cup
                         {"idle", "claimed", "filing", "recording", "reporting"}]
           /\ job' \in [Workers -> Captures \cup Layers \cup {NoJob}]
           /\ sha' \in [Workers -> Shas]
<1>1. NoSha \in Shas BY EmptySeq DEF NoSha, Shas
<1>2. QED BY <1>1 DEF Rest, Unlocked, TypeOK

LEMMA WriterType ==
    ASSUME ErasureAssumption, TypeOK, JobInv, NEW w \in Workers,
           CaptureStep(w) \/ FailCapture(w) \/ Crash(w) \/ \E c \in Captures : Claim(w, c)
    PROVE  TypeOK'
<1>1. CASE \E c \in Captures : Claim(w, c) BY <1>1 DEF Claim, TypeOK
<1>2. CASE Recover(w)
  <2>1. PICK i \in CommitOf(job[w]) : sha' = [sha EXCEPT ![w] = SubSeq(remote, 1, i)]
    BY <1>2 DEF Recover
  <2>2. remote \in Seq(Commits) /\ i \in 0..Len(remote)
    <3>1. remote \in Seq(Commits) BY DEF TypeOK, Shas
    <3>2. DOMAIN remote = 1..Len(remote) /\ Len(remote) \in Nat BY <3>1, LenProperties
    <3>3. QED BY <2>1, <3>1, <3>2 DEF CommitOf
  <2>3. SubSeq(remote, 1, i) \in Shas BY <2>2, SubSeqIsPrefix DEF Shas
  <2>4. QED BY <1>2, <2>1, <2>3 DEF Recover, TypeOK, captureVars
<1>3. CASE File(w)
  <2>1. job[w] \in Captures BY <1>3 DEF File, JobInv
  <2>2. [cap |-> job[w], folders |-> FoldersOf(job[w])] \in Commits
    BY <2>1 DEF Commits, FoldersOf
  <2>3. Append(remote, [cap |-> job[w], folders |-> FoldersOf(job[w])]) \in Shas
    BY <2>2, AppendExtends DEF TypeOK, Shas
  <2>4. NoSha \in Shas BY EmptySeq DEF NoSha, Shas
  <2>5. sha' \in [Workers -> Shas] BY <1>3, <2>3, <2>4 DEF File, TypeOK
  <2>6. QED BY <1>3, <2>1, <2>5 DEF File, TypeOK, captureVars
<1>4. CASE Publish(w) BY <1>4 DEF Publish, TypeOK, captureVars
<1>5. CASE PublishRefused(w)
  <2>1. row' \in [Captures -> {"absent", "queued", "processing", "landed", "failed", "erased"}]
    BY <1>5 DEF PublishRefused, TypeOK
  <2>2. Rest(w) BY <1>5 DEF PublishRefused
  <2>3. QED BY <1>5, <2>1, <2>2, RestType DEF PublishRefused, TypeOK
<1>6. CASE RecordChange(w)
  <2>1. sha[w] \in Shas /\ sha[w] # <<>> BY <1>6 DEF RecordChange, TypeOK, JobInv, NoSha
  <2>2. Last(sha[w]).folders \in SUBSET Layers
    <3>1. Len(sha[w]) \in Nat \ {0} BY <2>1, EmptySeq DEF Shas
    <3>2. Last(sha[w]) \in Commits BY <2>1, <3>1, ElementOfSeq DEF Last, Shas
    <3>3. QED BY <3>2 DEF Commits
  <2>3. ledger' \in [Captures -> [sha : Shas, folders : SUBSET Layers]]
    BY <1>6, <2>1, <2>2 DEF RecordChange, TypeOK
  <2>4. QED BY <1>6, <2>3 DEF RecordChange, TypeOK
<1>7. CASE Finish(w)
  <2>1. row' \in [Captures -> {"absent", "queued", "processing", "landed", "failed", "erased"}]
    BY <1>7 DEF Finish, TypeOK
  <2>2. rowSha' \in [Captures -> Shas] BY <1>7 DEF Finish, TypeOK
  <2>3. Rest(w) BY <1>7 DEF Finish
  <2>4. QED BY <1>7, <2>1, <2>2, <2>3, RestType DEF Finish, TypeOK
<1>8. CASE FailCapture(w)
  <2>1. row' \in [Captures -> {"absent", "queued", "processing", "landed", "failed", "erased"}]
    BY <1>8 DEF FailCapture, TypeOK
  <2>2. inflight' \subseteq [from : Shas, to : Shas]
    <3>1. CASE pc[w] = "filing"
      <4>1. sha[w] \in Shas /\ sha[w] # <<>> BY <3>1 DEF TypeOK, JobInv, NoSha
      <4>2. Front(sha[w]) \in Shas BY <4>1, FrontIsPrefix DEF Shas
      <4>3. QED BY <1>8, <4>1, <4>2 DEF FailCapture, TypeOK
    <3>2. CASE pc[w] # "filing" BY <1>8, <3>2 DEF FailCapture, TypeOK
    <3>3. QED BY <3>1, <3>2
  <2>3. faults' \in 0..MaxFaults BY <1>8 DEF FailCapture, TypeOK
  <2>4. Rest(w) BY <1>8 DEF FailCapture
  <2>5. QED BY <1>8, <2>1, <2>2, <2>3, <2>4, RestType DEF FailCapture, TypeOK
<1>9. CASE Crash(w)
  <2>1. faults' \in 0..MaxFaults BY <1>9 DEF Crash, TypeOK
  <2>2. Rest(w) BY <1>9 DEF Crash
  <2>3. QED BY <1>9, <2>1, <2>2, RestType DEF Crash, TypeOK, captureVars
<1>10. QED
  BY <1>1, <1>2, <1>3, <1>4, <1>5, <1>6, <1>7, <1>8, <1>9 DEF CaptureStep

Requests == [status : Statuses, attempts : 0..MaxAttempts, due : BOOLEAN, at : 0..MaxRequests,
             old : Shas, new : Shas, recorded : BOOLEAN, pushed : BOOLEAN, garbage : SUBSET Blobs]

LEMMA NoRequestType == ASSUME ErasureAssumption PROVE NoRequest \in Requests
<1>1. NoSha \in Shas BY EmptySeq DEF NoSha, Shas
<1>2. QED BY <1>1 DEF NoRequest, Requests, Statuses

\* One request changes and stays a request.
LEMMA OneRequest ==
    ASSUME TypeOK, NEW l \in Layers, NEW r \in Requests, req' = [req EXCEPT ![l] = r]
    PROVE  req' \in [Layers -> Requests]
BY DEF TypeOK, Requests

LEMMA RequestType ==
    ASSUME ErasureAssumption, TypeOK, NEW l \in Layers, Request(l) \/ Backoff(l)
    PROVE  TypeOK'
<1>1. req \in [Layers -> Requests] BY DEF TypeOK, Requests
<1>2. CASE Request(l)
  <2>1. requests + 1 \in 0..MaxRequests BY <1>2 DEF Request, TypeOK
  <2>2. [NoRequest EXCEPT !.status = "queued", !.due = TRUE, !.at = requests + 1] \in Requests
    BY <2>1, NoRequestType DEF Requests, Statuses
  <2>3. req' \in [Layers -> Requests] BY <1>1, <1>2, <2>2 DEF Request
  <2>4. QED BY <1>2, <2>1, <2>3 DEF Request, TypeOK, Requests, captureVars, workerVars
<1>3. CASE Backoff(l)
  <2>1. req' \in [Layers -> Requests]
    <3> DEFINE r == [req[l] EXCEPT !.due = TRUE]
    <3>1. req[l] \in Requests BY <1>1
    <3>2. r \in Requests BY <3>1 DEF Requests, Statuses
    <3>3. req' = [req EXCEPT ![l] = r] BY <1>3 DEF Backoff
    <3> HIDE DEF r
    <3>4. QED BY <3>2, <3>3, OneRequest
  <2>2. QED BY <1>3, <2>1 DEF Backoff, TypeOK, Requests, captureVars, workerVars
<1>4. QED BY <1>2, <1>3

LEMMA FailAttemptType ==
    ASSUME ErasureAssumption, TypeOK, JobInv, NEW w \in Workers, pc[w] \in ErasePhases,
           FailAttempt(w), inflight' \subseteq [from : Shas, to : Shas], faults' \in 0..MaxFaults
    PROVE  TypeOK'
<1>1. req \in [Layers -> Requests] /\ job[w] \in Layers BY DEF TypeOK, Requests, JobInv
<1>2. [req[job[w]] EXCEPT !.status = "queued"] \in Requests BY <1>1 DEF Requests, Statuses
<1>3. [NoRequest EXCEPT !.status = "failed", !.at = req[job[w]].at] \in Requests
  BY <1>1, NoRequestType DEF Requests, Statuses
<1>4. req' \in [Layers -> Requests] BY <1>1, <1>2, <1>3 DEF FailAttempt
<1>5. Rest(w) BY DEF FailAttempt
<1>6. QED BY <1>4, <1>5, RestType DEF FailAttempt, TypeOK, Requests, captureVars

LEMMA EraseType ==
    ASSUME ErasureAssumption, TypeOK, JobInv, NEW w \in Workers,
           EraseStep(w) \/ StepFails(w) \/ ClaimErasure(w)
    PROVE  TypeOK'
<1> DEFINE l == job[w]
<1>1. req \in [Layers -> Requests] BY DEF TypeOK, Requests
<1>2. remote \in Shas BY DEF TypeOK
<1>3. CASE ClaimErasure(w)
  <2> DEFINE given == [m \in Layers |-> IF m \in Abandoned THEN GiveUp(m) ELSE req[m]]
  <2>1. \A m \in Layers : GiveUp(m) \in Requests BY <1>1 DEF GiveUp, Requests, Statuses
  <2>2. given \in [Layers -> Requests] BY <1>1, <2>1
  <2>3. CASE {m \in Layers : Due(m)} \ Abandoned = {}
    <3>1. req' = given /\ UNCHANGED <<lock, pc, job>> BY <1>3, <2>3 DEF ClaimErasure
    <3>2. QED BY <1>3, <2>2, <3>1 DEF ClaimErasure, TypeOK, Requests, captureVars
  <2>4. CASE {m \in Layers : Due(m)} \ Abandoned # {}
    <3>1. PICK m \in {m \in Layers : Due(m)} \ Abandoned :
            /\ req' = [given EXCEPT ![m].status = "running", ![m].due = FALSE,
                                    ![m].attempts = IF @ < MaxAttempts THEN @ + 1 ELSE @]
            /\ lock' = w /\ pc' = [pc EXCEPT ![w] = "checking"] /\ job' = [job EXCEPT ![w] = m]
      BY <1>3, <2>4, Zenon DEF ClaimErasure
    <3>2. given[m] \in Requests BY <2>2, <3>1
    <3>3. (IF given[m].attempts < MaxAttempts THEN given[m].attempts + 1 ELSE given[m].attempts)
              \in 0..MaxAttempts
      BY <3>2 DEF Requests, ErasureAssumption
    <3>4. req' \in [Layers -> Requests]
      <4> HIDE DEF given
      <4>1. QED BY <2>2, <3>1, <3>2, <3>3 DEF Requests, Statuses
    <3>5. pc' \in [Workers -> ErasePhases \cup {"idle", "claimed", "filing", "recording", "reporting"}]
      BY <3>1 DEF TypeOK, ErasePhases
    <3>6. job' \in [Workers -> Captures \cup Layers \cup {NoJob}] BY <3>1 DEF TypeOK
    <3>7. QED BY <1>3, <3>1, <3>4, <3>5, <3>6, Zenon DEF ClaimErasure, TypeOK, Requests, captureVars
  <2>5. QED BY <2>3, <2>4
<1>4. CASE CheckReached(w)
  <2>1. l \in Layers BY <1>4 DEF CheckReached, Step, JobInv, ErasePhases
  <2>2. Reached(l) \in BOOLEAN BY DEF Reached, IsPrefix
  <2>3. (req[l].pushed \/ (req[l].recorded /\ Reached(l))) \in BOOLEAN OBVIOUS
  <2>4. req' \in [Layers -> Requests]
    <3> DEFINE r == [req[l] EXCEPT !.pushed = req[l].pushed \/ (req[l].recorded /\ Reached(l))]
    <3>1. req[l] \in Requests BY <1>1, <2>1
    <3>2. r \in Requests BY <3>1, <2>1, <2>3 DEF Requests, Statuses
    <3>3. req' = [req EXCEPT ![l] = r] BY <1>4 DEF CheckReached
    <3> HIDE DEF r
    <3>4. QED BY <2>1, <3>2, <3>3, OneRequest
  <2>5. pc' \in [Workers -> ErasePhases \cup {"idle", "claimed", "filing", "recording", "reporting"}]
    BY <1>4 DEF CheckReached, Step, TypeOK, ErasePhases
  <2>6. QED BY <1>4, <2>4, <2>5 DEF CheckReached, Step, TypeOK, Requests, captureVars
<1>5. CASE RecordRewrite(w)
  <2>1. l \in Layers BY <1>5 DEF RecordRewrite, Step, JobInv, ErasePhases
  <2>2. Filter(remote, l) \in Shas BY <1>2, <2>1, FilterKeeps
  <2>3. req' \in [Layers -> Requests]
    <3> DEFINE r == [req[l] EXCEPT !.old = remote, !.new = Filter(remote, l), !.recorded = TRUE]
    <3>1. req[l] \in Requests BY <1>1, <2>1
    <3>2. r \in Requests BY <3>1, <1>2, <2>1, <2>2 DEF Requests, Statuses
    <3>3. req' = [req EXCEPT ![l] = r] BY <1>5 DEF RecordRewrite
    <3> HIDE DEF r
    <3>4. QED BY <2>1, <3>2, <3>3, OneRequest
  <2>4. pc' \in [Workers -> ErasePhases \cup {"idle", "claimed", "filing", "recording", "reporting"}]
    BY <1>5 DEF RecordRewrite, Step, TypeOK, ErasePhases
  <2>5. QED BY <1>5, <2>3, <2>4 DEF RecordRewrite, Step, TypeOK, Requests, captureVars
<1>6. CASE PushRewrite(w)
  <2>1. l \in Layers BY <1>6 DEF PushRewrite, Step, JobInv, ErasePhases
  <2>2. remote' \in Shas BY <1>1, <1>6, <2>1 DEF PushRewrite, Requests
  <2>3. QED BY <1>6, <2>2 DEF PushRewrite, Step, TypeOK, captureVars, ErasePhases
<1>7. CASE MarkPushed(w)
  <2>1. l \in Layers BY <1>7 DEF MarkPushed, Step, JobInv, ErasePhases
  <2>2. req' \in [Layers -> Requests]
    <3> DEFINE r == [req[l] EXCEPT !.pushed = TRUE]
    <3>1. req[l] \in Requests BY <1>1, <2>1
    <3>2. r \in Requests BY <3>1, <2>1 DEF Requests, Statuses
    <3>3. req' = [req EXCEPT ![l] = r] BY <1>7 DEF MarkPushed
    <3> HIDE DEF r
    <3>4. QED BY <2>1, <3>2, <3>3, OneRequest
  <2>3. QED BY <1>7, <2>2 DEF MarkPushed, Step, TypeOK, Requests, captureVars, ErasePhases
<1>8. CASE ResetCheckout(w)
  BY <1>8 DEF ResetCheckout, Step, TypeOK, captureVars, ErasePhases
<1>9. CASE Purge(w)
  <2>1. l \in Layers BY <1>9 DEF Purge, Step, JobInv, ErasePhases
  <2>2. row' \in [Captures -> {"absent", "queued", "processing", "landed", "failed", "erased"}]
    BY <1>9 DEF Purge, PurgedRow, TypeOK
  <2>3. NoSha \in Shas BY EmptySeq DEF NoSha, Shas
  <2>4. \A c \in Captures : PurgedSha(l, c) \in Shas
    BY <2>1, <2>3, HistoryType, RemapType DEF PurgedSha
  <2>5. \A c \in Captures : RewrittenChange(l, ledger[c]) \in [sha : Shas, folders : SUBSET Layers]
    <3> TAKE c \in Captures
    <3>1. ledger[c] \in [sha : Shas, folders : SUBSET Layers] BY DEF TypeOK
    <3>2. Remap(req[l].old, l, ledger[c].sha) \in Shas BY <2>1, HistoryType, RemapType
    <3>3. QED BY <2>3, <3>1, <3>2 DEF RewrittenChange, NoChange
  <2>6. /\ rowSha' \in [Captures -> Shas]
        /\ ledger' \in [Captures -> [sha : Shas, folders : SUBSET Layers]]
    BY <1>9, <2>4, <2>5 DEF Purge
  <2>7. req' \in [Layers -> Requests]
    <3> DEFINE mine == {c \in Captures : LayerOf[c] = l /\ row[c] \notin {"absent", "erased"}}
               more == {Blob[c] : c \in {d \in mine : ~IsLive(row', Blob[d])}}
    <3>1. more \subseteq Blobs BY DEF Blobs
    <3>2. req' = [req EXCEPT ![l].garbage = @ \cup more] BY <1>9 DEF Purge
    <3> HIDE DEF more
    <3>3. QED BY <1>1, <2>1, <3>1, <3>2 DEF Requests
  <2>8. QED BY <1>9, <2>2, <2>6, <2>7 DEF Purge, Step, TypeOK, Requests, ErasePhases
<1>10. CASE Collect(w) BY <1>10 DEF Collect, Step, TypeOK, captureVars, ErasePhases
<1>11. CASE ClearGarbage(w)
  <2>1. l \in Layers BY <1>11 DEF ClearGarbage, Step, JobInv, ErasePhases
  <2>2. req' \in [Layers -> Requests] BY <1>1, <1>11, <2>1 DEF ClearGarbage, Requests
  <2>3. QED BY <1>11, <2>2 DEF ClearGarbage, Step, TypeOK, Requests, captureVars, ErasePhases
<1>12. CASE RebuildIndex(w)
  <2>1. l \in Layers BY <1>12 DEF RebuildIndex, Step, JobInv, ErasePhases
  <2>2. PICK n \in Len(req[l].new)..Len(remote) : indexed' = SubSeq(remote, 1, n)
    BY <1>12 DEF RebuildIndex
  <2>3. n \in 0..Len(remote)
    <3>1. Len(req[l].new) \in Nat /\ Len(remote) \in Nat
      BY <1>1, <1>2, <2>1, LenProperties DEF Requests, Shas
    <3>2. QED BY <2>2, <3>1
  <2>4. indexed' \in Shas BY <1>2, <2>2, <2>3, SubSeqIsPrefix DEF Shas
  <2>5. QED BY <1>12, <2>4 DEF RebuildIndex, Step, TypeOK, captureVars, ErasePhases
<1>13. CASE Succeed(w)
  <2>1. l \in Layers BY <1>13 DEF Succeed, JobInv, ErasePhases
  <2>2. req' \in [Layers -> Requests]
    <3> DEFINE r == [req[l] EXCEPT !.status = "succeeded"]
    <3>1. req[l] \in Requests BY <1>1, <2>1
    <3>2. r \in Requests BY <3>1, <2>1 DEF Requests, Statuses
    <3>3. req' = [req EXCEPT ![l] = r] BY <1>13 DEF Succeed
    <3> HIDE DEF r
    <3>4. QED BY <2>1, <3>2, <3>3, OneRequest
  <2>3. Rest(w) BY <1>13 DEF Succeed
  <2>4. QED BY <1>13, <2>2, <2>3, RestType DEF Succeed, TypeOK, Requests, captureVars
<1>14. CASE Refused(w)
  <2>1. pc[w] \in ErasePhases /\ FailAttempt(w) BY <1>14 DEF Refused, ErasePhases
  <2>2. inflight' \subseteq [from : Shas, to : Shas] /\ faults' \in 0..MaxFaults
    BY <1>14 DEF Refused, TypeOK
  <2>3. QED BY <2>1, <2>2, FailAttemptType
<1>15. CASE StepFails(w)
  <2>1. pc[w] \in ErasePhases /\ FailAttempt(w) BY <1>15 DEF StepFails
  <2>2. l \in Layers BY <2>1 DEF JobInv
  <2>3. faults' \in 0..MaxFaults BY <1>15 DEF StepFails, TypeOK
  <2>4. [from |-> req[l].old, to |-> req[l].new] \in [from : Shas, to : Shas]
    BY <1>1, <2>2 DEF Requests
  <2>5. inflight' \subseteq [from : Shas, to : Shas] BY <1>15, <2>4 DEF StepFails, TypeOK
  <2>6. QED BY <2>1, <2>3, <2>5, FailAttemptType
<1>16. QED
  BY <1>3, <1>4, <1>5, <1>6, <1>7, <1>8, <1>9, <1>10, <1>11, <1>12, <1>13, <1>14, <1>15
  DEF EraseStep

LEMMA BranchType ==
    ASSUME ErasureAssumption, TypeOK,
           (\E c \in Outside : OutsidePush(c)) \/ (\E p \in inflight : Land(p))
    PROVE  TypeOK'
<1>1. CASE \E c \in Outside : OutsidePush(c)
  <2>1. PICK c \in Outside : OutsidePush(c) BY <1>1
  <2>2. [cap |-> c, folders |-> Touches[c]] \in Commits BY DEF ErasureAssumption, Commits
  <2>3. remote' \in Shas BY <2>1, <2>2, AppendExtends DEF OutsidePush, TypeOK, Shas
  <2>4. QED BY <2>1, <2>3 DEF OutsidePush, TypeOK, captureVars, workerVars
<1>2. CASE \E p \in inflight : Land(p)
  <2>1. PICK p \in inflight : Land(p) BY <1>2
  <2>2. p.to \in Shas BY DEF TypeOK
  <2>3. remote' \in Shas BY <2>1, <2>2 DEF Land, TypeOK
  <2>4. QED BY <2>1, <2>3 DEF Land, TypeOK, captureVars, workerVars
<1>3. QED BY <1>1, <1>2

LEMMA StepType == ASSUME ErasureAssumption, TypeOK, JobInv, Next PROVE TypeOK'
BY CaptureType, RequestType, WriterType, EraseType, BranchType DEF Next

-----------------------------------------------------------------------------
(* What a step may change.                                                 *)

BranchFrame ==
    \/ remote' = remote
    \/ (\E w \in Workers : Publish(w) \/ PushRewrite(w))
    \/ (\E c \in Outside : OutsidePush(c)) \/ (\E p \in inflight : Land(p))

LedgerFrame == ledger' = ledger \/ \E w \in Workers : RecordChange(w) \/ Purge(w)

RowFrame ==
    \/ row' = row /\ rowSha' = rowSha
    \/ \E c \in Captures : Enqueue(c) \/ Reclaim(c)
    \/ \E w \in Workers : \/ Finish(w) \/ FailCapture(w) \/ PublishRefused(w) \/ Purge(w)
                          \/ \E c \in Captures : Claim(w, c)

StoreFrame ==
    /\ objects' = objects \/ (\E c \in Captures : Accept(c)) \/ \E w \in Workers : Collect(w)
    /\ accepted' \subseteq accepted \/ \E c \in Captures : Accept(c)
    /\ indexed' = indexed \/ \E w \in Workers : RebuildIndex(w)

RequestFrame ==
    \/ req' = req
    \/ \E l \in Layers : Request(l) \/ Backoff(l)
    \/ \E w \in Workers : \/ ClaimErasure(w) \/ CheckReached(w) \/ RecordRewrite(w) \/ MarkPushed(w)
                          \/ Purge(w) \/ ClearGarbage(w) \/ Succeed(w) \/ Refused(w) \/ StepFails(w)

LateFrame == late' = late \/ \E p \in inflight : Land(p)

PushFrame == inflight' = inflight \/ (\E w \in Workers : FailCapture(w) \/ StepFails(w))
                                  \/ (\E p \in inflight : Land(p))

LEMMA Frames ==
    ASSUME Next
    PROVE  /\ BranchFrame /\ LedgerFrame /\ RowFrame
           /\ StoreFrame /\ RequestFrame /\ PushFrame /\ LateFrame
<1> DEFINE Goal == /\ BranchFrame /\ LedgerFrame /\ RowFrame
                   /\ StoreFrame /\ RequestFrame /\ PushFrame /\ LateFrame
<1> USE DEF BranchFrame, LedgerFrame, RowFrame, StoreFrame, RequestFrame, PushFrame, LateFrame
<1>1. ASSUME NEW c \in Captures, Accept(c) \/ Refuse(c) \/ Enqueue(c) \/ Reclaim(c) PROVE Goal
  BY <1>1 DEF Accept, Refuse, Enqueue, Reclaim
<1>2. ASSUME NEW l \in Layers, Request(l) \/ Backoff(l) PROVE Goal
  BY <1>2 DEF Request, Backoff, captureVars
<1>3. ASSUME NEW w \in Workers, NEW c \in Captures, Claim(w, c) PROVE Goal BY <1>3 DEF Claim
<1>4. ASSUME NEW w \in Workers, CaptureStep(w) PROVE Goal
  <2>1. CASE Recover(w) BY <2>1 DEF Recover, captureVars
  <2>2. CASE File(w) BY <2>2 DEF File, captureVars
  <2>3. CASE Publish(w) BY <2>3 DEF Publish, captureVars
  <2>4. CASE PublishRefused(w) BY <2>4 DEF PublishRefused
  <2>5. CASE RecordChange(w) BY <2>5 DEF RecordChange
  <2>6. CASE Finish(w) BY <2>6 DEF Finish
  <2>7. QED BY <1>4, <2>1, <2>2, <2>3, <2>4, <2>5, <2>6 DEF CaptureStep
<1>5. ASSUME NEW w \in Workers, FailCapture(w) PROVE Goal BY <1>5 DEF FailCapture
<1>6. ASSUME NEW w \in Workers, ClaimErasure(w) PROVE Goal BY <1>6, Zenon DEF ClaimErasure, captureVars
<1>7. ASSUME NEW w \in Workers, EraseStep(w) PROVE Goal
  <2>1. CASE CheckReached(w) BY <2>1 DEF CheckReached, Step, captureVars
  <2>2. CASE RecordRewrite(w) BY <2>2 DEF RecordRewrite, Step, captureVars
  <2>3. CASE PushRewrite(w) BY <2>3 DEF PushRewrite, Step, captureVars
  <2>4. CASE MarkPushed(w) BY <2>4 DEF MarkPushed, Step, captureVars
  <2>5. CASE ResetCheckout(w) BY <2>5 DEF ResetCheckout, Step, captureVars
  <2>6. CASE Purge(w) BY <2>6 DEF Purge, Step
  <2>7. CASE Collect(w) BY <2>7 DEF Collect, Step, captureVars
  <2>8. CASE ClearGarbage(w) BY <2>8 DEF ClearGarbage, Step, captureVars
  <2>9. CASE RebuildIndex(w) BY <2>9 DEF RebuildIndex, Step, captureVars
  <2>10. CASE Succeed(w) BY <2>10 DEF Succeed, captureVars
  <2>11. CASE Refused(w) BY <2>11 DEF Refused, FailAttempt, captureVars
  <2>12. QED
    BY <1>7, <2>1, <2>2, <2>3, <2>4, <2>5, <2>6, <2>7, <2>8, <2>9, <2>10, <2>11, Zenon
       DEF EraseStep
<1>8. ASSUME NEW w \in Workers, StepFails(w) PROVE Goal
  BY <1>8 DEF StepFails, FailAttempt, captureVars
<1>9. ASSUME NEW w \in Workers, Crash(w) PROVE Goal BY <1>9 DEF Crash, captureVars
<1>10. ASSUME NEW c \in Outside, OutsidePush(c) PROVE Goal BY <1>10 DEF OutsidePush, captureVars
<1>11. ASSUME NEW p \in inflight, Land(p) PROVE Goal BY <1>11 DEF Land, captureVars
<1> HIDE DEF Goal
<1>12. Goal
  BY <1>1, <1>2, <1>3, <1>4, <1>5, <1>6, <1>7, <1>8, <1>9, <1>10, <1>11 DEF Next
<1>13. QED BY <1>12 DEF Goal

\* Once a push has landed late, it has.
LEMMA LateStays == ASSUME Next, late PROVE late'
<1>1. ASSUME NEW p \in inflight, Land(p) PROVE late' BY <1>1 DEF Land
<1>2. QED BY <1>1, Frames DEF LateFrame

WriterStep(w) ==
    \/ CaptureStep(w) \/ FailCapture(w) \/ ClaimErasure(w) \/ EraseStep(w) \/ StepFails(w) \/ Crash(w)
    \/ \E c \in Captures : Claim(w, c)

\* A step is of one writer at most, and leaves the others where they are.
LEMMA OthersStand ==
    ASSUME TypeOK, Next, NEW v \in Workers
    PROVE  WriterStep(v) \/ (pc'[v] = pc[v] /\ job'[v] = job[v] /\ sha'[v] = sha[v])
<1> DEFINE Stands == pc'[v] = pc[v] /\ job'[v] = job[v] /\ sha'[v] = sha[v]
<1>1. ASSUME NEW w \in Workers, w # v, CaptureStep(w) \/ FailCapture(w) \/ Crash(w) PROVE Stands
  BY <1>1 DEF CaptureStep, Recover, File, Publish, PublishRefused, RecordChange, Finish, FailCapture,
       Crash, Rest, TypeOK
<1>2. ASSUME NEW w \in Workers, w # v, NEW c \in Captures, Claim(w, c) PROVE Stands
  BY <1>2 DEF Claim, TypeOK
<1>3. ASSUME NEW w \in Workers, w # v, ClaimErasure(w) PROVE Stands
  BY <1>3, Zenon DEF ClaimErasure, TypeOK
<1>4. ASSUME NEW w \in Workers, w # v, EraseStep(w) \/ StepFails(w) PROVE Stands
  BY <1>4 DEF EraseStep, CheckReached, RecordRewrite, PushRewrite, MarkPushed, ResetCheckout, Purge,
       Collect, ClearGarbage, RebuildIndex, Succeed, Refused, StepFails, FailAttempt, Step, Rest, TypeOK
<1>5. CASE \/ \E c \in Captures : Accept(c) \/ Refuse(c) \/ Enqueue(c) \/ Reclaim(c)
           \/ \E l \in Layers : Request(l) \/ Backoff(l)
           \/ (\E c \in Outside : OutsidePush(c)) \/ (\E p \in inflight : Land(p))
  BY <1>5 DEF Accept, Refuse, Enqueue, Reclaim, Request, Backoff, OutsidePush, Land, workerVars
<1>6. QED BY <1>1, <1>2, <1>3, <1>4, <1>5 DEF Next, WriterStep

\* The steps of an erasure after the record of its rewrite keep what it recorded.
LEMMA RewriteKept ==
    ASSUME TypeOK, JobInv, NEW w \in Workers,
           CheckReached(w) \/ MarkPushed(w) \/ Purge(w) \/ ClearGarbage(w)
    PROVE  \A m \in Layers : /\ req'[m].old = req[m].old /\ req'[m].new = req[m].new
                             /\ req'[m].recorded = req[m].recorded
                             /\ req'[m].status = req[m].status
<1>1. PICK l \in Layers : job[w] = l
  BY DEF CheckReached, MarkPushed, Purge, ClearGarbage, Step, JobInv, ErasePhases
<1>2. CASE CheckReached(w) BY <1>1, <1>2 DEF CheckReached, TypeOK
<1>3. CASE MarkPushed(w) BY <1>1, <1>3 DEF MarkPushed, TypeOK
<1>4. CASE Purge(w) BY <1>1, <1>4 DEF Purge, TypeOK
<1>5. CASE ClearGarbage(w) BY <1>1, <1>5 DEF ClearGarbage, TypeOK
<1>6. QED BY <1>2, <1>3, <1>4, <1>5

-----------------------------------------------------------------------------
(* Locks, jobs and requests.                                               *)

\* A claim changes the status of the request it takes and of those it gives up.
LEMMA ClaimMeans ==
    ASSUME TypeOK, NEW w \in Workers, ClaimErasure(w)
    PROVE  /\ lock = NoWorker /\ pc[w] = "idle" /\ UNCHANGED <<remote, inflight, late, sha>>
           /\ \A m \in Layers : /\ req'[m].old = req[m].old /\ req'[m].new = req[m].new
                                /\ req'[m].recorded = req[m].recorded
                                /\ req'[m].pushed = req[m].pushed
                                /\ req'[m].garbage = req[m].garbage
                                /\ Open(m)' => Open(m)
                                /\ Open(m) => Open(m)' \/ m \in Abandoned
                                /\ req[m].status # "none" => req'[m].status # "none"
                                /\ req'[m].status \in {"running", "failed", req[m].status}
           /\ \/ UNCHANGED <<lock, pc, job>>
              \/ \E l \in Layers : /\ Due(l) /\ l \notin Abandoned /\ req'[l].status = "running"
                                   /\ lock' = w /\ pc' = [pc EXCEPT ![w] = "checking"]
                                   /\ job' = [job EXCEPT ![w] = l]
<1> DEFINE given == [m \in Layers |-> IF m \in Abandoned THEN GiveUp(m) ELSE req[m]]
<1>0. lock = NoWorker /\ pc[w] = "idle" /\ UNCHANGED <<remote, inflight, late, sha>>
  BY Zenon DEF ClaimErasure
<1>1. req \in [Layers -> Requests] BY DEF TypeOK, Requests
<1>2. \A m \in Layers : /\ given[m] \in Requests
                        /\ given[m].old = req[m].old /\ given[m].new = req[m].new
                        /\ given[m].recorded = req[m].recorded /\ given[m].pushed = req[m].pushed
                        /\ given[m].garbage = req[m].garbage
                        /\ given[m].status = IF m \in Abandoned THEN "failed" ELSE req[m].status
  BY <1>1 DEF GiveUp, Requests, Statuses
<1>3. CASE req' = given /\ UNCHANGED <<lock, pc, job>>
  <2> HIDE DEF given
  <2>1. QED BY <1>0, <1>2, <1>3 DEF Open
<1>4. CASE {m \in Layers : Due(m)} \ Abandoned # {}
  <2>1. PICK l \in {m \in Layers : Due(m)} \ Abandoned :
          /\ req' = [given EXCEPT ![l].status = "running", ![l].due = FALSE,
                                  ![l].attempts = IF @ < MaxAttempts THEN @ + 1 ELSE @]
          /\ lock' = w /\ pc' = [pc EXCEPT ![w] = "checking"] /\ job' = [job EXCEPT ![w] = l]
    BY <1>4, Zenon DEF ClaimErasure
  <2>2. Due(l) /\ Open(l) /\ l \in Layers /\ l \notin Abandoned BY <2>1 DEF Due
  <2>3. DOMAIN given = Layers OBVIOUS
  <2> HIDE DEF given
  <2>4. \A m \in Layers : /\ req'[m].old = given[m].old /\ req'[m].new = given[m].new
                          /\ req'[m].recorded = given[m].recorded
                          /\ req'[m].pushed = given[m].pushed
                          /\ req'[m].garbage = given[m].garbage
                          /\ req'[m].status = IF m = l THEN "running" ELSE given[m].status
    BY <1>2, <2>1, <2>2, <2>3 DEF Requests
  <2>5. \A m \in Layers : /\ req'[m].old = req[m].old /\ req'[m].new = req[m].new
                          /\ req'[m].recorded = req[m].recorded
                          /\ req'[m].pushed = req[m].pushed
                          /\ req'[m].garbage = req[m].garbage
    BY <1>2, <2>4
  <2>6. \A m \in Layers : req'[m].status = IF m = l THEN "running"
                                          ELSE IF m \in Abandoned THEN "failed" ELSE req[m].status
    BY <1>2, <2>4
  <2>7. \A m \in Layers : /\ Open(m)' => Open(m)
                          /\ Open(m) => Open(m)' \/ m \in Abandoned
                          /\ req[m].status # "none" => req'[m].status # "none"
                          /\ req'[m].status \in {"running", "failed", req[m].status}
    BY <2>2, <2>6 DEF Open
  <2>8. QED BY <1>0, <2>1, <2>2, <2>5, <2>6, <2>7
<1>5. QED BY <1>3, <1>4, Zenon DEF ClaimErasure

\* A failed attempt leaves the request open as it is, or ends it with nothing pushed.
LEMMA FailMeans ==
    ASSUME TypeOK, JobInv, NEW w \in Workers, pc[w] \in ErasePhases, FailAttempt(w),
           NEW l \in Layers, job[w] = l
    PROVE  /\ \A m \in Layers \ {l} : req'[m] = req[m]
           /\ Open(l) /\ req'[l].status \in {"queued", "failed"}
           /\ \/ /\ req'[l].old = req[l].old /\ req'[l].new = req[l].new
                 /\ req'[l].recorded = req[l].recorded
                 /\ req'[l].pushed = req[l].pushed
                 /\ req'[l].garbage = req[l].garbage
                 /\ Open(l)'
              \/ /\ ~MayBePushed(l) /\ ~Open(l)'
                 /\ ~req'[l].recorded /\ ~req'[l].pushed
                 /\ req'[l].garbage = {}
           /\ \A v \in Workers : v # w => pc'[v] = pc[v] /\ job'[v] = job[v] /\ sha'[v] = sha[v]
           /\ pc'[w] = "idle"
<1>1. req \in [Layers -> Requests] /\ req[l].status = "running"
  BY DEF TypeOK, Requests, JobInv
<1>2. /\ \A v \in Workers : v # w => pc'[v] = pc[v] /\ job'[v] = job[v] /\ sha'[v] = sha[v]
      /\ pc'[w] = "idle"
  BY DEF FailAttempt, Rest, TypeOK
<1>3. CASE req' = [req EXCEPT ![l].status = "queued"]
  <2>1. \A m \in Layers \ {l} : req'[m] = req[m] BY <1>1, <1>3
  <2>2. req'[l] = [req[l] EXCEPT !.status = "queued"] BY <1>1, <1>3
  <2>3. req[l] \in Requests BY <1>1
  <2>4. /\ req'[l].old = req[l].old /\ req'[l].new = req[l].new
        /\ req'[l].recorded = req[l].recorded /\ req'[l].pushed = req[l].pushed
        /\ req'[l].garbage = req[l].garbage /\ req'[l].status = "queued"
    BY <2>2, <2>3 DEF Requests
  <2>5. Open(l) /\ Open(l)' /\ req'[l].status = "queued" BY <1>1, <2>4 DEF Open
  <2>6. QED BY <1>1, <1>2, <2>1, <2>4, <2>5
<1>4. CASE /\ ~MayBePushed(l)
           /\ req' = [req EXCEPT ![l] = [NoRequest EXCEPT !.status = "failed", !.at = req[l].at]]
  <2>1. \A m \in Layers \ {l} : req'[m] = req[m] BY <1>1, <1>4
  <2>2. req'[l] = [NoRequest EXCEPT !.status = "failed", !.at = req[l].at] BY <1>1, <1>4
  <2>3. /\ ~req'[l].recorded /\ ~req'[l].pushed /\ req'[l].garbage = {}
        /\ req'[l].status = "failed"
    BY <2>2 DEF NoRequest
  <2>4. Open(l) /\ ~Open(l)' /\ req'[l].status = "failed" BY <1>1, <2>3 DEF Open
  <2>5. QED BY <1>1, <1>2, <1>4, <2>1, <2>3, <2>4
<1>5. QED BY <1>3, <1>4 DEF FailAttempt

\* The holder of the lock erases alone.
LEMMA OneAtWork ==
    ASSUME ErasureAssumption, LockInv, NEW v \in Workers, NEW w \in Workers,
           pc[v] \in {"filing", "recording"} \cup ErasePhases,
           pc[w] \in {"filing", "recording"} \cup ErasePhases
    PROVE  v = w
BY DEF LockInv

LEMMA StepLock ==
    ASSUME ErasureAssumption, TypeOK, LockInv, Next
    PROVE  LockInv'
<1>1. CASE UNCHANGED <<lock, pc>> BY <1>1 DEF LockInv
<1>2. ASSUME NEW w \in Workers, NEW c \in Captures, Claim(w, c) PROVE LockInv'
  BY <1>2 DEF Claim, TypeOK, LockInv, ErasePhases
<1>3. ASSUME NEW w \in Workers, Recover(w) PROVE LockInv'
  BY <1>3 DEF Recover, TypeOK, LockInv
<1>4. ASSUME NEW w \in Workers, File(w) PROVE LockInv'
  BY <1>4 DEF File, TypeOK, LockInv, ErasePhases
<1>5. ASSUME NEW w \in Workers, Publish(w) PROVE LockInv'
  BY <1>5 DEF Publish, TypeOK, LockInv
<1>6. ASSUME NEW w \in Workers, PublishRefused(w) PROVE LockInv'
  BY <1>6 DEF PublishRefused, Rest, TypeOK, LockInv, ErasePhases
<1>7. ASSUME NEW w \in Workers, RecordChange(w) PROVE LockInv'
  BY <1>7 DEF RecordChange, TypeOK, LockInv, ErasePhases
<1>8. ASSUME NEW w \in Workers, Finish(w) PROVE LockInv'
  BY <1>8 DEF Finish, Rest, Unlocked, TypeOK, LockInv, ErasePhases
<1>9. ASSUME NEW w \in Workers, FailCapture(w) PROVE LockInv'
  BY <1>9 DEF FailCapture, Rest, Unlocked, TypeOK, LockInv, ErasePhases
<1>10. ASSUME NEW w \in Workers, ClaimErasure(w) PROVE LockInv'
  <2>1. \A v \in Workers : pc[v] \notin {"filing", "recording"} \cup ErasePhases
    BY <1>10, ClaimMeans DEF LockInv, ErasureAssumption
  <2>2. CASE UNCHANGED <<lock, pc, job>> BY <2>1, <2>2 DEF LockInv
  <2>3. CASE ~UNCHANGED <<lock, pc, job>>
    <3>1. PICK l \in Layers : /\ req'[l].status = "running" /\ lock' = w
                              /\ pc' = [pc EXCEPT ![w] = "checking"] /\ job' = [job EXCEPT ![w] = l]
      BY <1>10, <2>3, ClaimMeans
    <3>2. sha' = sha BY <1>10, ClaimMeans
    <3>3. QED BY <2>1, <3>1, <3>2 DEF LockInv, TypeOK
  <2>4. QED BY <2>2, <2>3
<1>11. ASSUME NEW w \in Workers, CheckReached(w) PROVE LockInv'
  BY <1>11 DEF CheckReached, Step, TypeOK, LockInv, ErasePhases
<1>12. ASSUME NEW w \in Workers, RecordRewrite(w) PROVE LockInv'
  BY <1>12 DEF RecordRewrite, Step, TypeOK, LockInv, ErasePhases
<1>13. ASSUME NEW w \in Workers, PushRewrite(w) PROVE LockInv'
  BY <1>13 DEF PushRewrite, Step, TypeOK, LockInv, ErasePhases
<1>14. ASSUME NEW w \in Workers, MarkPushed(w) PROVE LockInv'
  BY <1>14 DEF MarkPushed, Step, TypeOK, LockInv, ErasePhases
<1>15. ASSUME NEW w \in Workers, ResetCheckout(w) PROVE LockInv'
  BY <1>15 DEF ResetCheckout, Step, TypeOK, LockInv, ErasePhases
<1>16. ASSUME NEW w \in Workers, Purge(w) PROVE LockInv'
  BY <1>16 DEF Purge, Step, TypeOK, LockInv, ErasePhases
<1>17. ASSUME NEW w \in Workers, Collect(w) PROVE LockInv'
  BY <1>17 DEF Collect, Step, TypeOK, LockInv, ErasePhases
<1>18. ASSUME NEW w \in Workers, ClearGarbage(w) PROVE LockInv'
  BY <1>18 DEF ClearGarbage, Step, TypeOK, LockInv, ErasePhases
<1>19. ASSUME NEW w \in Workers, RebuildIndex(w) PROVE LockInv'
  BY <1>19 DEF RebuildIndex, Step, TypeOK, LockInv, ErasePhases
<1>20. ASSUME NEW w \in Workers, Succeed(w) PROVE LockInv'
  BY <1>20 DEF Succeed, Rest, TypeOK, LockInv, ErasePhases
<1>21. ASSUME NEW w \in Workers, Refused(w) PROVE LockInv'
  BY <1>21 DEF Refused, FailAttempt, Rest, TypeOK, LockInv, ErasePhases
<1>22. ASSUME NEW w \in Workers, StepFails(w) PROVE LockInv'
  BY <1>22 DEF StepFails, FailAttempt, Rest, TypeOK, LockInv, ErasePhases
<1>23. ASSUME NEW w \in Workers, Crash(w) PROVE LockInv'
  BY <1>23 DEF Crash, Rest, Unlocked, TypeOK, LockInv, ErasePhases
<1>24. QED
  BY <1>1, <1>2, <1>3, <1>4, <1>5, <1>6, <1>7, <1>8, <1>9, <1>10, <1>11, <1>12, <1>13, <1>14,
       <1>15, <1>16, <1>17, <1>18, <1>19, <1>20, <1>21, <1>22, <1>23 DEF Next, CaptureStep,
       EraseStep, Accept, Refuse, Enqueue, Reclaim, Request, Backoff, OutsidePush, Land,
       captureVars, workerVars

LEMMA StepJob ==
    ASSUME ErasureAssumption, TypeOK, LockInv, JobInv, Next
    PROVE  JobInv'
<1>1. CASE UNCHANGED <<pc, job, sha, req>> BY <1>1 DEF JobInv
<1>2. ASSUME NEW l \in Layers, Request(l) PROVE JobInv'
  BY <1>2 DEF Request, workerVars, TypeOK, JobInv, Open
<1>3. ASSUME NEW l \in Layers, Backoff(l) PROVE JobInv'
  BY <1>3 DEF Backoff, workerVars, TypeOK, JobInv
<1>4. ASSUME NEW w \in Workers, NEW c \in Captures, Claim(w, c) PROVE JobInv'
  BY <1>4 DEF Claim, TypeOK, JobInv, ErasePhases
<1>5. ASSUME NEW w \in Workers, Recover(w) PROVE JobInv'
  <2>1. PICK i \in CommitOf(job[w]) : sha' = [sha EXCEPT ![w] = SubSeq(remote, 1, i)]
    BY <1>5 DEF Recover
  <2>2. remote \in Seq(Commits) BY DEF TypeOK, Shas
  <2>3. i \in 1..Len(remote) /\ Len(remote) \in Nat BY <2>1, <2>2, LenProperties DEF CommitOf
  <2>4. Len(SubSeq(remote, 1, i)) = i BY <2>2, <2>3, SubSeqIsPrefix
  <2>5. SubSeq(remote, 1, i) # NoSha BY <2>3, <2>4, EmptySeq DEF NoSha
  <2>6. QED BY <1>5, <2>1, <2>5 DEF Recover, TypeOK, JobInv, ErasePhases
<1>6. ASSUME NEW w \in Workers, File(w) PROVE JobInv'
  <2> DEFINE s == Append(remote, [cap |-> job[w], folders |-> FoldersOf(job[w])])
  <2>1. job[w] \in Captures BY <1>6 DEF File, JobInv
  <2>2. [cap |-> job[w], folders |-> FoldersOf(job[w])] \in Commits
    BY <2>1 DEF Commits, FoldersOf
  <2>3. Len(s) = Len(remote) + 1 /\ Len(remote) \in Nat
    BY <2>2, AppendProperties, LenProperties DEF TypeOK, Shas
  <2>4. s # NoSha BY <2>3, EmptySeq DEF NoSha
  <2> HIDE DEF s
  <2>5. QED BY <1>6, <2>1, <2>4 DEF File, TypeOK, JobInv, ErasePhases, s
<1>7. ASSUME NEW w \in Workers, Publish(w) PROVE JobInv'
  BY <1>7 DEF Publish, TypeOK, JobInv, ErasePhases
<1>8. ASSUME NEW w \in Workers, PublishRefused(w) PROVE JobInv'
  BY <1>8 DEF PublishRefused, Rest, TypeOK, JobInv, ErasePhases
<1>9. ASSUME NEW w \in Workers, RecordChange(w) PROVE JobInv'
  BY <1>9 DEF RecordChange, TypeOK, JobInv, ErasePhases
<1>10. ASSUME NEW w \in Workers, Finish(w) PROVE JobInv'
  BY <1>10 DEF Finish, Rest, TypeOK, JobInv, ErasePhases
<1>11. ASSUME NEW w \in Workers, FailCapture(w) PROVE JobInv'
  BY <1>11 DEF FailCapture, Rest, TypeOK, JobInv, ErasePhases
<1>12. ASSUME NEW w \in Workers, ClaimErasure(w) PROVE JobInv'
  <2>1. \A v \in Workers : pc[v] \notin {"filing", "recording"} \cup ErasePhases
    BY <1>12, ClaimMeans DEF LockInv, ErasureAssumption
  <2>2. CASE UNCHANGED <<lock, pc, job>>
    <3>1. sha' = sha BY <1>12, ClaimMeans
    <3>2. QED BY <2>1, <2>2, <3>1 DEF JobInv
  <2>3. CASE ~UNCHANGED <<lock, pc, job>>
    <3>1. PICK l \in Layers : /\ req'[l].status = "running" /\ lock' = w
                              /\ pc' = [pc EXCEPT ![w] = "checking"] /\ job' = [job EXCEPT ![w] = l]
      BY <1>12, <2>3, ClaimMeans
    <3>2. sha' = sha BY <1>12, ClaimMeans
    <3>3. QED BY <2>1, <3>1, <3>2 DEF JobInv, TypeOK
  <2>4. QED BY <2>2, <2>3
<1>13. ASSUME NEW w \in Workers, CheckReached(w) PROVE JobInv'
  BY <1>13 DEF CheckReached, Step, TypeOK, JobInv, ErasePhases
<1>14. ASSUME NEW w \in Workers, RecordRewrite(w) PROVE JobInv'
  BY <1>14 DEF RecordRewrite, Step, TypeOK, JobInv
<1>15. ASSUME NEW w \in Workers, PushRewrite(w) PROVE JobInv'
  BY <1>15 DEF PushRewrite, Step, TypeOK, JobInv, ErasePhases
<1>16. ASSUME NEW w \in Workers, MarkPushed(w) PROVE JobInv'
  BY <1>16 DEF MarkPushed, Step, TypeOK, JobInv, ErasePhases
<1>17. ASSUME NEW w \in Workers, ResetCheckout(w) PROVE JobInv'
  BY <1>17 DEF ResetCheckout, Step, TypeOK, JobInv, ErasePhases
<1>18. ASSUME NEW w \in Workers, Purge(w) PROVE JobInv'
  BY <1>18 DEF Purge, Step, TypeOK, JobInv, ErasePhases
<1>19. ASSUME NEW w \in Workers, Collect(w) PROVE JobInv'
  BY <1>19 DEF Collect, Step, TypeOK, JobInv, ErasePhases
<1>20. ASSUME NEW w \in Workers, ClearGarbage(w) PROVE JobInv'
  BY <1>20 DEF ClearGarbage, Step, TypeOK, JobInv, ErasePhases
<1>21. ASSUME NEW w \in Workers, RebuildIndex(w) PROVE JobInv'
  BY <1>21 DEF RebuildIndex, Step, TypeOK, JobInv, ErasePhases
<1>22. ASSUME NEW w \in Workers, Succeed(w) PROVE JobInv'
  BY <1>22 DEF Succeed, Rest, TypeOK, LockInv, JobInv, ErasePhases
<1>23. ASSUME NEW w \in Workers, Refused(w) PROVE JobInv'
  BY <1>23 DEF Refused, FailAttempt, Rest, TypeOK, LockInv, JobInv, ErasePhases
<1>24. ASSUME NEW w \in Workers, StepFails(w) PROVE JobInv'
  BY <1>24 DEF StepFails, FailAttempt, Rest, TypeOK, LockInv, JobInv, ErasePhases
<1>25. ASSUME NEW w \in Workers, Crash(w) PROVE JobInv'
  BY <1>25 DEF Crash, Rest, TypeOK, JobInv, ErasePhases
<1>26. QED
  BY <1>1, <1>2, <1>3, <1>4, <1>5, <1>6, <1>7, <1>8, <1>9, <1>10, <1>11, <1>12, <1>13, <1>14,
       <1>15, <1>16, <1>17, <1>18, <1>19, <1>20, <1>21, <1>22, <1>23, <1>24, <1>25 DEF Next,
       CaptureStep, EraseStep, Accept, Refuse, Enqueue, Reclaim, OutsidePush, Land, captureVars,
       workerVars

LEMMA StepRewrite ==
    ASSUME ErasureAssumption, TypeOK, LockInv, JobInv, RewriteInv, Next
    PROVE  RewriteInv'
<1>1. CASE UNCHANGED <<req, pc, job>> BY <1>1 DEF RewriteInv, Open
<1>2. ASSUME NEW l \in Layers, Request(l) PROVE RewriteInv'
  BY <1>2 DEF Request, workerVars, TypeOK, JobInv, RewriteInv, ErasePhases, Recorded, Reset,
       Open, NoRequest
<1>3. ASSUME NEW l \in Layers, Backoff(l) PROVE RewriteInv'
  BY <1>3 DEF Backoff, workerVars, TypeOK, RewriteInv, Open
<1>4. ASSUME NEW w \in Workers, NEW c \in Captures, Claim(w, c) PROVE RewriteInv'
  BY <1>4 DEF Claim, TypeOK, RewriteInv, ErasePhases, Recorded, Reset, Open
<1>5. ASSUME NEW w \in Workers, Recover(w) PROVE RewriteInv'
  BY <1>5 DEF Recover, TypeOK, RewriteInv, ErasePhases, Recorded, Reset, Open
<1>6. ASSUME NEW w \in Workers, File(w) PROVE RewriteInv'
  BY <1>6 DEF File, TypeOK, RewriteInv, ErasePhases, Recorded, Reset, Open
<1>7. ASSUME NEW w \in Workers, Publish(w) PROVE RewriteInv'
  BY <1>7 DEF Publish, TypeOK, RewriteInv, ErasePhases, Recorded, Reset, Open
<1>8. ASSUME NEW w \in Workers, PublishRefused(w) PROVE RewriteInv'
  BY <1>8 DEF PublishRefused, Rest, TypeOK, RewriteInv, ErasePhases, Recorded, Reset, Open
<1>9. ASSUME NEW w \in Workers, RecordChange(w) PROVE RewriteInv'
  BY <1>9 DEF RecordChange, TypeOK, RewriteInv, ErasePhases, Recorded, Reset, Open
<1>10. ASSUME NEW w \in Workers, Finish(w) PROVE RewriteInv'
  BY <1>10 DEF Finish, Rest, TypeOK, RewriteInv, ErasePhases, Recorded, Reset, Open
<1>11. ASSUME NEW w \in Workers, FailCapture(w) PROVE RewriteInv'
  BY <1>11 DEF FailCapture, Rest, TypeOK, RewriteInv, ErasePhases, Recorded, Reset, Open
<1>12. ASSUME NEW w \in Workers, ClaimErasure(w) PROVE RewriteInv'
  <2>1. \A v \in Workers : pc[v] \notin {"filing", "recording"} \cup ErasePhases
    BY <1>12, ClaimMeans DEF LockInv, ErasureAssumption
  <2>2. \A m, k \in Layers :
          /\ req'[m].recorded => req'[m].new = Filter(req'[m].old, m)
          /\ req'[m].pushed => req'[m].recorded
          /\ req'[m].garbage # {} => req'[m].pushed
          /\ (Open(m)' /\ Open(k)' /\ req'[m].recorded /\ req'[k].recorded) => m = k
    BY <1>12, ClaimMeans DEF RewriteInv
  <2>3. CASE UNCHANGED <<lock, pc, job>> BY <2>1, <2>2, <2>3 DEF RewriteInv, Recorded, Reset,
       ErasePhases
  <2>4. CASE ~UNCHANGED <<lock, pc, job>>
    <3>1. PICK l \in Layers : /\ Due(l) /\ l \notin Abandoned
                              /\ pc' = [pc EXCEPT ![w] = "checking"] /\ job' = [job EXCEPT ![w] = l]
      BY <1>12, <2>4, ClaimMeans
    <3>2. \A m \in Layers \ {l} : Open(m) => ~req[m].recorded BY <3>1 DEF Due, RewriteInv
    <3>3. \A m \in Layers \ {l} : Open(m)' => ~req'[m].recorded BY <1>12, <3>2, ClaimMeans
    <3>4. QED BY <2>1, <2>2, <3>1, <3>3 DEF RewriteInv, TypeOK, Recorded, Reset, ErasePhases
  <2>5. QED BY <2>3, <2>4
<1>13. ASSUME NEW w \in Workers, CheckReached(w) PROVE RewriteInv'
  BY <1>13 DEF CheckReached, Step, TypeOK, JobInv, RewriteInv, Recorded, Reset, Open
<1>14. ASSUME NEW w \in Workers, RecordRewrite(w) PROVE RewriteInv'
  <2>1. PICK l \in Layers : job[w] = l BY <1>14 DEF RecordRewrite, Step, JobInv, ErasePhases
  <2>2. job' = job /\ pc[w] = "rewriting" /\ pc[w] \in ErasePhases
    BY <1>14 DEF RecordRewrite, Step, ErasePhases
  <2>3. \A m \in Layers : m # l => req'[m] = req[m] BY <1>14, <2>1 DEF RecordRewrite, TypeOK
  <2>4. /\ req'[l].recorded /\ req'[l].new = Filter(req'[l].old, l)
        /\ req'[l].pushed = req[l].pushed /\ req'[l].garbage = req[l].garbage
        /\ req'[l].status = req[l].status
    BY <1>14, <2>1 DEF RecordRewrite, TypeOK
  <2>5. \A m \in Layers \ {l} : Open(m) => ~req[m].recorded BY <2>1, <2>2 DEF RewriteInv
  <2>6. \A m \in Layers : Open(m)' = Open(m) BY <2>3, <2>4 DEF Open
  <2>7. pc'[w] \in {"pushing", "marking"} /\ \A v \in Workers : v # w => pc'[v] = pc[v]
    BY <1>14 DEF RecordRewrite, Step, TypeOK
  <2>8. \A v \in Workers : pc[v] \in ErasePhases => v = w BY <2>2, OneAtWork
  <2>9. \A m \in Layers : /\ req'[m].recorded => req'[m].new = Filter(req'[m].old, m)
                          /\ req'[m].pushed => req'[m].recorded
                          /\ req'[m].garbage # {} => req'[m].pushed
    BY <2>3, <2>4 DEF RewriteInv
  <2>10. \A m, k \in Layers :
           (Open(m)' /\ Open(k)' /\ req'[m].recorded /\ req'[k].recorded) => m = k
    BY <2>3, <2>5, <2>6
  <2>11. \A v \in Workers : v # w => pc'[v] \notin ErasePhases BY <2>7, <2>8
  <2>12. \A m \in Layers \ {l} : Open(m)' => ~req'[m].recorded BY <2>3, <2>5, <2>6
  <2>13. QED
    BY <2>1, <2>2, <2>4, <2>7, <2>9, <2>10, <2>11, <2>12 DEF RewriteInv, Recorded, Reset, ErasePhases
<1>15. ASSUME NEW w \in Workers, PushRewrite(w) PROVE RewriteInv'
  BY <1>15 DEF PushRewrite, Step, TypeOK, RewriteInv, ErasePhases, Recorded, Reset, Open
<1>16. ASSUME NEW w \in Workers, MarkPushed(w) PROVE RewriteInv'
  BY <1>16 DEF MarkPushed, Step, TypeOK, JobInv, RewriteInv, ErasePhases, Recorded, Open
<1>17. ASSUME NEW w \in Workers, ResetCheckout(w) PROVE RewriteInv'
  BY <1>17 DEF ResetCheckout, Step, TypeOK, RewriteInv, ErasePhases, Recorded, Open
<1>18. ASSUME NEW w \in Workers, Purge(w) PROVE RewriteInv'
  BY <1>18 DEF Purge, Step, TypeOK, RewriteInv, ErasePhases, Recorded, Reset, Open
<1>19. ASSUME NEW w \in Workers, Collect(w) PROVE RewriteInv'
  BY <1>19 DEF Collect, Step, TypeOK, RewriteInv, ErasePhases, Recorded, Reset, Open
<1>20. ASSUME NEW w \in Workers, ClearGarbage(w) PROVE RewriteInv'
  BY <1>20 DEF ClearGarbage, Step, TypeOK, RewriteInv, ErasePhases, Recorded, Reset, Open
<1>21. ASSUME NEW w \in Workers, RebuildIndex(w) PROVE RewriteInv'
  BY <1>21 DEF RebuildIndex, Step, TypeOK, RewriteInv, ErasePhases, Recorded, Reset, Open
<1>22. ASSUME NEW w \in Workers, Succeed(w) PROVE RewriteInv'
  BY <1>22 DEF Succeed, Rest, TypeOK, RewriteInv, ErasePhases, Recorded, Reset, Open
<1>23. ASSUME NEW w \in Workers, Refused(w) PROVE RewriteInv'
  <2>1. pc[w] \in ErasePhases /\ FailAttempt(w) BY <1>23 DEF Refused, ErasePhases
  <2>job. PICK l \in Layers : job[w] = l BY <2>1 DEF JobInv
  <2>2. \A v \in Workers : v # w => pc'[v] \notin ErasePhases BY <2>1, <2>job, FailMeans,
       OneAtWork
  <2>3. \A m \in Layers : m # l => req'[m] = req[m] /\ (Open(m)' <=> Open(m))
    BY <2>1, <2>job, FailMeans DEF Open
  <2>4. \A m \in Layers : /\ req'[m].recorded => req'[m].new = Filter(req'[m].old, m)
                          /\ req'[m].pushed => req'[m].recorded
                          /\ req'[m].garbage # {} => req'[m].pushed
    <3>1. ASSUME NEW m \in Layers, m # l
          PROVE  /\ req'[m].recorded => req'[m].new = Filter(req'[m].old, m)
                 /\ req'[m].pushed => req'[m].recorded
                 /\ req'[m].garbage # {} => req'[m].pushed
      BY <2>3, <3>1 DEF RewriteInv
    <3>2. /\ req'[l].recorded => req'[l].new = Filter(req'[l].old, l)
          /\ req'[l].pushed => req'[l].recorded
          /\ req'[l].garbage # {} => req'[l].pushed
      <4>1. \/ /\ req'[l].old = req[l].old /\ req'[l].new = req[l].new
               /\ req'[l].recorded = req[l].recorded /\ req'[l].pushed = req[l].pushed
               /\ req'[l].garbage = req[l].garbage
            \/ ~req'[l].recorded /\ ~req'[l].pushed /\ req'[l].garbage = {}
        BY <2>1, <2>job, FailMeans
      <4>2. QED BY <4>1 DEF RewriteInv
    <3>3. QED BY <3>1, <3>2
  <2>5. \A m \in Layers : Open(m)' /\ req'[m].recorded => Open(m) /\ req[m].recorded
    BY <2>1, <2>job, <2>3, FailMeans
  <2>6. \A m, k \in Layers :
          (Open(m)' /\ Open(k)' /\ req'[m].recorded /\ req'[k].recorded) => m = k
    BY <2>5 DEF RewriteInv
  <2>7. QED BY <2>1, <2>job, <2>2, <2>4, <2>6, FailMeans DEF RewriteInv, Recorded, Reset,
       ErasePhases
<1>24. ASSUME NEW w \in Workers, StepFails(w) PROVE RewriteInv'
  <2>1. pc[w] \in ErasePhases /\ FailAttempt(w) BY <1>24 DEF StepFails, ErasePhases
  <2>job. PICK l \in Layers : job[w] = l BY <2>1 DEF JobInv
  <2>2. \A v \in Workers : v # w => pc'[v] \notin ErasePhases BY <2>1, <2>job, FailMeans,
       OneAtWork
  <2>3. \A m \in Layers : m # l => req'[m] = req[m] /\ (Open(m)' <=> Open(m))
    BY <2>1, <2>job, FailMeans DEF Open
  <2>4. \A m \in Layers : /\ req'[m].recorded => req'[m].new = Filter(req'[m].old, m)
                          /\ req'[m].pushed => req'[m].recorded
                          /\ req'[m].garbage # {} => req'[m].pushed
    <3>1. ASSUME NEW m \in Layers, m # l
          PROVE  /\ req'[m].recorded => req'[m].new = Filter(req'[m].old, m)
                 /\ req'[m].pushed => req'[m].recorded
                 /\ req'[m].garbage # {} => req'[m].pushed
      BY <2>3, <3>1 DEF RewriteInv
    <3>2. /\ req'[l].recorded => req'[l].new = Filter(req'[l].old, l)
          /\ req'[l].pushed => req'[l].recorded
          /\ req'[l].garbage # {} => req'[l].pushed
      <4>1. \/ /\ req'[l].old = req[l].old /\ req'[l].new = req[l].new
               /\ req'[l].recorded = req[l].recorded /\ req'[l].pushed = req[l].pushed
               /\ req'[l].garbage = req[l].garbage
            \/ ~req'[l].recorded /\ ~req'[l].pushed /\ req'[l].garbage = {}
        BY <2>1, <2>job, FailMeans
      <4>2. QED BY <4>1 DEF RewriteInv
    <3>3. QED BY <3>1, <3>2
  <2>5. \A m \in Layers : Open(m)' /\ req'[m].recorded => Open(m) /\ req[m].recorded
    BY <2>1, <2>job, <2>3, FailMeans
  <2>6. \A m, k \in Layers :
          (Open(m)' /\ Open(k)' /\ req'[m].recorded /\ req'[k].recorded) => m = k
    BY <2>5 DEF RewriteInv
  <2>7. QED BY <2>1, <2>job, <2>2, <2>4, <2>6, FailMeans DEF RewriteInv, Recorded, Reset,
       ErasePhases
<1>25. ASSUME NEW w \in Workers, Crash(w) PROVE RewriteInv'
  BY <1>25 DEF Crash, Rest, TypeOK, RewriteInv, ErasePhases, Recorded, Reset, Open
<1>26. QED
  BY <1>1, <1>2, <1>3, <1>4, <1>5, <1>6, <1>7, <1>8, <1>9, <1>10, <1>11, <1>12, <1>13, <1>14,
       <1>15, <1>16, <1>17, <1>18, <1>19, <1>20, <1>21, <1>22, <1>23, <1>24, <1>25 DEF Next,
       CaptureStep, EraseStep, Accept, Refuse, Enqueue, Reclaim, OutsidePush, Land, captureVars,
       workerVars

LEMMA StepInFlight ==
    ASSUME ErasureAssumption, TypeOK, LockInv, JobInv, RewriteInv, InFlightInv, Next
    PROVE  InFlightInv'
<1>1. CASE UNCHANGED <<inflight, req>> BY <1>1 DEF InFlightInv
<1>2. ASSUME NEW l \in Layers, Request(l) PROVE InFlightInv'
  BY <1>2 DEF Request, TypeOK, InFlightInv
<1>3. ASSUME NEW l \in Layers, Backoff(l) PROVE InFlightInv'
  BY <1>3 DEF Backoff, TypeOK, InFlightInv
<1>4. ASSUME NEW w \in Workers, FailCapture(w) PROVE InFlightInv'
  BY <1>4 DEF FailCapture, Rest, Unlocked, TypeOK, JobInv, InFlightInv, NoSha
<1>5. ASSUME NEW w \in Workers, ClaimErasure(w) PROVE InFlightInv'
  <2>1. \A m \in Layers : req[m].status # "none" => req'[m].status # "none" BY <1>5, ClaimMeans
  <2>2. inflight' = inflight BY <1>5, ClaimMeans
  <2>3. QED BY <2>1, <2>2 DEF InFlightInv
<1>6. ASSUME NEW w \in Workers, CheckReached(w) PROVE InFlightInv'
  BY <1>6 DEF CheckReached, Step, TypeOK, InFlightInv
<1>7. ASSUME NEW w \in Workers, RecordRewrite(w) PROVE InFlightInv'
  <2>1. \A m \in Layers : req'[m].status = req[m].status
    BY <1>7 DEF RecordRewrite, TypeOK
  <2>2. inflight' = inflight BY <1>7 DEF RecordRewrite, Step
  <2>3. QED BY <2>1, <2>2 DEF InFlightInv
<1>8. ASSUME NEW w \in Workers, MarkPushed(w) PROVE InFlightInv'
  BY <1>8 DEF MarkPushed, Step, TypeOK, InFlightInv
<1>9. ASSUME NEW w \in Workers, Purge(w) PROVE InFlightInv'
  BY <1>9 DEF Purge, Step, TypeOK, InFlightInv
<1>10. ASSUME NEW w \in Workers, ClearGarbage(w) PROVE InFlightInv'
  BY <1>10 DEF ClearGarbage, Step, TypeOK, InFlightInv
<1>11. ASSUME NEW w \in Workers, Succeed(w) PROVE InFlightInv'
  BY <1>11 DEF Succeed, TypeOK, InFlightInv
<1>12. ASSUME NEW w \in Workers, Refused(w) PROVE InFlightInv'
  <2>1. pc[w] \in ErasePhases /\ FailAttempt(w) BY <1>12 DEF Refused, ErasePhases
  <2>2. \A m \in Layers : req[m].status # "none" => req'[m].status # "none" BY <2>1, FailMeans
       DEF JobInv
  <2>3. inflight' = inflight BY <1>12 DEF Refused
  <2>4. QED BY <2>2, <2>3 DEF InFlightInv
<1>13. ASSUME NEW w \in Workers, StepFails(w) PROVE InFlightInv'
  <2>1. pc[w] \in ErasePhases /\ FailAttempt(w) BY <1>13 DEF StepFails, ErasePhases
  <2>2. \A m \in Layers : req[m].status # "none" => req'[m].status # "none" BY <2>1, FailMeans
       DEF JobInv
  <2>3. \A p \in inflight' \ inflight :
            \E l \in Layers : req'[l].status # "none" /\ p.to = Filter(p.from, l)
    <3>1. CASE pc[w] = "pushing"
      <4>1. job[w] \in Layers /\ req[job[w]].new = Filter(req[job[w]].old, job[w])
        BY <3>1 DEF JobInv, RewriteInv, Recorded, ErasePhases
      <4>2. \A p \in inflight' \ inflight : p = [from |-> req[job[w]].old, to |->
           req[job[w]].new]
        BY <1>13 DEF StepFails
      <4>3. QED BY <2>1, <4>1, <4>2, FailMeans
    <3>2. CASE pc[w] # "pushing" BY <1>13, <3>2 DEF StepFails
    <3>3. QED BY <3>1, <3>2
  <2>4. QED BY <2>2, <2>3 DEF InFlightInv
<1>14. ASSUME NEW p \in inflight, Land(p) PROVE InFlightInv'
  BY <1>14 DEF Land, TypeOK, InFlightInv
<1>15. QED
  <2>1. PushFrame /\ RequestFrame BY Frames
  <2>2. QED
    BY <1>1, <1>2, <1>3, <1>4, <1>5, <1>6, <1>7, <1>8, <1>9, <1>10, <1>11, <1>12, <1>13, <1>14, <2>1
       DEF PushFrame, RequestFrame

-----------------------------------------------------------------------------
(* The branch.                                                             *)

LEMMA AddedAtTheEnd ==
    ASSUME ErasureAssumption, TypeOK, JobInv,
           (\E w \in Workers : Publish(w)) \/ (\E c \in Outside : OutsidePush(c))
    PROVE  IsPrefix(remote, remote')
<1>1. remote \in Seq(Commits) BY DEF TypeOK, Shas
<1>2. ASSUME NEW w \in Workers, Publish(w) PROVE IsPrefix(remote, remote')
  <2>1. sha[w] \in Seq(Commits) /\ sha[w] # <<>>
    BY <1>2 DEF Publish, TypeOK, Shas, JobInv, NoSha
  <2>2. remote = Front(sha[w]) /\ remote' = sha[w] BY <1>2 DEF Publish
  <2>3. QED BY <2>1, <2>2, FrontIsPrefix
<1>3. ASSUME NEW c \in Outside, OutsidePush(c) PROVE IsPrefix(remote, remote')
  <2>1. [cap |-> c, folders |-> Touches[c]] \in Commits BY DEF ErasureAssumption, Commits
  <2>2. QED BY <1>1, <1>3, <2>1, AppendExtends DEF OutsidePush
<1>4. QED BY <1>2, <1>3

\* What is part of the branch stays so while the branch grows.
LEMMA StaysOn ==
    ASSUME TypeOK, TypeOK', IsPrefix(remote, remote'), NEW s \in Shas, IsPrefix(s, remote)
    PROVE  IsPrefix(s, remote')
<1>1. remote \in Seq(Commits) /\ remote' \in Seq(Commits) BY DEF TypeOK, Shas
<1>2. QED BY <1>1, PrefixTrans DEF Shas

LEMMA StepRemote ==
    ASSUME ErasureAssumption, TypeOK, TypeOK', LockInv, JobInv, RewriteInv, RemoteInv, ~late', Next
    PROVE  RemoteInv'
<1>1. CASE UNCHANGED <<remote, req, pc, job, sha>> BY <1>1 DEF RemoteInv, Open
<1>2. ASSUME NEW l \in Layers, Request(l) PROVE RemoteInv'
  <2>1. UNCHANGED <<remote, pc, job, sha>> /\ ~Open(l) BY <1>2 DEF Request, workerVars
  <2>2. ~req'[l].recorded /\ \A m \in Layers : m # l => req'[m] = req[m]
    BY <1>2 DEF Request, TypeOK, NoRequest
  <2>3. \A v \in Workers : pc[v] \in ErasePhases => job[v] \in Layers /\ job[v] # l
    BY <2>1 DEF JobInv, Open
  <2>4. QED BY <2>1, <2>2, <2>3 DEF RemoteInv, Open, Reset, ErasePhases
<1>3. ASSUME NEW l \in Layers, Backoff(l) PROVE RemoteInv'
  <2>1. UNCHANGED <<remote, pc, job, sha>> BY <1>3 DEF Backoff, workerVars
  <2>2. \A m \in Layers : /\ req'[m].old = req[m].old /\ req'[m].new = req[m].new
                          /\ req'[m].recorded = req[m].recorded /\ req'[m].status = req[m].status
    BY <1>3 DEF Backoff, TypeOK
  <2>3. \A m \in Layers : Open(m)' <=> Open(m) BY <2>2 DEF Open
  <2>4. \A v \in Workers : pc[v] \in ErasePhases => job[v] \in Layers BY DEF JobInv
  <2>5. QED BY <2>1, <2>2, <2>3, <2>4 DEF RemoteInv, Reset, ErasePhases
<1>4. ASSUME NEW w \in Workers, NEW c \in Captures, Claim(w, c) PROVE RemoteInv'
  BY <1>4 DEF Claim, TypeOK, RemoteInv, Reset, Open
<1>5. ASSUME NEW w \in Workers, Recover(w) PROVE RemoteInv'
  <2>1. PICK i \in CommitOf(job[w]) : sha' = [sha EXCEPT ![w] = SubSeq(remote, 1, i)]
    BY <1>5 DEF Recover
  <2>2. remote \in Seq(Commits) BY DEF TypeOK, Shas
  <2>3. i \in 0..Len(remote) /\ Len(remote) \in Nat BY <2>2, LenProperties DEF CommitOf
  <2>4. IsPrefix(SubSeq(remote, 1, i), remote) BY <2>2, <2>3, SubSeqIsPrefix
  <2>5. QED BY <1>5, <2>1, <2>4 DEF Recover, TypeOK, RemoteInv, Open, Reset
<1>6. ASSUME NEW w \in Workers, File(w) PROVE RemoteInv'
  BY <1>6 DEF File, TypeOK, RemoteInv, Reset, Open
<1>7. ASSUME NEW w \in Workers, Publish(w) PROVE RemoteInv'
  <2>1. IsPrefix(remote, remote') BY <1>7, AddedAtTheEnd
  <2>2. \A m \in Layers : req[m].old \in Shas /\ req[m].new \in Shas BY HistoryType
  <2>3. \A v \in Workers : sha[v] \in Shas BY HistoryType
  <2>4. \A s \in Shas : IsPrefix(s, remote) => IsPrefix(s, remote') BY <2>1, StaysOn
  <2>5. UNCHANGED <<req, job, sha>> /\ remote' = sha[w] /\ sha[w] \in Seq(Commits)
    BY <1>7 DEF Publish, TypeOK, Shas
  <2>6. IsPrefix(sha'[w], remote') BY <2>5, PrefixRefl
  <2>7. \A v \in Workers : v # w => pc'[v] = pc[v] BY <1>7 DEF Publish, TypeOK
  <2>8. pc'[w] = "recording" BY <1>7 DEF Publish, TypeOK
  <2>9. QED
    BY <2>2, <2>3, <2>4, <2>5, <2>6, <2>7, <2>8 DEF RemoteInv, Open, TypeOK, JobInv, Reset,
         ErasePhases
<1>8. ASSUME NEW w \in Workers, PublishRefused(w) PROVE RemoteInv'
  BY <1>8 DEF PublishRefused, Rest, TypeOK, RemoteInv, Reset, Open
<1>9. ASSUME NEW w \in Workers, RecordChange(w) PROVE RemoteInv'
  BY <1>9 DEF RecordChange, TypeOK, RemoteInv, Reset, Open
<1>10. ASSUME NEW w \in Workers, Finish(w) PROVE RemoteInv'
  BY <1>10 DEF Finish, Rest, TypeOK, RemoteInv, Reset, Open
<1>11. ASSUME NEW w \in Workers, FailCapture(w) PROVE RemoteInv'
  BY <1>11 DEF FailCapture, Rest, TypeOK, RemoteInv, Reset, Open
<1>12. ASSUME NEW w \in Workers, ClaimErasure(w) PROVE RemoteInv'
  <2>1. \A v \in Workers : pc[v] \notin {"filing", "recording"} \cup ErasePhases
    BY <1>12, ClaimMeans DEF LockInv, ErasureAssumption
  <2>2. remote' = remote /\ sha' = sha BY <1>12, ClaimMeans
  <2>3. \A m \in Layers : (Open(m)' /\ req'[m].recorded) =>
            IsPrefix(req'[m].old, remote') \/ IsPrefix(req'[m].new, remote')
    BY <1>12, <2>2, ClaimMeans DEF RemoteInv
  <2>4. \A v \in Workers : pc'[v] \notin Reset \cup {"rewriting", "recording"}
    <3>1. pc' = pc \/ pc' = [pc EXCEPT ![w] = "checking"] BY <1>12, ClaimMeans
    <3>2. \A v \in Workers : pc'[v] \in {pc[v], "checking"} BY <3>1 DEF TypeOK
    <3>3. QED BY <2>1, <3>2 DEF Reset, ErasePhases
  <2>5. QED BY <2>3, <2>4 DEF RemoteInv
<1>13. ASSUME NEW w \in Workers, CheckReached(w) PROVE RemoteInv'
  <2>1. PICK l \in Layers : job[w] = l BY <1>13 DEF CheckReached, Step, JobInv, ErasePhases
  <2>2. remote' = remote /\ sha' = sha /\ job' = job BY <1>13 DEF CheckReached, Step
  <2>3. \A m \in Layers : /\ req'[m].old = req[m].old /\ req'[m].new = req[m].new
                          /\ req'[m].recorded = req[m].recorded /\ req'[m].status = req[m].status
    BY <1>13, <2>1 DEF CheckReached, TypeOK
  <2>4. \A v \in Workers : v # w => pc'[v] \notin Reset \cup {"rewriting", "recording"}
    BY <1>13, OneAtWork DEF CheckReached, Step, TypeOK, ErasePhases, Reset
  <2>5. pc'[w] \in {"rewriting", "resetting"} BY <1>13 DEF CheckReached, Step, TypeOK
  <2>6. ASSUME pc'[w] = "rewriting", req[l].recorded PROVE IsPrefix(req[l].old, remote)
    <3>1. ~Reached(l) BY <1>13, <2>1, <2>6 DEF CheckReached, Step, TypeOK
    <3>2. ~IsPrefix(req[l].new, remote) BY <3>1 DEF Reached
    <3>3. Open(l) BY <1>13, <2>1 DEF CheckReached, Step, JobInv, Open, ErasePhases
    <3>4. QED BY <2>6, <3>2, <3>3 DEF RemoteInv
  <2>7. \A m \in Layers : (Open(m)' /\ req'[m].recorded) =>
            IsPrefix(req'[m].old, remote') \/ IsPrefix(req'[m].new, remote')
    BY <2>2, <2>3 DEF RemoteInv, Open
  <2>8. QED BY <2>1, <2>2, <2>3, <2>4, <2>5, <2>6, <2>7 DEF RemoteInv, Reset
<1>14. ASSUME NEW w \in Workers, RecordRewrite(w) PROVE RemoteInv'
  <2>1. remote' = remote /\ IsPrefix(remote, remote)
    BY <1>14, PrefixRefl DEF RecordRewrite, TypeOK, Shas
  <2>2. PICK l \in Layers : job[w] = l BY <1>14 DEF RecordRewrite, Step, JobInv, ErasePhases
  <2>3. req'[l].old = remote /\ \A m \in Layers : m # l => req'[m] = req[m]
    BY <1>14, <2>2 DEF RecordRewrite, TypeOK
  <2>4. ASSUME NEW m \in Layers, Open(m)', req'[m].recorded
        PROVE  IsPrefix(req'[m].old, remote') \/ IsPrefix(req'[m].new, remote')
    BY <2>1, <2>3, <2>4 DEF RemoteInv, Open
  <2>5. \A v \in Workers : pc'[v] \notin Reset \cup {"rewriting", "recording"}
    BY <1>14, OneAtWork DEF RecordRewrite, Step, TypeOK, ErasePhases, Reset
  <2>6. QED BY <2>4, <2>5 DEF RemoteInv
<1>15. ASSUME NEW w \in Workers, PushRewrite(w) PROVE RemoteInv'
  <2>1. PICK l \in Layers : job[w] = l BY <1>15 DEF PushRewrite, Step, JobInv, ErasePhases
  <2>2. req' = req /\ remote' = req[l].new /\ req[l].new \in Seq(Commits)
    BY <1>15, <2>1 DEF PushRewrite, TypeOK, Shas
  <2>3. IsPrefix(req[l].new, remote') BY <2>2, PrefixRefl
  <2>4. \A m \in Layers \ {l} : Open(m) => ~req[m].recorded
    BY <1>15, <2>1 DEF PushRewrite, Step, RewriteInv, ErasePhases
  <2>5. \A v \in Workers : pc'[v] \notin Reset \cup {"rewriting", "recording"}
    BY <1>15, OneAtWork DEF PushRewrite, Step, TypeOK, ErasePhases, Reset
  <2>6. QED BY <2>2, <2>3, <2>4, <2>5 DEF RemoteInv, Open
<1>16. ASSUME NEW w \in Workers, MarkPushed(w) PROVE RemoteInv'
  <2>1. UNCHANGED <<remote, job, sha>> BY <1>16 DEF MarkPushed, Step
  <2>2. \A m \in Layers : /\ req'[m].old = req[m].old /\ req'[m].new = req[m].new
                          /\ req'[m].recorded = req[m].recorded /\ Open(m)' = Open(m)
    BY <1>16, RewriteKept DEF Open
  <2>3. \A v \in Workers : pc'[v] = pc[v] \/ pc'[v] = "resetting"
    BY <1>16 DEF MarkPushed, Step, TypeOK
  <2>4. \A v \in Workers : pc[v] \in ErasePhases => job[v] \in Layers BY DEF JobInv
  <2>5. QED BY <2>1, <2>2, <2>3, <2>4 DEF RemoteInv, Reset, ErasePhases
<1>17. ASSUME NEW w \in Workers, ResetCheckout(w) PROVE RemoteInv'
  <2>1. IsPrefix(req[job[w]].new, remote) BY <1>17 DEF ResetCheckout, Clean
  <2>2. QED BY <1>17, <2>1 DEF ResetCheckout, Step, TypeOK, RemoteInv, Open
<1>18. ASSUME NEW w \in Workers, Purge(w) PROVE RemoteInv'
  <2>1. UNCHANGED <<remote, job, sha>> BY <1>18 DEF Purge, Step
  <2>2. \A m \in Layers : /\ req'[m].old = req[m].old /\ req'[m].new = req[m].new
                          /\ req'[m].recorded = req[m].recorded /\ Open(m)' = Open(m)
    BY <1>18, RewriteKept DEF Open
  <2>3. pc[w] = "purging" /\ \A v \in Workers : pc'[v] = pc[v] \/ (v = w /\ pc'[v] = "collecting")
    BY <1>18 DEF Purge, Step, TypeOK
  <2>4. \A v \in Workers : pc[v] \in ErasePhases => job[v] \in Layers BY DEF JobInv
  <2>5. QED BY <2>1, <2>2, <2>3, <2>4 DEF RemoteInv, Reset, ErasePhases
<1>19. ASSUME NEW w \in Workers, Collect(w) PROVE RemoteInv'
  BY <1>19 DEF Collect, Step, TypeOK, RemoteInv, Reset, Open
<1>20. ASSUME NEW w \in Workers, ClearGarbage(w) PROVE RemoteInv'
  BY <1>20 DEF ClearGarbage, Step, TypeOK, RemoteInv, Reset, Open
<1>21. ASSUME NEW w \in Workers, RebuildIndex(w) PROVE RemoteInv'
  BY <1>21 DEF RebuildIndex, Step, TypeOK, RemoteInv, Reset, Open
<1>22. ASSUME NEW w \in Workers, Succeed(w) PROVE RemoteInv'
  BY <1>22 DEF Succeed, Rest, TypeOK, RemoteInv, Reset, Open
<1>23. ASSUME NEW w \in Workers, Refused(w) PROVE RemoteInv'
  <2>1. pc[w] \in ErasePhases /\ FailAttempt(w) BY <1>23 DEF Refused, ErasePhases
  <2>2. PICK l \in Layers : job[w] = l BY <2>1 DEF JobInv
  <2>3. \A v \in Workers : pc'[v] \notin Reset \cup {"rewriting", "recording"}
    BY <2>1, <2>2, FailMeans, OneAtWork DEF ErasePhases, Reset
  <2>4. remote' = remote BY <2>1 DEF FailAttempt
  <2>5. ASSUME NEW m \in Layers, Open(m)', req'[m].recorded
        PROVE  IsPrefix(req'[m].old, remote') \/ IsPrefix(req'[m].new, remote')
    <3>1. CASE m = l BY <2>1, <2>2, <2>4, <2>5, <3>1, FailMeans DEF RemoteInv
    <3>2. CASE m # l
      <4>1. req'[m] = req[m] BY <2>1, <2>2, <3>2, FailMeans
      <4>2. QED BY <2>4, <2>5, <4>1 DEF RemoteInv, Open
    <3>3. QED BY <3>1, <3>2
  <2>6. QED BY <2>3, <2>5 DEF RemoteInv
<1>24. ASSUME NEW w \in Workers, StepFails(w) PROVE RemoteInv'
  <2>1. pc[w] \in ErasePhases /\ FailAttempt(w) BY <1>24 DEF StepFails, ErasePhases
  <2>2. PICK l \in Layers : job[w] = l BY <2>1 DEF JobInv
  <2>3. \A v \in Workers : pc'[v] \notin Reset \cup {"rewriting", "recording"}
    BY <2>1, <2>2, FailMeans, OneAtWork DEF ErasePhases, Reset
  <2>4. remote' = remote BY <2>1 DEF FailAttempt
  <2>5. ASSUME NEW m \in Layers, Open(m)', req'[m].recorded
        PROVE  IsPrefix(req'[m].old, remote') \/ IsPrefix(req'[m].new, remote')
    <3>1. CASE m = l BY <2>1, <2>2, <2>4, <2>5, <3>1, FailMeans DEF RemoteInv
    <3>2. CASE m # l
      <4>1. req'[m] = req[m] BY <2>1, <2>2, <3>2, FailMeans
      <4>2. QED BY <2>4, <2>5, <4>1 DEF RemoteInv, Open
    <3>3. QED BY <3>1, <3>2
  <2>6. QED BY <2>3, <2>5 DEF RemoteInv
<1>25. ASSUME NEW w \in Workers, Crash(w) PROVE RemoteInv'
  BY <1>25 DEF Crash, Rest, TypeOK, RemoteInv, Reset, Open
<1>26. ASSUME NEW c \in Outside, OutsidePush(c) PROVE RemoteInv'
  <2>1. IsPrefix(remote, remote') BY <1>26, AddedAtTheEnd
  <2>2. \A m \in Layers : req[m].old \in Shas /\ req[m].new \in Shas BY HistoryType
  <2>3. \A v \in Workers : sha[v] \in Shas BY HistoryType
  <2>4. \A s \in Shas : IsPrefix(s, remote) => IsPrefix(s, remote') BY <2>1, StaysOn
  <2>5. UNCHANGED <<req, pc, job, sha>> BY <1>26 DEF OutsidePush, workerVars
  <2>6. QED BY <2>2, <2>3, <2>4, <2>5 DEF RemoteInv, Open, TypeOK, JobInv, Reset, ErasePhases
<1>27. ASSUME NEW p \in inflight, Land(p) PROVE RemoteInv'
  <2>1. remote' = remote BY <1>27 DEF Land
  <2>2. QED BY <1>27, <2>1 DEF Land, workerVars, RemoteInv, Open
<1>28. QED
  BY <1>1, <1>2, <1>3, <1>4, <1>5, <1>6, <1>7, <1>8, <1>9, <1>10, <1>11, <1>12, <1>13, <1>14,
       <1>15, <1>16, <1>17, <1>18, <1>19, <1>20, <1>21, <1>22, <1>23, <1>24, <1>25, <1>26, <1>27
       DEF Next, CaptureStep, EraseStep, Accept, Refuse, Enqueue, Reclaim, captureVars, workerVars

-----------------------------------------------------------------------------
(* Stored commits.                                                         *)

\* The commit map sends what the old history had to what the new one has.
LEMMA RemapFollows ==
    ASSUME NEW old \in Shas, NEW l \in Layers, NEW s \in Shas, IsPrefix(s, old)
    PROVE  IsPrefix(Remap(old, l, s), Filter(old, l))
<1>1. Filter(old, l) \in Seq(Commits) /\ IsPrefix(NoSha, Filter(old, l))
  BY FilterKeeps, EmptyPrefix DEF Shas, NoSha
<1>2. IsPrefix(Filter(s, l), Filter(old, l)) BY FilterMonotonic
<1>3. QED BY <1>1, <1>2 DEF Remap

\* A commit stays resolved while the branch grows and rewrites stay recorded.
LEMMA ResolvesFrame ==
    ASSUME TypeOK, TypeOK', IsPrefix(remote, remote'), NEW s \in Shas, Resolves(s),
           \A l \in Layers : (Open(l) /\ req[l].recorded) =>
               Open(l)' /\ req'[l].recorded /\ req'[l].old = req[l].old
    PROVE  Resolves(s)'
<1>1. CASE IsPrefix(s, remote) BY <1>1, StaysOn DEF Resolves
<1>2. CASE \E l \in Layers : Open(l) /\ req[l].recorded /\ IsPrefix(Remap(req[l].old, l, s), remote)
  <2>1. PICK l \in Layers : Open(l) /\ req[l].recorded /\ IsPrefix(Remap(req[l].old, l, s), remote)
    BY <1>2
  <2>2. Remap(req[l].old, l, s) \in Shas BY HistoryType, RemapType
  <2>3. IsPrefix(Remap(req[l].old, l, s), remote') BY <2>1, <2>2, StaysOn
  <2>4. Open(l)' /\ req'[l].recorded /\ req'[l].old = req[l].old BY <2>1
  <2>5. IsPrefix(Remap(req'[l].old, l, s), remote') BY <2>3, <2>4
  <2>6. QED BY <2>4, <2>5 DEF Resolves
<1>3. QED BY <1>1, <1>2 DEF Resolves

\* Where no rewrite reached the branch, what resolves is on it.
LEMMA ResolvesDirectly ==
    ASSUME TypeOK, NEW l \in Layers, NEW s \in Shas, Resolves(s),
           \A m \in Layers \ {l} : Open(m) => ~req[m].recorded,
           (Open(l) /\ req[l].recorded) => IsPrefix(req[l].old, remote)
    PROVE  IsPrefix(s, remote)
<1> SUFFICES ASSUME ~IsPrefix(s, remote) PROVE FALSE OBVIOUS
<1>1. PICK m \in Layers : Open(m) /\ req[m].recorded /\ IsPrefix(Remap(req[m].old, m, s), remote)
  BY DEF Resolves
<1>2. m = l BY <1>1
<1>3. IsPrefix(req[l].old, remote) BY <1>1, <1>2
<1>4. ~IsPrefix(s, req[l].old)
  <2>1. remote \in Seq(Commits) /\ req[l].old \in Seq(Commits) /\ s \in Seq(Commits)
    BY HistoryType DEF Shas
  <2>2. QED BY <1>3, <2>1, PrefixTrans
<1>5. Remap(req[l].old, l, s) = s BY <1>4 DEF Remap
<1>6. QED BY <1>1, <1>2, <1>5

\* Once the rewrite is the branch, its map leads what resolves onto the branch.
LEMMA RemapResolves ==
    ASSUME TypeOK, NEW l \in Layers, NEW s \in Shas, Resolves(s),
           \A m \in Layers \ {l} : Open(m) => ~req[m].recorded,
           req[l].new = Filter(req[l].old, l), IsPrefix(req[l].new, remote)
    PROVE  IsPrefix(Remap(req[l].old, l, s), remote)
<1>1. CASE IsPrefix(s, remote) /\ IsPrefix(s, req[l].old)
  <2>1. req[l].old \in Shas /\ remote \in Seq(Commits) /\ req[l].new \in Seq(Commits)
    BY HistoryType DEF Shas
  <2>2. IsPrefix(Remap(req[l].old, l, s), req[l].new) BY <1>1, <2>1, RemapFollows
  <2>3. Remap(req[l].old, l, s) \in Seq(Commits) BY <2>1, RemapType DEF Shas
  <2>4. QED BY <2>1, <2>2, <2>3, PrefixTrans
<1>2. CASE IsPrefix(s, remote) /\ ~IsPrefix(s, req[l].old) BY <1>2 DEF Remap
<1>3. CASE ~IsPrefix(s, remote)
  <2>1. PICK m \in Layers : Open(m) /\ req[m].recorded /\ IsPrefix(Remap(req[m].old, m, s), remote)
    BY <1>3 DEF Resolves
  <2>2. QED BY <2>1
<1>4. QED BY <1>1, <1>2, <1>3

LEMMA FailResolves ==
    ASSUME TypeOK, TypeOK', JobInv, RewriteInv, RemoteInv, NEW w \in Workers, pc[w] \in ErasePhases,
           FailAttempt(w), NEW l \in Layers, job[w] = l, NEW s \in Shas, Resolves(s)
    PROVE  Resolves(s)'
<1>1. remote' = remote /\ IsPrefix(remote, remote)
  BY PrefixRefl DEF FailAttempt, TypeOK, Shas
<1>2. CASE Open(l)' /\ req'[l].old = req[l].old /\ req'[l].recorded = req[l].recorded
  <2>1. \A m \in Layers : (Open(m) /\ req[m].recorded) =>
            Open(m)' /\ req'[m].recorded /\ req'[m].old = req[m].old
    BY <1>2, FailMeans DEF Open
  <2>2. QED BY <1>1, <2>1, ResolvesFrame
<1>3. CASE ~MayBePushed(l)
  <2>1. \A m \in Layers \ {l} : Open(m) => ~req[m].recorded BY DEF RewriteInv
  <2>2. (Open(l) /\ req[l].recorded) => IsPrefix(req[l].old, remote)
    BY <1>3 DEF MayBePushed, Reached, RemoteInv
  <2>3. IsPrefix(s, remote) BY <2>1, <2>2, ResolvesDirectly
  <2>4. QED BY <1>1, <2>3 DEF Resolves
<1>4. QED BY <1>2, <1>3, FailMeans

LEMMA ResolvesOn ==
    ASSUME ErasureAssumption, TypeOK, TypeOK', LockInv, JobInv, RewriteInv, RemoteInv, ~late',
           \A w \in Workers : ~Succeed(w), NEW s \in Shas, Resolves(s), Next
    PROVE  Resolves(s)'
<1>1. IsPrefix(remote, remote) BY PrefixRefl DEF TypeOK, Shas
<1>2. CASE UNCHANGED <<remote, req>> BY <1>2, <1>1, ResolvesFrame DEF Open
<1>3. ASSUME NEW l \in Layers, Request(l) PROVE Resolves(s)'
  <2>1. remote' = remote BY <1>3 DEF Request
  <2>2. ~Open(l) /\ \A m \in Layers : m # l => req'[m] = req[m] BY <1>3 DEF Request, TypeOK
  <2>3. QED BY <1>1, <2>1, <2>2, ResolvesFrame DEF Open
<1>4. ASSUME NEW l \in Layers, Backoff(l) PROVE Resolves(s)'
  <2>1. remote' = remote BY <1>4 DEF Backoff
  <2>2. \A m \in Layers : /\ req'[m].old = req[m].old /\ req'[m].recorded = req[m].recorded
                          /\ req'[m].status = req[m].status
    BY <1>4 DEF Backoff, TypeOK
  <2>3. QED BY <1>1, <2>1, <2>2, ResolvesFrame DEF Open
<1>5. ASSUME NEW w \in Workers, Publish(w) PROVE Resolves(s)'
  <2>1. req' = req BY <1>5 DEF Publish
  <2>2. QED BY <1>5, <2>1, AddedAtTheEnd, ResolvesFrame DEF Open
<1>6. ASSUME NEW w \in Workers, ClaimErasure(w) PROVE Resolves(s)'
  <2>1. remote' = remote BY <1>6, ClaimMeans
  <2>2. \A m \in Layers : Open(m) /\ req[m].recorded => Open(m)' BY <1>6, ClaimMeans DEF
       Abandoned
  <2>3. QED BY <1>6, <1>1, <2>1, <2>2, ClaimMeans, ResolvesFrame
<1>7. ASSUME NEW w \in Workers, CheckReached(w) \/ MarkPushed(w) \/ Purge(w) \/ ClearGarbage(w)
      PROVE  Resolves(s)'
  <2>1. remote' = remote BY <1>7 DEF CheckReached, MarkPushed, Purge, ClearGarbage
  <2>2. QED BY <1>1, <1>7, <2>1, RewriteKept, ResolvesFrame DEF Open
<1>8. ASSUME NEW w \in Workers, RecordRewrite(w) PROVE Resolves(s)'
  <2>1. remote' = remote BY <1>8 DEF RecordRewrite
  <2>2. PICK l \in Layers : job[w] = l BY <1>8 DEF RecordRewrite, Step, JobInv, ErasePhases
  <2>3. pc[w] = "rewriting" /\ pc[w] \in ErasePhases BY <1>8 DEF RecordRewrite, Step,
       ErasePhases
  <2>4. \A m \in Layers \ {l} : Open(m) => ~req[m].recorded BY <2>2, <2>3 DEF RewriteInv
  <2>5. (Open(l) /\ req[l].recorded) => IsPrefix(req[l].old, remote) BY <2>2, <2>3 DEF RemoteInv
  <2>6. IsPrefix(s, remote) BY <2>4, <2>5, ResolvesDirectly
  <2>7. QED BY <2>1, <2>6 DEF Resolves
<1>9. ASSUME NEW w \in Workers, PushRewrite(w) PROVE Resolves(s)'
  <2>1. PICK l \in Layers : job[w] = l BY <1>9 DEF PushRewrite, Step, JobInv, ErasePhases
  <2>2. remote = req[l].old /\ remote' = req[l].new /\ req' = req BY <1>9, <2>1 DEF PushRewrite
  <2>3. pc[w] = "pushing" /\ pc[w] \in ErasePhases BY <1>9 DEF PushRewrite, Step, ErasePhases
  <2>4. Open(l) /\ req[l].recorded /\ req[l].new = Filter(req[l].old, l)
    BY <2>1, <2>3 DEF JobInv, RewriteInv, Recorded, Open
  <2>5. \A m \in Layers \ {l} : Open(m) => ~req[m].recorded BY <2>1, <2>3 DEF RewriteInv
  <2>6. IsPrefix(s, req[l].old) BY <1>1, <2>2, <2>5, ResolvesDirectly
  <2>7. IsPrefix(Remap(req[l].old, l, s), req[l].new) BY <2>4, <2>6, HistoryType, RemapFollows
  <2>8. Open(l)' /\ req'[l].recorded BY <2>2, <2>4 DEF Open
  <2>9. QED BY <2>2, <2>7, <2>8 DEF Resolves
<1>10. ASSUME NEW w \in Workers, Refused(w) PROVE Resolves(s)'
  <2>1. pc[w] \in ErasePhases /\ FailAttempt(w) BY <1>10 DEF Refused, ErasePhases
  <2>2. PICK l \in Layers : job[w] = l BY <2>1 DEF JobInv
  <2>3. QED BY <2>1, <2>2, FailResolves
<1>11. ASSUME NEW w \in Workers, StepFails(w) PROVE Resolves(s)'
  <2>1. pc[w] \in ErasePhases /\ FailAttempt(w) BY <1>11 DEF StepFails, ErasePhases
  <2>2. PICK l \in Layers : job[w] = l BY <2>1 DEF JobInv
  <2>3. QED BY <2>1, <2>2, FailResolves
<1>12. ASSUME NEW c \in Outside, OutsidePush(c) PROVE Resolves(s)'
  <2>1. req' = req BY <1>12 DEF OutsidePush
  <2>2. QED BY <1>12, <2>1, AddedAtTheEnd, ResolvesFrame DEF Open
<1>13. ASSUME NEW p \in inflight, Land(p) PROVE Resolves(s)'
  <2>1. remote' = remote /\ req' = req BY <1>13 DEF Land
  <2>2. QED BY <1>1, <2>1, ResolvesFrame DEF Open
<1>14. QED
  <2>1. BranchFrame /\ RequestFrame BY Frames
  <2>2. QED
    BY <1>2, <1>3, <1>4, <1>5, <1>6, <1>7, <1>8, <1>9, <1>10, <1>11, <1>12, <1>13, <2>1
       DEF BranchFrame, RequestFrame

-----------------------------------------------------------------------------
(* Where a writer may come from, and the branch go.                        *)

\* A writer stays where it is, goes on with its erasure, or is not erasing.
LEMMA WriterMoves ==
    ASSUME TypeOK, Next, NEW v \in Workers
    PROVE  \/ pc'[v] = pc[v] /\ job'[v] = job[v]
           \/ pc'[v] \in {"idle", "claimed", "filing", "recording", "reporting", "checking"}
           \/ EraseStep(v)
<1>1. CASE CaptureStep(v) \/ FailCapture(v) \/ StepFails(v) \/ Crash(v)
           \/ \E c \in Captures : Claim(v, c)
  BY <1>1 DEF CaptureStep, Claim, Recover, File, Publish, PublishRefused, RecordChange, Finish,
       FailCapture, StepFails, FailAttempt, Crash, Rest, TypeOK
<1>2. CASE ClaimErasure(v)
  <2>1. UNCHANGED <<pc, job>> \/ pc' = [pc EXCEPT ![v] = "checking"] BY <1>2, ClaimMeans
  <2>2. QED BY <2>1 DEF TypeOK
<1>3. QED BY <1>1, <1>2, OthersStand DEF WriterStep

LEMMA PurgedMoves ==
    ASSUME TypeOK, Next, NEW v \in Workers, pc'[v] \in Purged
    PROVE  (pc[v] \in Purged /\ job'[v] = job[v]) \/ Purge(v)
<1>1. CASE pc'[v] = pc[v] /\ job'[v] = job[v] BY <1>1
<1>2. CASE EraseStep(v)
  BY <1>2 DEF EraseStep, CheckReached, RecordRewrite, PushRewrite, MarkPushed, ResetCheckout,
       Collect, ClearGarbage, RebuildIndex, Succeed, Refused, FailAttempt, Step, Rest, TypeOK,
       Purged
<1>3. QED BY <1>1, <1>2, WriterMoves DEF Purged

\* Unless a push lands late, the branch grows or a rewrite takes its place.
LEMMA BranchMoves ==
    ASSUME ErasureAssumption, TypeOK, JobInv, Next, ~late'
    PROVE  IsPrefix(remote, remote') \/ \E w \in Workers : PushRewrite(w)
<1>1. IsPrefix(remote, remote) BY PrefixRefl DEF TypeOK, Shas
<1>2. BranchFrame BY Frames
<1>3. ASSUME NEW p \in inflight, Land(p) PROVE remote' = remote BY <1>3 DEF Land
<1>4. QED BY <1>1, <1>2, <1>3, AddedAtTheEnd DEF BranchFrame

-----------------------------------------------------------------------------
(* The records of the change history, and of the rows.                     *)

\* What a purge has led onto the branch stays there until its writer is done.
LEMMA PurgedStaysOn ==
    ASSUME ErasureAssumption, TypeOK, TypeOK', LockInv, JobInv, ~late', Next, NEW v \in Workers,
           pc[v] \in Purged, pc'[v] \in Purged, NEW s \in Shas, IsPrefix(s, remote)
    PROVE  IsPrefix(s, remote')
<1>1. ~ \E w \in Workers : PushRewrite(w)
  <2> SUFFICES ASSUME NEW w \in Workers, PushRewrite(w) PROVE FALSE OBVIOUS
  <2>1. pc[w] = "pushing" BY DEF PushRewrite, Step
  <2>2. w = v BY <2>1, OneAtWork DEF Purged, ErasePhases
  <2>3. QED BY <2>1, <2>2 DEF Purged
<1>2. QED BY <1>1, BranchMoves, StaysOn

\* The stored records that a purge leads onto the branch.
LEMMA PurgeResolves ==
    ASSUME ErasureAssumption, TypeOK, JobInv, RewriteInv, RemoteInv, NEW w \in Workers, Purge(w),
           NEW s \in Shas, Resolves(s)
    PROVE  IsPrefix(Remap(req[job[w]].old, job[w], s), remote)
<1>1. PICK l \in Layers : job[w] = l BY DEF Purge, Step, JobInv, ErasePhases
<1>2. pc[w] = "purging" BY DEF Purge, Step
<1>3. IsPrefix(req[l].new, remote) BY <1>1, <1>2 DEF RemoteInv, Reset
<1>4. req[l].new = Filter(req[l].old, l) BY <1>1, <1>2 DEF RewriteInv, Recorded
<1>5. \A m \in Layers \ {l} : Open(m) => ~req[m].recorded
  BY <1>1, <1>2 DEF RewriteInv, ErasePhases
<1>6. QED BY <1>1, <1>3, <1>4, <1>5, RemapResolves

LEMMA PurgedLedger ==
    ASSUME ErasureAssumption, TypeOK, JobInv, RewriteInv, RemoteInv, LedgerInv,
           NEW w \in Workers, Purge(w), NEW c \in Captures
    PROVE  IsPrefix(ledger'[c].sha, remote')
<1> DEFINE l == job[w]
           moved == Remap(req[l].old, l, ledger[c].sha)
<1>1. ledger[c].sha \in Shas /\ Resolves(ledger[c].sha) BY HistoryType DEF LedgerInv
<1>2. IsPrefix(moved, remote) BY <1>1, PurgeResolves
<1>3. remote \in Seq(Commits) /\ IsPrefix(NoSha, remote) BY EmptyPrefix DEF TypeOK, Shas, NoSha
<1>4. remote' = remote /\ ledger'[c] = RewrittenChange(l, ledger[c]) BY DEF Purge
<1>5. ledger'[c].sha \in {NoSha, moved} BY <1>4 DEF RewrittenChange, NoChange
<1>6. QED BY <1>2, <1>3, <1>4, <1>5

LEMMA StepLedger ==
    ASSUME ErasureAssumption, TypeOK, TypeOK', LockInv, JobInv, RewriteInv, RemoteInv, LedgerInv,
           ~late', Next
    PROVE  LedgerInv'
<1>1. ASSUME NEW c \in Captures PROVE Resolves(ledger[c].sha)'
  <2>1. ledger[c].sha \in Shas /\ Resolves(ledger[c].sha) BY HistoryType DEF LedgerInv
  <2>2. CASE ledger' = ledger /\ \A w \in Workers : ~Succeed(w)
    <3>1. PICK s \in Shas : s = ledger[c].sha BY <2>1
    <3>2. Resolves(s)' BY <2>1, <2>2, <3>1, ResolvesOn
    <3>3. ledger'[c].sha = s BY <2>2, <3>1
    <3>4. QED BY <3>2, <3>3 DEF Resolves
  <2>3. ASSUME NEW w \in Workers, Succeed(w) PROVE Resolves(ledger[c].sha)'
    <3>1. pc[w] \in Purged /\ remote' = remote /\ ledger' = ledger
      BY <2>3 DEF Succeed, Purged, captureVars
    <3>2. IsPrefix(ledger'[c].sha, remote') BY <3>1 DEF LedgerInv
    <3>3. QED BY <3>2 DEF Resolves
  <2>4. ASSUME NEW w \in Workers, RecordChange(w) PROVE Resolves(ledger[c].sha)'
    <3>1. job[w] \in Captures BY <2>4 DEF RecordChange, JobInv
    <3>2. CASE job[w] = c
      <4>1. ledger'[c].sha = sha[w] /\ remote' = remote BY <2>4, <3>1, <3>2 DEF RecordChange,
           TypeOK
      <4>2. IsPrefix(sha[w], remote) BY <2>4 DEF RecordChange, RemoteInv
      <4>3. QED BY <4>1, <4>2 DEF Resolves
    <3>3. CASE job[w] # c
      <4>1. ledger'[c] = ledger[c] /\ remote' = remote /\ req' = req
        BY <2>4, <3>1, <3>3 DEF RecordChange, TypeOK
      <4>2. QED BY <2>1, <4>1 DEF Resolves, Open
    <3>4. QED BY <3>2, <3>3
  <2>5. ASSUME NEW w \in Workers, Purge(w) PROVE Resolves(ledger[c].sha)'
    BY <2>5, PurgedLedger DEF Resolves
  <2>6. QED BY <2>2, <2>3, <2>4, <2>5, Frames DEF LedgerFrame
<1>2. ASSUME NEW v \in Workers, pc'[v] \in Purged, NEW c \in Captures
      PROVE  IsPrefix(ledger'[c].sha, remote')
  <2>1. CASE Purge(v) BY <2>1, PurgedLedger
  <2>2. CASE ~Purge(v)
    <3>1. pc[v] \in Purged BY <1>2, <2>2, PurgedMoves
    <3>2. \A w \in Workers : ~RecordChange(w) /\ ~Purge(w)
      <4> SUFFICES ASSUME NEW w \in Workers, RecordChange(w) \/ Purge(w) PROVE FALSE OBVIOUS
      <4>1. pc[w] \in {"recording", "purging"} BY DEF RecordChange, Purge, Step
      <4>2. w = v BY <3>1, <4>1, OneAtWork DEF Purged, ErasePhases
      <4>3. QED BY <3>1, <4>1, <4>2 DEF Purged
    <3>3. ledger' = ledger BY <3>2, Frames DEF LedgerFrame
    <3>4. IsPrefix(ledger[c].sha, remote) /\ ledger[c].sha \in Shas
      BY <3>1, HistoryType DEF LedgerInv
    <3>5. QED BY <1>2, <3>1, <3>3, <3>4, PurgedStaysOn
  <2>3. QED BY <2>1, <2>2
<1>3. QED BY <1>1, <1>2 DEF LedgerInv

\* data-erasure.md:14, `One writer`: the purge and the report are steps of one process.
OneWriter == \A v, w \in Workers : v = w

\* Only a report and a purge change what landed rows say.
LEMMA RowMoves ==
    ASSUME TypeOK, Next
    PROVE  \/ rowSha' = rowSha /\ \A c \in Captures : row'[c] = "landed" => row[c] = "landed"
           \/ \E w \in Workers : Finish(w) \/ Purge(w)
<1>1. CASE row' = row /\ rowSha' = rowSha BY <1>1
<1>2. CASE \E c \in Captures : Enqueue(c) \/ Reclaim(c) BY <1>2 DEF Enqueue, Reclaim, TypeOK
<1>3. CASE \E w \in Workers : FailCapture(w) \/ PublishRefused(w) \/ \E c \in Captures : Claim(w, c)
  BY <1>3 DEF FailCapture, PublishRefused, Claim, TypeOK
<1>4. RowFrame BY Frames
<1>5. QED BY <1>1, <1>2, <1>3, <1>4 DEF RowFrame

LEMMA ReportingMoves ==
    ASSUME TypeOK, Next, NEW v \in Workers, pc'[v] = "reporting"
    PROVE  RecordChange(v) \/ (pc[v] = "reporting" /\ sha'[v] = sha[v])
<1>1. CASE \/ CaptureStep(v) \/ FailCapture(v) \/ StepFails(v) \/ Crash(v)
           \/ \E c \in Captures : Claim(v, c)
  BY <1>1 DEF CaptureStep, Claim, Recover, File, Publish, PublishRefused, Finish,
       FailCapture, StepFails, FailAttempt, Crash, Rest, TypeOK
<1>2. CASE EraseStep(v)
  BY <1>2 DEF EraseStep, CheckReached, RecordRewrite, PushRewrite, MarkPushed, ResetCheckout, Purge,
       Collect, ClearGarbage, RebuildIndex, Succeed, Refused, FailAttempt, Step, Rest, TypeOK
<1>3. CASE ClaimErasure(v)
  <2>1. sha' = sha /\ (pc' = pc \/ pc' = [pc EXCEPT ![v] = "checking"])
    BY <1>3, ClaimMeans
  <2>2. QED BY <2>1 DEF TypeOK
<1>4. QED BY <1>1, <1>2, <1>3, OthersStand DEF WriterStep

LEMMA PurgedRows ==
    ASSUME ErasureAssumption, TypeOK, JobInv, RewriteInv, RemoteInv, LandedInv,
           NEW w \in Workers, Purge(w), NEW c \in Captures, row'[c] = "landed"
    PROVE  IsPrefix(rowSha'[c], remote')
<1> DEFINE l == job[w]
<1>1. row'[c] = PurgedRow(l, c) /\ rowSha'[c] = PurgedSha(l, c) /\ remote' = remote BY DEF Purge
<1>2. row[c] = "landed" /\ LayerOf[c] # l BY <1>1 DEF PurgedRow
<1>3. rowSha[c] \in Shas /\ Resolves(rowSha[c]) BY <1>2, HistoryType DEF LandedInv
<1>4. IsPrefix(Remap(req[l].old, l, rowSha[c]), remote) BY <1>3, PurgeResolves
<1>5. QED BY <1>1, <1>2, <1>4 DEF PurgedSha

LEMMA StepLanded ==
    ASSUME ErasureAssumption, OneWriter, TypeOK, TypeOK', LockInv, JobInv, RewriteInv, RemoteInv,
           LandedInv, ~late', Next
    PROVE  LandedInv'
<1>1. ASSUME NEW c \in Captures, row'[c] = "landed" PROVE Resolves(rowSha[c])'
  <2>1. CASE /\ rowSha' = rowSha /\ row[c] = "landed" /\ \A w \in Workers : ~Succeed(w)
    <3>1. PICK s \in Shas : s = rowSha[c] BY HistoryType
    <3>2. Resolves(s) BY <2>1, <3>1 DEF LandedInv
    <3>3. Resolves(s)' BY <2>1, <3>2, ResolvesOn
    <3>4. rowSha'[c] = s BY <2>1, <3>1
    <3>5. QED BY <3>3, <3>4 DEF Resolves
  <2>2. ASSUME NEW w \in Workers, Succeed(w) PROVE Resolves(rowSha[c])'
    <3>1. pc[w] \in Purged /\ remote' = remote /\ rowSha' = rowSha /\ row' = row
      BY <2>2 DEF Succeed, Purged, captureVars
    <3>2. IsPrefix(rowSha'[c], remote') BY <1>1, <3>1 DEF LandedInv
    <3>3. QED BY <3>2 DEF Resolves
  <2>3. ASSUME NEW w \in Workers, Finish(w) PROVE Resolves(rowSha[c])'
    <3>1. remote' = remote /\ req' = req BY <2>3 DEF Finish
    <3>2. \/ row[c] = "landed" /\ rowSha'[c] = rowSha[c]
          \/ rowSha'[c] = sha[w]
      BY <1>1, <2>3 DEF Finish, TypeOK
    <3>3. Resolves(sha[w]) BY <2>3 DEF Finish, LandedInv
    <3>4. Resolves(rowSha[c]) \/ rowSha'[c] = sha[w] BY <3>2 DEF LandedInv
    <3>5. QED BY <3>1, <3>2, <3>3, <3>4 DEF Resolves, Open
  <2>4. ASSUME NEW w \in Workers, Purge(w) PROVE Resolves(rowSha[c])'
    BY <1>1, <2>4, PurgedRows DEF Resolves
  <2>5. QED BY <1>1, <2>1, <2>2, <2>3, <2>4, RowMoves
<1>2. ASSUME NEW v \in Workers, pc'[v] = "reporting" PROVE Resolves(sha[v])'
  <2>1. CASE RecordChange(v)
    <3>1. sha' = sha /\ remote' = remote BY <2>1 DEF RecordChange
    <3>2. IsPrefix(sha[v], remote) BY <2>1 DEF RecordChange, RemoteInv
    <3>3. QED BY <3>1, <3>2 DEF Resolves
  <2>2. CASE pc[v] = "reporting" /\ sha'[v] = sha[v]
    <3>1. PICK s \in Shas : s = sha[v] BY HistoryType
    <3>2. Resolves(s) BY <2>2, <3>1 DEF LandedInv
    <3>3. \A w \in Workers : ~Succeed(w) BY <2>2 DEF OneWriter, Succeed
    <3>4. Resolves(s)' BY <3>2, <3>3, ResolvesOn
    <3>5. sha'[v] = s BY <2>2, <3>1
    <3>6. QED BY <3>4, <3>5 DEF Resolves
  <2>3. QED BY <1>2, <2>1, <2>2, ReportingMoves
<1>3. ASSUME NEW v \in Workers, pc'[v] \in Purged, NEW c \in Captures, row'[c] = "landed"
      PROVE  IsPrefix(rowSha'[c], remote')
  <2>1. CASE Purge(v) BY <1>3, <2>1, PurgedRows
  <2>2. CASE ~Purge(v)
    <3>1. pc[v] \in Purged BY <1>3, <2>2, PurgedMoves
    <3>2. \A w \in Workers : ~Finish(w) /\ ~Purge(w)
      BY <2>2, <3>1 DEF OneWriter, Finish, Purged
    <3>3. rowSha' = rowSha /\ row[c] = "landed" BY <1>3, <3>2, RowMoves
    <3>4. IsPrefix(rowSha[c], remote) /\ rowSha[c] \in Shas
      BY <3>1, <3>3, HistoryType DEF LandedInv
    <3>5. QED BY <1>3, <3>1, <3>3, <3>4, PurgedStaysOn
  <2>3. QED BY <2>1, <2>2
<1>4. QED BY <1>1, <1>2, <1>3 DEF LandedInv

-----------------------------------------------------------------------------
(* What a successful request has left.                                     *)

LEMMA ResetMoves ==
    ASSUME TypeOK, Next, NEW v \in Workers, pc'[v] \in Reset
    PROVE  (pc[v] \in Reset /\ job'[v] = job[v]) \/ ResetCheckout(v)
<1>1. CASE pc'[v] = pc[v] /\ job'[v] = job[v] BY <1>1
<1>2. CASE EraseStep(v)
  BY <1>2 DEF EraseStep, CheckReached, RecordRewrite, PushRewrite, MarkPushed, Purge, Collect,
       ClearGarbage, RebuildIndex, Succeed, Refused, FailAttempt, Step, Rest, TypeOK, Reset
<1>3. QED BY <1>1, <1>2, WriterMoves DEF Reset

LEMMA ClearedMoves ==
    ASSUME TypeOK, Next, NEW v \in Workers, pc'[v] \in Cleared
    PROVE  (pc[v] \in Cleared /\ job'[v] = job[v]) \/ Collect(v)
<1>1. CASE pc'[v] = pc[v] /\ job'[v] = job[v] BY <1>1
<1>2. CASE EraseStep(v)
  BY <1>2 DEF EraseStep, CheckReached, RecordRewrite, PushRewrite, MarkPushed, ResetCheckout,
       Purge, ClearGarbage, RebuildIndex, Succeed, Refused, FailAttempt, Step, Rest, TypeOK,
       Cleared
<1>3. QED BY <1>1, <1>2, WriterMoves DEF Cleared

LEMMA FinishingMoves ==
    ASSUME TypeOK, Next, NEW v \in Workers, pc'[v] = "finishing"
    PROVE  (pc[v] = "finishing" /\ job'[v] = job[v]) \/ RebuildIndex(v)
<1>1. CASE pc'[v] = pc[v] /\ job'[v] = job[v] BY <1>1
<1>2. CASE EraseStep(v)
  BY <1>2 DEF EraseStep, CheckReached, RecordRewrite, PushRewrite, MarkPushed, ResetCheckout,
       Purge, Collect, ClearGarbage, Succeed, Refused, FailAttempt, Step, Rest, TypeOK
<1>3. QED BY <1>1, <1>2, WriterMoves

\* A row that is not being worked on is claimed before anything else happens to it.
LEMMA RestingRow ==
    ASSUME TypeOK, Next, NEW c \in Captures, row[c] \in {"absent", "queued", "erased"}
    PROVE  \/ row'[c] \in {"absent", "queued", "erased"}
           \/ \E w \in Workers : Claim(w, c) \/ PublishRefused(w) \/ Purge(w)
<1>1. CASE row' = row BY <1>1
<1>2. CASE \E d \in Captures : Enqueue(d) \/ Reclaim(d) BY <1>2 DEF Enqueue, Reclaim, TypeOK
<1>3. CASE \E w \in Workers : Finish(w) \/ FailCapture(w) \/ \E d \in Captures : Claim(w, d)
  <2>1. CASE \E w \in Workers : Finish(w) BY <2>1 DEF Finish, TypeOK
  <2>2. CASE \E w \in Workers : FailCapture(w) BY <2>2 DEF FailCapture, TypeOK
  <2>3. CASE \E w \in Workers, d \in Captures : Claim(w, d) BY <2>3 DEF Claim, TypeOK
  <2>4. QED BY <1>3, <2>1, <2>2, <2>3
<1>4. RowFrame BY Frames
<1>5. QED BY <1>1, <1>2, <1>3, <1>4 DEF RowFrame

\* What others commit is nobody's capture.
LEMMA GoneAfterPush ==
    ASSUME ErasureAssumption, TypeOK, NEW c \in Outside, OutsidePush(c), NEW l \in Layers,
           Gone(remote, l)
    PROVE  Gone(remote', l)
<1>1. remote \in Seq(Commits) BY DEF TypeOK, Shas
<1>2. [cap |-> c, folders |-> Touches[c]] \in Commits BY DEF ErasureAssumption, Commits
<1>3. remote' = Append(remote, [cap |-> c, folders |-> Touches[c]]) BY DEF OutsidePush
<1>4. /\ DOMAIN remote = 1..Len(remote) /\ DOMAIN remote' = 1..(Len(remote) + 1)
      /\ Len(remote) \in Nat
      /\ \A i \in 1..Len(remote) : remote'[i] = remote[i]
      /\ remote'[Len(remote) + 1] = [cap |-> c, folders |-> Touches[c]]
  <2>1. /\ Len(remote') = Len(remote) + 1 /\ remote' \in Seq(Commits) /\ Len(remote) \in Nat
        /\ \A i \in 1..Len(remote) : remote'[i] = remote[i]
        /\ remote'[Len(remote) + 1] = [cap |-> c, folders |-> Touches[c]]
    BY <1>1, <1>2, <1>3, AppendProperties, LenProperties
  <2>2. QED BY <1>1, <2>1, LenProperties
<1>5. c \notin Captures BY DEF ErasureAssumption
<1>6. ASSUME NEW i \in DOMAIN remote', remote'[i].cap \in Captures
      PROVE  l \notin remote'[i].folders
  <2>1. i \in 1..Len(remote) BY <1>4, <1>5, <1>6
  <2>2. QED BY <1>4, <1>6, <2>1 DEF Gone
<1>7. QED BY <1>6 DEF Gone

LEMMA GoneBefore ==
    ASSUME NEW h \in Shas, NEW n \in 0..Len(h), NEW l \in Layers, Gone(h, l)
    PROVE  Gone(SubSeq(h, 1, n), l)
<1>1. h \in Seq(Commits) BY DEF Shas
<1>2. /\ SubSeq(h, 1, n) \in Seq(Commits) /\ Len(SubSeq(h, 1, n)) = n
      /\ \A i \in 1..n : SubSeq(h, 1, n)[i] = h[i]
  BY <1>1, SubSeqIsPrefix
<1>3. DOMAIN SubSeq(h, 1, n) = 1..n /\ DOMAIN h = 1..Len(h) /\ Len(h) \in Nat
  BY <1>1, <1>2, LenProperties
<1>4. QED BY <1>2, <1>3 DEF Gone

LEMMA StepGone ==
    ASSUME ErasureAssumption, TypeOK, TypeOK', LockInv, JobInv, GoneInv, ~late', Next
    PROVE  GoneInv'
<1>1. ASSUME NEW v \in Workers, pc'[v] \in Reset PROVE Gone(remote', job'[v])
  <2>1. CASE ResetCheckout(v)
    BY <2>1 DEF ResetCheckout, Step, Clean, Holds, Gone
  <2>2. CASE pc[v] \in Reset /\ job'[v] = job[v]
    <3>1. PICK l \in Layers : job[v] = l BY <2>2 DEF JobInv, Reset, ErasePhases
    <3>2. Gone(remote, l) BY <2>2, <3>1 DEF GoneInv
    <3>3. \A w \in Workers : ~Publish(w) /\ ~PushRewrite(w)
      <4> SUFFICES ASSUME NEW w \in Workers, Publish(w) \/ PushRewrite(w) PROVE FALSE OBVIOUS
      <4>1. pc[w] \in {"filing", "pushing"} BY DEF Publish, PushRewrite, Step
      <4>2. w = v BY <2>2, <4>1, OneAtWork DEF Reset, ErasePhases
      <4>3. QED BY <2>2, <4>1, <4>2 DEF Reset
    <3>4. remote' = remote \/ \E c \in Outside : OutsidePush(c)
      <4>1. BranchFrame BY Frames
      <4>2. ASSUME NEW p \in inflight, Land(p) PROVE remote' = remote BY <4>2 DEF Land
      <4>3. QED BY <3>3, <4>1, <4>2 DEF BranchFrame
    <3>5. Gone(remote', l) BY <3>2, <3>4, GoneAfterPush
    <3>6. QED BY <2>2, <3>1, <3>5
  <2>3. QED BY <1>1, <2>1, <2>2, ResetMoves
<1>2. ASSUME NEW v \in Workers, pc'[v] = "finishing" PROVE Gone(indexed', job'[v])
  <2>1. CASE RebuildIndex(v)
    <3>1. pc[v] = "rebuilding" /\ job' = job BY <2>1 DEF RebuildIndex, Step
    <3>2. PICK l \in Layers : job[v] = l BY <3>1 DEF JobInv, ErasePhases
    <3>3. Gone(remote, l) BY <3>1, <3>2 DEF GoneInv, Reset
    <3>4. remote \in Shas /\ req[l].new \in Shas BY HistoryType
    <3>5. Len(remote) \in Nat /\ Len(req[l].new) \in Nat BY <3>4, LenProperties DEF Shas
    <3>6. PICK n \in Len(req[l].new)..Len(remote) : indexed' = SubSeq(remote, 1, n)
      BY <2>1, <3>2 DEF RebuildIndex
    <3>7. n \in 0..Len(remote) BY <3>5
    <3>8. Gone(indexed', l) BY <3>3, <3>4, <3>6, <3>7, GoneBefore
    <3>9. QED BY <3>1, <3>2, <3>8
  <2>2. CASE pc[v] = "finishing" /\ job'[v] = job[v]
    <3>1. \A w \in Workers : ~RebuildIndex(w)
      <4> SUFFICES ASSUME NEW w \in Workers, RebuildIndex(w) PROVE FALSE OBVIOUS
      <4>1. pc[w] = "rebuilding" BY DEF RebuildIndex, Step
      <4>2. w = v BY <2>2, <4>1, OneAtWork DEF ErasePhases
      <4>3. QED BY <2>2, <4>1, <4>2
    <3>2. indexed' = indexed BY <3>1, Frames DEF StoreFrame
    <3>3. QED BY <2>2, <3>2 DEF GoneInv
  <2>3. QED BY <1>2, <2>1, <2>2, FinishingMoves
<1>3. ASSUME NEW v \in Workers, pc'[v] \in Purged, NEW c \in Captures
      PROVE  /\ job'[v] \notin ledger'[c].folders
             /\ LayerOf[c] = job'[v] => row'[c] \in {"absent", "queued", "erased"}
  <2>1. CASE Purge(v)
    <3>1. job' = job /\ ledger'[c] = RewrittenChange(job[v], ledger[c])
          /\ row'[c] = PurgedRow(job[v], c)
      BY <2>1 DEF Purge, Step
    <3>2. QED BY <3>1 DEF RewrittenChange, NoChange, PurgedRow
  <2>2. CASE ~Purge(v)
    <3>1. pc[v] \in Purged /\ job'[v] = job[v] BY <1>3, <2>2, PurgedMoves
    <3>2. \A w \in Workers : ~RecordChange(w) /\ ~Purge(w) /\ ~PublishRefused(w)
      <4> SUFFICES ASSUME NEW w \in Workers, RecordChange(w) \/ Purge(w) \/ PublishRefused(w)
                   PROVE FALSE
        OBVIOUS
      <4>1. pc[w] \in {"recording", "purging", "filing"} BY DEF RecordChange, Purge,
           PublishRefused, Step
      <4>2. w = v BY <3>1, <4>1, OneAtWork DEF Purged, ErasePhases
      <4>3. QED BY <3>1, <4>1, <4>2 DEF Purged
    <3>3. ledger' = ledger BY <3>2, Frames DEF LedgerFrame
    <3>4. ASSUME LayerOf[c] = job[v] PROVE row'[c] \in {"absent", "queued", "erased"}
      <4>1. row[c] \in {"absent", "queued", "erased"} BY <3>1, <3>4 DEF GoneInv
      <4>2. Open(LayerOf[c]) BY <3>1, <3>4 DEF JobInv, Purged, ErasePhases, Open
      <4>3. \A w \in Workers : ~Claim(w, c) BY <4>2 DEF Claim
      <4>4. QED BY <3>2, <4>1, <4>3, RestingRow
    <3>5. QED BY <3>1, <3>3, <3>4 DEF GoneInv
  <2>3. QED BY <2>1, <2>2
<1>4. QED BY <1>1, <1>2, <1>3 DEF GoneInv, Gone

LEMMA CarriedMoves ==
    ASSUME TypeOK, Next, NEW v \in Workers,
           pc'[v] \in {"claimed", "filing", "recording", "reporting"}
    PROVE  \/ pc[v] \in {"claimed", "filing", "recording", "reporting"} /\ job'[v] = job[v]
           \/ \E c \in Captures : Claim(v, c)
<1>1. CASE CaptureStep(v) \/ FailCapture(v) \/ StepFails(v) \/ Crash(v)
  BY <1>1 DEF CaptureStep, Recover, File, Publish, PublishRefused, RecordChange, Finish,
       FailCapture, StepFails, FailAttempt, Crash, Rest, TypeOK
<1>2. CASE EraseStep(v)
  BY <1>2 DEF EraseStep, CheckReached, RecordRewrite, PushRewrite, MarkPushed, ResetCheckout, Purge,
       Collect, ClearGarbage, RebuildIndex, Succeed, Refused, FailAttempt, Step, Rest, TypeOK
<1>3. CASE ClaimErasure(v)
  <2>1. UNCHANGED <<pc, job>> \/ pc' = [pc EXCEPT ![v] = "checking"] BY <1>3, ClaimMeans
  <2>2. QED BY <2>1 DEF TypeOK
<1>4. QED BY <1>1, <1>2, <1>3, OthersStand DEF WriterStep

\* A row comes from an accepted capture, and nothing but a purge deletes it.
LEMMA RowLives ==
    ASSUME TypeOK, JobInv, BytesInv, Next, NEW c \in Captures
    PROVE  /\ row[c] # "absent" => row'[c] # "absent"
           /\ row'[c] # "absent" => row[c] # "absent" \/ (c \in accepted /\ c \notin accepted')
           /\ row'[c] = "erased" => row[c] = "erased" \/ \E w \in Workers : Purge(w)
<1>1. CASE row' = row BY <1>1
<1>2. CASE \E d \in Captures : Enqueue(d) \/ Reclaim(d)
  BY <1>2 DEF Enqueue, Reclaim, TypeOK
<1>3. CASE \E w \in Workers : Finish(w) \/ FailCapture(w) \/ \E d \in Captures : Claim(w, d)
  BY <1>3 DEF FailCapture, Finish, Claim, TypeOK
<1>4. CASE \E w \in Workers : PublishRefused(w)
  BY <1>4 DEF PublishRefused, TypeOK, BytesInv
<1>5. CASE \E w \in Workers : Purge(w) BY <1>5 DEF Purge, PurgedRow
<1>6. RowFrame BY Frames
<1>7. QED BY <1>1, <1>2, <1>3, <1>4, <1>5, <1>6 DEF RowFrame

\* The bytes only a deleted row needs are not stored again.
LEMMA ObjectsMove ==
    ASSUME TypeOK, Next, NEW c \in Captures, ~Shared(c), row[c] # "absent",
           Blob[c] \in objects'
    PROVE  Blob[c] \in objects
<1>1. CASE objects' = objects BY <1>1
<1>2. ASSUME NEW d \in Captures, Accept(d) PROVE Blob[c] \in objects
  BY <1>2 DEF Accept, Shared
<1>3. CASE \E w \in Workers : Collect(w) BY <1>3 DEF Collect
<1>4. StoreFrame BY Frames
<1>5. QED BY <1>1, <1>2, <1>3, <1>4 DEF StoreFrame

\* What a request has noted down for deletion stays noted until it is collected.
LEMMA GarbageStays ==
    ASSUME ErasureAssumption, TypeOK, JobInv, RewriteInv, Next, NEW m \in Layers, Open(m),
           NEW b \in req[m].garbage
    PROVE  \/ Open(m)' /\ b \in req'[m].garbage
           \/ \E w \in Workers : job[w] = m /\ pc[w] \in Cleared
<1> DEFINE Goal == \/ Open(m)' /\ b \in req'[m].garbage
                   \/ \E w \in Workers : job[w] = m /\ pc[w] \in Cleared
<1>0. req[m].pushed BY DEF RewriteInv
<1>1. CASE req' = req BY <1>1 DEF Open
<1>2. ASSUME NEW l \in Layers, Request(l) PROVE Goal BY <1>2 DEF Request, TypeOK, Open
<1>3. ASSUME NEW l \in Layers, Backoff(l) PROVE Goal BY <1>3 DEF Backoff, TypeOK, Open
<1>4. ASSUME NEW w \in Workers, ClaimErasure(w) PROVE Goal
  BY <1>0, <1>4, ClaimMeans DEF Abandoned
<1>5. ASSUME NEW w \in Workers, CheckReached(w) \/ RecordRewrite(w) \/ MarkPushed(w) \/ Purge(w)
      PROVE Goal
  <2>1. PICK l \in Layers : job[w] = l
    BY <1>5 DEF CheckReached, RecordRewrite, MarkPushed, Purge, Step, JobInv, ErasePhases
  <2>2. \A k \in Layers : req'[k].status = req[k].status /\ req[k].garbage \subseteq req'[k].garbage
    <3>1. CASE CheckReached(w) BY <2>1, <3>1 DEF CheckReached, TypeOK
    <3>2. CASE RecordRewrite(w) BY <2>1, <3>2 DEF RecordRewrite, TypeOK
    <3>3. CASE MarkPushed(w) BY <2>1, <3>3 DEF MarkPushed, TypeOK
    <3>4. CASE Purge(w) BY <2>1, <3>4 DEF Purge, TypeOK
    <3>5. QED BY <1>5, <3>1, <3>2, <3>3, <3>4
  <2>3. QED BY <2>2 DEF Open
<1>6. ASSUME NEW w \in Workers, ClearGarbage(w) PROVE Goal
  <2>1. pc[w] \in Cleared /\ pc[w] \in ErasePhases BY <1>6 DEF ClearGarbage, Step, Cleared,
       ErasePhases
  <2>2. PICK l \in Layers : job[w] = l BY <2>1 DEF JobInv
  <2>3. m # l => req'[m] = req[m] BY <1>6, <2>2 DEF ClearGarbage, TypeOK
  <2>4. QED BY <2>1, <2>2, <2>3 DEF Open
<1>7. ASSUME NEW w \in Workers, Succeed(w) PROVE Goal
  <2>1. pc[w] \in Cleared /\ pc[w] \in ErasePhases BY <1>7 DEF Succeed, Cleared, ErasePhases
  <2>2. PICK l \in Layers : job[w] = l BY <2>1 DEF JobInv
  <2>3. m # l => req'[m] = req[m] BY <1>7, <2>2 DEF Succeed, TypeOK
  <2>4. QED BY <2>1, <2>2, <2>3 DEF Open
<1>8. ASSUME NEW w \in Workers, Refused(w) \/ StepFails(w) PROVE Goal
  <2>1. pc[w] \in ErasePhases /\ FailAttempt(w) BY <1>8 DEF Refused, StepFails, ErasePhases
  <2>2. PICK l \in Layers : job[w] = l BY <2>1 DEF JobInv
  <2>3. CASE m = l BY <1>0, <2>1, <2>2, <2>3, FailMeans DEF MayBePushed
  <2>4. CASE m # l
    <3>1. req'[m] = req[m] BY <2>1, <2>2, <2>4, FailMeans
    <3>2. QED BY <3>1 DEF Open
  <2>5. QED BY <2>3, <2>4
<1>9. RequestFrame BY Frames
<1>10. QED BY <1>1, <1>2, <1>3, <1>4, <1>5, <1>6, <1>7, <1>8, <1>9 DEF RequestFrame

LEMMA StepBytes ==
    ASSUME ErasureAssumption, TypeOK, TypeOK', LockInv, JobInv, RewriteInv, BytesInv, Next
    PROVE  BytesInv'
<1>1. ASSUME NEW c \in accepted' PROVE row'[c] = "absent"
  <2>1. c \in Captures BY DEF TypeOK
  <2>2. CASE c \in accepted BY <1>1, <2>1, <2>2, RowLives DEF BytesInv
  <2>3. CASE c \notin accepted
    <3>1. PICK d \in Captures : Accept(d) BY <1>1, <2>3, Frames DEF StoreFrame
    <3>2. QED BY <1>1, <2>3, <3>1 DEF Accept
  <2>4. QED BY <2>2, <2>3
<1>2. ASSUME NEW v \in Workers, pc'[v] \in {"claimed", "filing", "recording", "reporting"}
      PROVE  row'[job'[v]] # "absent"
  <2>1. CASE \E c \in Captures : Claim(v, c) BY <2>1 DEF Claim, TypeOK
  <2>2. CASE pc[v] \in {"claimed", "filing", "recording", "reporting"} /\ job'[v] = job[v]
    <3>1. PICK c \in Captures : job[v] = c BY <2>2 DEF JobInv
    <3>2. row[c] # "absent" BY <2>2, <3>1 DEF BytesInv
    <3>3. QED BY <2>2, <3>1, <3>2, RowLives
  <2>3. QED BY <1>2, <2>1, <2>2, CarriedMoves
<1>3. ASSUME NEW c \in Captures, row'[c] = "erased", Blob[c] \in objects', ~Shared(c)
      PROVE  Open(LayerOf[c])' /\ Blob[c] \in req'[LayerOf[c]].garbage
  <2>1. LayerOf[c] \in Layers BY DEF ErasureAssumption
  <2>2. CASE row[c] = "erased"
    <3>1. Blob[c] \in objects BY <1>3, <2>2, ObjectsMove
    <3>2. Open(LayerOf[c]) /\ Blob[c] \in req[LayerOf[c]].garbage BY <1>3, <2>2, <3>1 DEF 
       BytesInv
    <3>3. ~ \E w \in Workers : job[w] = LayerOf[c] /\ pc[w] \in Cleared
      BY <1>3, <2>2, <3>1 DEF BytesInv
    <3>4. QED BY <2>1, <3>2, <3>3, GarbageStays
  <2>3. CASE row[c] # "erased"
    <3>1. PICK w \in Workers : Purge(w) BY <1>3, <2>3, RowLives
    <3>2. row' = [d \in Captures |-> PurgedRow(job[w], d)] BY <3>1 DEF Purge
    <3>3. LayerOf[c] = job[w] /\ row[c] \notin {"absent", "erased"}
      BY <1>3, <2>3, <3>2 DEF PurgedRow, TypeOK
    <3>4. ~IsLive(row', Blob[c]) BY <1>3 DEF IsLive, Shared
    <3>5. Blob[c] \in req'[LayerOf[c]].garbage
      <4>1. PICK l \in Layers : l = job[w] BY <2>1, <3>3
      <4> DEFINE mine == {d \in Captures : LayerOf[d] = l /\ row[d] \notin {"absent", "erased"}}
                 left == {Blob[d] : d \in {e \in mine : ~IsLive(row', Blob[e])}}
      <4>2. Blob[c] \in left BY <3>3, <3>4, <4>1
      <4>3. req' = [req EXCEPT ![l].garbage = @ \cup left] BY <3>1, <4>1 DEF Purge
      <4> HIDE DEF left
      <4>4. QED BY <3>3, <4>1, <4>2, <4>3 DEF TypeOK
    <3>6. req'[LayerOf[c]].status = req[LayerOf[c]].status BY <2>1, <3>1, <3>3 DEF Purge, TypeOK
    <3>7. req[LayerOf[c]].status = "running"
      BY <3>1, <3>3 DEF Purge, Step, JobInv, ErasePhases
    <3>8. QED BY <3>5, <3>6, <3>7 DEF Open
  <2>4. QED BY <2>2, <2>3
<1>4. ASSUME NEW v \in Workers, pc'[v] \in Cleared, NEW c \in Captures,
             LayerOf[c] = job'[v], row'[c] = "erased", ~Shared(c)
      PROVE  Blob[c] \notin objects'
  <2>1. CASE Collect(v)
    <3>1. /\ job' = job /\ row' = row
          /\ objects' = {b \in objects : b \in req[job[v]].garbage => IsLive(row, b)}
      BY <2>1 DEF Collect, Step, captureVars
    <3>2. ~IsLive(row, Blob[c]) BY <1>4, <3>1 DEF IsLive, Shared
    <3>3. Blob[c] \in objects => Blob[c] \in req[job[v]].garbage BY <1>4, <3>1 DEF BytesInv
    <3>4. QED BY <3>1, <3>2, <3>3
  <2>2. CASE pc[v] \in Cleared /\ job'[v] = job[v]
    <3>1. ~ \E w \in Workers : Purge(w)
      <4> SUFFICES ASSUME NEW w \in Workers, Purge(w) PROVE FALSE OBVIOUS
      <4>1. pc[w] = "purging" BY DEF Purge, Step
      <4>2. w = v BY <2>2, <4>1, OneAtWork DEF Cleared, ErasePhases
      <4>3. QED BY <2>2, <4>1, <4>2 DEF Cleared
    <3>2. row[c] = "erased" BY <1>4, <3>1, RowLives
    <3>3. Blob[c] \notin objects BY <1>4, <2>2, <3>2 DEF BytesInv
    <3>4. QED BY <1>4, <3>2, <3>3, ObjectsMove
  <2>3. QED BY <1>4, <2>1, <2>2, ClearedMoves
<1>5. QED BY <1>1, <1>2, <1>3, <1>4 DEF BytesInv, Shared

-----------------------------------------------------------------------------
(* The theorems.                                                           *)

ErasureInv ==
    /\ WriterInv
    /\ BytesInv
    /\ ~late => RemoteInv /\ LedgerInv /\ GoneInv

LEMMA InitErasure == ASSUME Init PROVE ErasureInv /\ LandedInv
<1>1. TypeOK BY InitType, ErasureAssumption
<1>2. LockInv /\ JobInv /\ RewriteInv /\ InFlightInv
  BY DEF Init, LockInv, JobInv, RewriteInv, InFlightInv, ErasePhases, Recorded, Reset, NoRequest
<1>3. RemoteInv BY DEF Init, RemoteInv, Reset, NoRequest
<1>4. Resolves(NoSha)
  <2>1. remote \in Seq(Commits) BY <1>1 DEF TypeOK, Shas
  <2>2. IsPrefix(NoSha, remote) BY <2>1, EmptyPrefix DEF NoSha
  <2>3. QED BY <2>2 DEF Resolves
<1>5. LedgerInv BY <1>4 DEF Init, LedgerInv, NoChange, Purged
<1>6. LandedInv BY DEF Init, LandedInv
<1>7. GoneInv BY DEF Init, GoneInv, Reset, Purged
<1>8. BytesInv BY DEF Init, BytesInv
<1>9. QED BY <1>1, <1>2, <1>3, <1>5, <1>6, <1>7, <1>8 DEF ErasureInv, WriterInv

LEMMA StepErasure == ASSUME ErasureInv, Next PROVE ErasureInv'
<1>1. ErasureAssumption /\ WriterInv BY ErasureAssumption DEF ErasureInv
<1>2. TypeOK' BY <1>1, StepType DEF WriterInv
<1>3. LockInv' /\ JobInv' /\ RewriteInv' /\ InFlightInv'
  BY <1>1, StepLock, StepJob, StepRewrite, StepInFlight DEF WriterInv
<1>4. BytesInv' BY <1>1, <1>2, StepBytes DEF ErasureInv, WriterInv
<1>5. ASSUME ~late' PROVE RemoteInv' /\ LedgerInv' /\ GoneInv'
  <2>1. RemoteInv /\ LedgerInv /\ GoneInv BY <1>5, LateStays DEF ErasureInv
  <2>2. RemoteInv' BY <1>1, <1>2, <1>5, <2>1, StepRemote DEF WriterInv
  <2>3. LedgerInv' BY <1>1, <1>2, <1>5, <2>1, StepLedger DEF WriterInv
  <2>4. GoneInv' BY <1>1, <1>2, <1>5, <2>1, StepGone DEF WriterInv
  <2>5. QED BY <2>2, <2>3, <2>4
<1>6. QED BY <1>2, <1>3, <1>4, <1>5 DEF ErasureInv, WriterInv

LEMMA StutterErasure ==
    ASSUME UNCHANGED vars
    PROVE  /\ ErasureInv => ErasureInv'
           /\ (late' <=> late) /\ (LandedInv => LandedInv')
<1>1. WriterInv => WriterInv'
  BY DEF WriterInv, TypeOK, LockInv, JobInv, RewriteInv, InFlightInv, Open, vars, captureVars,
       workerVars
<1>2. BytesInv => BytesInv' BY DEF BytesInv, Open, vars, captureVars, workerVars
<1>3. (RemoteInv => RemoteInv') /\ (GoneInv => GoneInv')
  BY DEF RemoteInv, GoneInv, Open, vars, captureVars, workerVars
<1>4. (LedgerInv => LedgerInv') /\ (LandedInv => LandedInv')
  BY DEF LedgerInv, LandedInv, Resolves, Open, vars, captureVars, workerVars
<1>5. late' <=> late BY DEF vars
<1>6. QED BY <1>1, <1>2, <1>3, <1>4, <1>5 DEF ErasureInv

\* What the erasure keeps at every step, whatever fails, for any number of writer
\* processes, layers, captures and pushes by others.
THEOREM ErasureInvariant == Spec => []ErasureInv
<1>1. Init => ErasureInv BY InitErasure
<1>2. ErasureInv /\ [Next]_vars => ErasureInv' BY StepErasure, StutterErasure
<1>3. QED BY <1>1, <1>2, PTL DEF Spec

\* Rows, requests, histories and writers keep their shape.
THEOREM ErasureTypeCorrect == Spec => []TypeOK
<1>1. ErasureInv => TypeOK BY DEF ErasureInv, WriterInv
<1>2. QED BY <1>1, ErasureInvariant, PTL

\* Every change of the history stands for a commit of the branch, or for one that the
\* commit map of an open request leads there (ER-06; erasure.py `_rewrite_ledger`).
THEOREM LedgerKept == Spec => []LedgerResolves
<1>1. ErasureInv => LedgerResolves BY DEF ErasureInv, LedgerInv, LedgerResolves
<1>2. QED BY <1>1, ErasureInvariant, PTL

\* The same for the commit a landed capture reports: with one writer process no report can
\* come between a purge and what the attempt carried from before it.
THEOREM StoredCommitsResolve == ASSUME OneWriter PROVE Spec => []RecordsResolve
<1>1. Init => ErasureInv /\ LandedInv BY InitErasure
<1>2. ASSUME ErasureInv, ~late => LandedInv, [Next]_vars PROVE ~late' => LandedInv'
  <2>1. CASE Next
    <3>1. SUFFICES ASSUME ~late' PROVE LandedInv' OBVIOUS
    <3>2. ErasureInv' BY <1>2, <2>1, StepErasure
    <3>3. ~late BY <2>1, <3>1, LateStays
    <3>4. TypeOK /\ TypeOK' /\ LockInv /\ JobInv /\ RewriteInv /\ RemoteInv /\ LandedInv
      BY <1>2, <3>2, <3>3 DEF ErasureInv, WriterInv
    <3>5. QED BY <2>1, <3>1, <3>4, StepLanded, ErasureAssumption
  <2>2. CASE UNCHANGED vars BY <1>2, <2>2, StutterErasure
  <2>3. QED BY <1>2, <2>1, <2>2
<1>3. ErasureInv /\ (~late => LandedInv) => RecordsResolve
  BY DEF ErasureInv, LedgerInv, LandedInv, RecordsResolve, LedgerResolves, LandedResolves
<1>4. QED BY <1>1, <1>2, <1>3, ErasureInvariant, PTL DEF Spec

LEMMA SucceedMoves ==
    ASSUME TypeOK, JobInv, Next, NEW l \in Layers, req[l].status # "succeeded",
           req'[l].status = "succeeded"
    PROVE  \E w \in Workers : Succeed(w) /\ job[w] = l
<1>1. ASSUME NEW w \in Workers, Succeed(w) PROVE job[w] = l
  <2>1. job[w] \in Layers BY <1>1 DEF Succeed
  <2>2. QED BY <1>1, <2>1 DEF Succeed, TypeOK
<1>2. ASSUME NEW m \in Layers, Request(m) \/ Backoff(m) PROVE FALSE
  <2>1. CASE Request(m)
    <3>1. req'[l] = req[l] \/ req'[l].status = "queued" BY <2>1 DEF Request, TypeOK
    <3>2. QED BY <3>1
  <2>2. CASE Backoff(m)
    <3>1. req'[l].status = req[l].status BY <2>2 DEF Backoff, TypeOK
    <3>2. QED BY <3>1
  <2>3. QED BY <1>2, <2>1, <2>2
<1>3. ASSUME NEW w \in Workers, ClaimErasure(w) PROVE FALSE BY <1>3, ClaimMeans
<1>4. ASSUME NEW w \in Workers, CheckReached(w) \/ MarkPushed(w) \/ Purge(w) \/ ClearGarbage(w)
      PROVE  FALSE
  BY <1>4, RewriteKept
<1>5. ASSUME NEW w \in Workers, RecordRewrite(w) PROVE FALSE
  <2>1. PICK m \in Layers : job[w] = m BY <1>5 DEF RecordRewrite, Step, JobInv, ErasePhases
  <2>2. req'[l].status = req[l].status BY <1>5, <2>1 DEF RecordRewrite, TypeOK
  <2>3. QED BY <2>2
<1>6. ASSUME NEW w \in Workers, Refused(w) \/ StepFails(w) PROVE FALSE
  <2>1. pc[w] \in ErasePhases /\ FailAttempt(w) BY <1>6 DEF Refused, StepFails, ErasePhases
  <2>2. PICK m \in Layers : job[w] = m BY <2>1 DEF JobInv
  <2>3. req'[l] = req[l] \/ req'[l].status \in {"queued", "failed"} BY <2>1, <2>2, FailMeans
  <2>4. QED BY <2>3
<1>7. req' # req OBVIOUS
<1>8. RequestFrame BY Frames
<1>9. QED BY <1>1, <1>2, <1>3, <1>4, <1>6, <1>7, <1>8, <1>5 DEF RequestFrame

\* A request that succeeds has left nothing of the layer: not on the branch, not in the
\* index, not in the history of changes, not in the queue, not in the bucket
\* (data-erasure.md:9, `Complete or not claimed`), whatever failed and was tried again.
THEOREM SuccessLeavesNothing == Spec => SuccessIsComplete
<1> DEFINE Claimed(l) == ~late /\ req[l].status # "succeeded" /\ req'[l].status = "succeeded"
<1>1. ASSUME ErasureInv, [Next]_vars, NEW l \in Layers, Claimed(l) PROVE Erased(l)
  <2>1. Next BY <1>1 DEF vars
  <2>2. PICK w \in Workers : Succeed(w) /\ job[w] = l
    BY <1>1, <2>1, SucceedMoves DEF ErasureInv, WriterInv
  <2>3. pc[w] = "finishing" BY <2>2 DEF Succeed
  <2>4. GoneInv /\ BytesInv BY <1>1 DEF ErasureInv
  <2>5. Gone(remote, l) /\ Gone(indexed, l) BY <2>2, <2>3, <2>4 DEF GoneInv, Reset
  <2>6. \A c \in Captures : /\ l \notin ledger[c].folders
                            /\ LayerOf[c] = l => row[c] \in {"absent", "queued", "erased"}
    BY <2>2, <2>3, <2>4 DEF GoneInv, Purged
  <2>7. \A c \in Captures :
          (LayerOf[c] = l /\ row[c] = "erased" /\ Blob[c] \in objects) => Shared(c)
    BY <2>2, <2>3, <2>4 DEF BytesInv, Cleared
  <2>8. QED BY <2>5, <2>6, <2>7 DEF Erased, Gone, Shared
<1>2. ErasureInv /\ [Next]_vars => [\A l \in Layers : Claimed(l) => Erased(l)]_vars
  BY <1>1
<1>3. QED BY <1>2, ErasureInvariant, PTL DEF Spec, SuccessIsComplete

\* A longer history files all the shorter one does.
LEMMA FiledGrows ==
    ASSUME NEW h \in Shas, NEW k \in Shas, IsPrefix(h, k)
    PROVE  Filed(h) \subseteq Filed(k)
<1>1. h \in Seq(Commits) /\ k \in Seq(Commits) BY DEF Shas
<1>2. /\ DOMAIN h = 1..Len(h) /\ DOMAIN k = 1..Len(k) /\ Len(h) \in Nat /\ Len(k) \in Nat
      /\ Len(h) <= Len(k) /\ \A i \in 1..Len(h) : h[i] = k[i]
  BY <1>1, PrefixMeans, LenProperties
<1>3. \A i \in DOMAIN h : i \in DOMAIN k /\ h[i] = k[i] BY <1>2
<1>4. QED BY <1>3 DEF Filed

\* The erasure of one layer, and any push that was given up, takes nothing from the folder
\* of a layer nobody asked to erase (the lease of each ref, erase_layer.py).
THEOREM OthersStay == Spec => OthersKept
<1> DEFINE Asked == \A filed \in Filed(remote) \ Filed(remote') : req[filed[2]].status # "none"
<1>1. ASSUME ErasureInv, Next PROVE Asked
  <2>1. ErasureAssumption /\ TypeOK /\ JobInv /\ RewriteInv /\ InFlightInv
    BY <1>1, ErasureAssumption DEF ErasureInv, WriterInv
  <2>2. TypeOK' BY <1>1, StepErasure DEF ErasureInv, WriterInv
  <2>3. remote \in Shas /\ remote' \in Shas BY <2>1, <2>2 DEF TypeOK
  <2>4. CASE IsPrefix(remote, remote') BY <2>3, <2>4, FiledGrows
  <2>5. ASSUME NEW l \in Layers, req[l].status # "none", remote' = Filter(remote, l) PROVE Asked
    BY <2>3, <2>5, FilterLosesOne
  <2>6. ASSUME NEW w \in Workers, PushRewrite(w) PROVE Asked
    <3>1. PICK l \in Layers : job[w] = l BY <2>1, <2>6 DEF PushRewrite, Step, JobInv,
         ErasePhases
    <3>2. remote' = Filter(remote, l) /\ req[l].status = "running"
      BY <2>1, <2>6, <3>1 DEF PushRewrite, Step, RewriteInv, JobInv, Recorded, ErasePhases
    <3>3. QED BY <2>5, <3>2
  <2>7. ASSUME NEW p \in inflight, Land(p) PROVE Asked
    <3>1. CASE remote # p.from BY <2>7, <3>1 DEF Land
    <3>2. CASE remote = p.from
      <4>1. remote' = p.to /\ p.to \in Seq(Commits) BY <2>1, <2>7, <3>2 DEF Land, TypeOK, Shas
      <4>2. CASE p.to # <<>> /\ p.from = Front(p.to)
        <5>1. IsPrefix(remote, remote') BY <3>2, <4>1, <4>2, FrontIsPrefix
        <5>2. QED BY <2>4, <5>1
      <4>3. CASE \E l \in Layers : req[l].status # "none" /\ p.to = Filter(p.from, l)
        BY <2>5, <3>2, <4>1, <4>3
      <4>4. QED BY <2>1, <4>2, <4>3 DEF InFlightInv
    <3>3. QED BY <3>1, <3>2
  <2>8. CASE (\E w \in Workers : Publish(w)) \/ (\E c \in Outside : OutsidePush(c))
    BY <2>1, <2>4, <2>8, AddedAtTheEnd
  <2>9. CASE remote' = remote BY <2>9
  <2>10. BranchFrame BY <1>1, Frames
  <2>11. QED BY <2>6, <2>7, <2>8, <2>9, <2>10 DEF BranchFrame
<1>2. ErasureInv /\ [Next]_vars => [Asked]_vars BY <1>1
<1>3. QED BY <1>2, ErasureInvariant, PTL DEF Spec, OthersKept
=============================================================================
