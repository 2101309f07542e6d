------------------------ MODULE RosterAndDoors_proofs ------------------------
(***************************************************************************)
(* What the roster keeps whichever edits meet, and what an idempotency key  *)
(* keeps however its deliveries race, for any number of people, edits,      *)
(* tokens, requests and deliveries.                                         *)
(*                                                                         *)
(* Roster: an edit that has made its checks holds the lock, so what it has  *)
(* read (Accepts) is still true when it writes: the edits without the lock  *)
(* only add groups and take away uses.  What was withdrawn is revoked or    *)
(* gone, and neither is ever undone.  A capture in the hands of the writer  *)
(* keeps its layer's group, or it lands between the two looks of the        *)
(* deletion.                                                                *)
(*                                                                         *)
(* CaptureDoors: a row of the queue is never replaced, so what a receipt or *)
(* a refusal was answered from stays there to be compared with.             *)
(***************************************************************************)
EXTENDS RosterAndDoors, TLAPS

-----------------------------------------------------------------------------
(* Roster: the inductive invariant.                                        *)

\* An edit that is under way holds the lock, and what it has checked is still so.
ChecksStand ==
    \A j \in Job : jobs[j] # Idle => lock = j /\ Accepts(jobs[j])

\* Only a deletion of a layer looks at the index.
OnlyDropsLook == \A j \in shown : Holds(j, "drop")

\* The group of the administrators is never deleted.
GroupsStand == Unrestricted \in groups /\ GroupsInUseExist

\* What was withdrawn is revoked or gone; a session that never was has no token, and a token that
\* is live is somebody's.
WithdrawnStays ==
    /\ \A t \in barred \cap Token : tokens[t].state \in {"revoked", "gone"}
    /\ \A s \in barred \cap Session : sessions[s].state \in {"revoked", "gone"}
    /\ \A s \in Session : sessions[s].state = "none" => sessions[s].of = Nobody
    /\ \A t \in Token : tokens[t].state = "live" => tokens[t].of \in Person

\* A capture that the writer holds has its layer's group; one that landed shows in the index or
\* keeps it behind, so that no later look finds the layer empty.
LandingStands ==
    /\ capture.state \in {"routed", "queued"} => capture.author \in Person
    /\ capture.state \in {"running", "pushed", "landed"} => capture.layer \in groups \/ slipped
    /\ capture.state = "landed" => index.newer \/ index.has
    /\ \A j \in shown : capture.state = "landed" /\ jobs[j].layer = capture.layer => slipped

RosterInv ==
    /\ TypeOK
    /\ ChecksStand
    /\ OnlyDropsLook
    /\ GroupsStand
    /\ WithdrawnStays
    /\ LandingStands

-----------------------------------------------------------------------------
(* Lemmas about edits.                                                     *)

\* The fields of an edit, by what it does.
LEMMA EditFields ==
    ASSUME NEW r \in Edits
    PROVE  /\ r.op \in {"create", "update"} =>
                r.who \in Person /\ r.admin \in BOOLEAN /\ r.groups \in SUBSET Groups
           /\ r.op \in {"disable", "enable", "delete", "bootstrap"} => r.who \in Person
           /\ r.op = "channel" => r.channel \in Channel /\ r.groups \in SUBSET Layer
           /\ r.op = "drop" => r.layer \in Layer
<1>1. CASE r \in [op : {"create", "update"}, who : Person, admin : BOOLEAN, groups : SUBSET Groups]
  BY <1>1
<1>2. CASE r \in [op : {"disable", "enable", "delete", "bootstrap"}, who : Person]
  BY <1>2
<1>3. CASE r \in [op : {"channel"}, channel : Channel, groups : {{}} \cup {{l} : l \in Layer}]
  BY <1>3
<1>4. CASE r \in [op : {"drop"}, layer : Layer]
  BY <1>4
<1>5. QED
  BY <1>1, <1>2, <1>3, <1>4 DEF Edits

\* The edit a job holds is one of the edits.
LEMMA HeldIsAnEdit ==
    ASSUME TypeOK, NEW j \in Job, jobs[j] # Idle
    PROVE  jobs[j] \in Edits
BY DEF TypeOK

\* The end of a transaction leaves the lock, the jobs and the looks well typed.
LEMMA EndIsTyped ==
    ASSUME TypeOK, NEW j \in Job, EndsFor(j)
    PROVE  /\ lock' \in Job \cup {Nobody}
           /\ jobs' \in [Job -> Edits \cup {Idle}]
           /\ shown' \subseteq Job
           /\ requests' \in 0..MaxRequests
BY DEF TypeOK, EndsFor

\* Sessions that end stay sessions, and only live ones change.
LEMMA EndedIsTyped ==
    ASSUME TypeOK, NEW ss, NEW st \in {"revoked", "gone"}
    PROVE  /\ Ended(ss, st) \in [Session -> [of : Token \cup {Nobody},
                                    state : {"none", "opening", "live", "revoked", "gone"}]]
           /\ \A s \in Session :
                /\ Ended(ss, st)[s].of = sessions[s].of
                /\ sessions[s].state # "live" => Ended(ss, st)[s] = sessions[s]
                /\ s \in ss /\ sessions[s].state = "live" => Ended(ss, st)[s].state = st
                /\ Ended(ss, st)[s].state = "none" => sessions[s].state = "none"
BY DEF TypeOK, Ended

-----------------------------------------------------------------------------
(* Roster: every action keeps the type of every variable.                  *)

LEMMA RosterTypeKept ==
    ASSUME RosterAssumption, RosterInv, Next
    PROVE  TypeOK'
<1> USE DEF RosterInv
<1>1. ASSUME NEW j \in Job, Abort(j)
      PROVE  TypeOK'
  BY <1>1, EndIsTyped DEF TypeOK, Abort, rosterVars, filingVars
<1>2. ASSUME NEW j \in Job, NEW r \in Edits, Begin(j, r)
      PROVE  TypeOK'
  <2>1. lock' \in Job \cup {Nobody} /\ jobs' \in [Job -> Edits \cup {Idle}]
    BY <1>2 DEF TypeOK, Begin
  <2>2. requests' \in 0..MaxRequests
    BY <1>2, RosterAssumption DEF TypeOK, Begin, RosterAssumption
  <2>3. QED
    BY <1>2, <2>1, <2>2 DEF TypeOK, Begin, rosterVars, filingVars
<1>3. ASSUME NEW j \in Job, Create(j)
      PROVE  TypeOK'
  <2>1. people' \in [Person -> [in : BOOLEAN, admin : BOOLEAN, disabled : BOOLEAN,
                                groups : SUBSET Groups]]
    BY <1>3, EditFields, HeldIsAnEdit DEF TypeOK, Create, Holds, Member
  <2>2. QED
    BY <1>3, <2>1, EndIsTyped DEF TypeOK, Create, filingVars
<1>4. ASSUME NEW j \in Job, Update(j)
      PROVE  TypeOK'
  <2>1. people' \in [Person -> [in : BOOLEAN, admin : BOOLEAN, disabled : BOOLEAN,
                                groups : SUBSET Groups]]
    BY <1>4, EditFields, HeldIsAnEdit DEF TypeOK, Update, Holds
  <2>2. QED
    BY <1>4, <2>1, EndIsTyped DEF TypeOK, Update, filingVars
<1>5. ASSUME NEW j \in Job, NEW t \in Token, Bootstrap(j, t)
      PROVE  TypeOK'
  <2>1. jobs[j].who \in Person
    BY <1>5, EditFields, HeldIsAnEdit DEF Bootstrap, Holds
  <2>2. people' \in [Person -> [in : BOOLEAN, admin : BOOLEAN, disabled : BOOLEAN,
                                groups : SUBSET Groups]]
    BY <1>5, <2>1 DEF TypeOK, Bootstrap, Member, Groups
  <2>3. tokens' \in [Token -> [of : Person \cup {Nobody},
                               state : {"none", "live", "revoked", "gone"}]]
    BY <1>5, <2>1 DEF TypeOK, Bootstrap
  <2>4. /\ lock' \in Job \cup {Nobody} /\ jobs' \in [Job -> Edits \cup {Idle}]
        /\ shown' \subseteq Job /\ requests' \in 0..MaxRequests
    BY <1>5, EndIsTyped DEF Bootstrap
  <2>5. UNCHANGED <<groups, channels, sessions, barred, filingVars>>
    BY <1>5 DEF Bootstrap
  <2>6. QED
    BY <2>2, <2>3, <2>4, <2>5 DEF TypeOK, filingVars
<1>6. ASSUME NEW j \in Job, SetDisabled(j)
      PROVE  TypeOK'
  <2>1. jobs[j].who \in Person
    BY <1>6, EditFields, HeldIsAnEdit DEF SetDisabled, Holds
  <2>2. people' \in [Person -> [in : BOOLEAN, admin : BOOLEAN, disabled : BOOLEAN,
                                groups : SUBSET Groups]]
    <3>1. PICK off \in BOOLEAN : people' = [people EXCEPT ![jobs[j].who].disabled = off]
      BY <1>6 DEF SetDisabled
    <3>2. QED
      BY <2>1, <3>1, SMTT(30) DEF TypeOK
  <2>3. sessions' \in [Session -> [of : Token \cup {Nobody},
                                   state : {"none", "opening", "live", "revoked", "gone"}]]
    BY <1>6, EndedIsTyped DEF TypeOK, SetDisabled
  <2>4. barred' \subseteq Token \cup Session
    BY <1>6 DEF TypeOK, SetDisabled, RowsOf
  <2>5. /\ lock' \in Job \cup {Nobody} /\ jobs' \in [Job -> Edits \cup {Idle}]
        /\ shown' \subseteq Job /\ requests' \in 0..MaxRequests
    BY <1>6, EndIsTyped DEF SetDisabled
  <2>6. QED
    BY <1>6, <2>2, <2>3, <2>4, <2>5 DEF TypeOK, SetDisabled, filingVars
<1>7. ASSUME NEW j \in Job, DeletePerson(j)
      PROVE  TypeOK'
  <2>1. jobs[j].who \in Person
    BY <1>7, EditFields, HeldIsAnEdit DEF DeletePerson, Holds
  <2>2. people' \in [Person -> [in : BOOLEAN, admin : BOOLEAN, disabled : BOOLEAN,
                                groups : SUBSET Groups]]
    BY <1>7, <2>1 DEF TypeOK, DeletePerson, Absent
  <2>3. tokens' \in [Token -> [of : Person \cup {Nobody},
                               state : {"none", "live", "revoked", "gone"}]]
    BY <1>7 DEF TypeOK, DeletePerson
  <2>4. sessions' \in [Session -> [of : Token \cup {Nobody},
                                   state : {"none", "opening", "live", "revoked", "gone"}]]
    BY <1>7 DEF TypeOK, DeletePerson
  <2>5. barred' \subseteq Token \cup Session
    BY <1>7 DEF TypeOK, DeletePerson, RowsOf, TokensOf
  <2>6. QED
    BY <1>7, <2>2, <2>3, <2>4, <2>5, EndIsTyped DEF TypeOK, DeletePerson, filingVars
<1>8. ASSUME NEW j \in Job, SetChannel(j)
      PROVE  TypeOK'
  <2>1. channels' \in [Channel -> SUBSET Layer]
    BY <1>8, EditFields, HeldIsAnEdit DEF TypeOK, SetChannel, Holds
  <2>2. QED
    BY <1>8, <2>1, EndIsTyped DEF TypeOK, SetChannel, filingVars
<1>9. ASSUME NEW j \in Job, LookAtIndex(j) \/ DropGroup(j)
      PROVE  TypeOK'
  BY <1>9, EndIsTyped DEF TypeOK, LookAtIndex, DropGroup, rosterVars, filingVars
<1>10. ASSUME Unlocked
       PROVE  TypeOK'
  <2>1. ASSUME NEW l \in Layer, CreateGroup(l)
        PROVE  TypeOK'
    BY <2>1, RosterAssumption DEF TypeOK, CreateGroup, Groups, filingVars, RosterAssumption
  <2>2. ASSUME NEW c \in Channel, DeleteChannel(c)
        PROVE  TypeOK'
    BY <2>2 DEF TypeOK, DeleteChannel, lockVars, filingVars
  <2>3. ASSUME NEW p \in Person, NEW t \in Token, IssueToken(p, t)
        PROVE  TypeOK'
    BY <2>3 DEF TypeOK, IssueToken, lockVars, filingVars
  <2>4. ASSUME NEW t \in Token, RevokeToken(t)
        PROVE  TypeOK'
    <3>1. tokens' \in [Token -> [of : Person \cup {Nobody},
                                 state : {"none", "live", "revoked", "gone"}]]
      BY <2>4 DEF TypeOK, RevokeToken
    <3>2. sessions' \in [Session -> [of : Token \cup {Nobody},
                                     state : {"none", "opening", "live", "revoked", "gone"}]]
      BY <2>4, EndedIsTyped DEF RevokeToken
    <3>3. QED
      BY <2>4, <3>1, <3>2 DEF TypeOK, RevokeToken, lockVars, filingVars
  <2>5. ASSUME NEW s \in Session, NEW t \in Token, ReadToken(s, t)
        PROVE  TypeOK'
    BY <2>5 DEF TypeOK, ReadToken, lockVars, filingVars
  <2>6. ASSUME NEW s \in Session, OpenSession(s) \/ CloseSession(s)
        PROVE  TypeOK'
    BY <2>6 DEF TypeOK, OpenSession, CloseSession, lockVars, filingVars
  <2>7. ASSUME NEW roles \in [Person -> Roles], NEW owner \in [Token -> Person \cup {Nobody}],
               NEW of \in [Channel -> {{}} \cup {{l} : l \in Layer}], Import(roles, owner, of)
        PROVE  TypeOK'
    <3>1. \A r \in Roles : r \in [in : BOOLEAN, admin : BOOLEAN, disabled : BOOLEAN,
                                  groups : SUBSET Groups]
      <4>1. \A gs \in SUBSET Layer : gs \cup {Unrestricted} \in SUBSET Groups
        BY DEF Groups
      <4>2. \A gs \in SUBSET Groups, a \in BOOLEAN :
               Member(a, gs) \in [in : BOOLEAN, admin : BOOLEAN, disabled : BOOLEAN,
                                  groups : SUBSET Groups]
        BY DEF Member
      <4>3. Absent \in [in : BOOLEAN, admin : BOOLEAN, disabled : BOOLEAN, groups : SUBSET Groups]
        BY DEF Absent
      <4>4. TAKE r \in Roles
      <4>5. CASE r = Absent
        BY <4>3, <4>5
      <4>6. CASE \E gs \in SUBSET Groups : r = Member(FALSE, gs)
        BY <4>2, <4>6
      <4>7. CASE \E gs \in SUBSET Layer : r = Member(TRUE, gs \cup {Unrestricted})
        <5>1. PICK gs \in SUBSET Layer : r = Member(TRUE, gs \cup {Unrestricted})
          BY <4>7
        <5>2. gs \cup {Unrestricted} \in SUBSET Groups
          BY <4>1
        <5> QED
          BY <4>2, <5>1, <5>2
      <4>8. QED
        BY <4>5, <4>6, <4>7 DEF Roles
    <3>2. people' \in [Person -> [in : BOOLEAN, admin : BOOLEAN, disabled : BOOLEAN,
                                  groups : SUBSET Groups]]
      BY <2>7, <3>1 DEF Import
    <3>3. \A c \in Channel : of[c] \in SUBSET Layer
      OBVIOUS
    <3>4. channels' \in [Channel -> SUBSET Layer]
      BY <2>7, <3>3 DEF Import
    <3>5. groups' \subseteq Groups
      <4>1. ASSUME NEW g \in groups'
            PROVE  \/ g \in groups
                   \/ \E p \in Person : g \in roles[p].groups
                   \/ \E c \in Channel : g \in of[c]
        BY <2>7, <4>1 DEF Import
      <4>2. \A p \in Person : roles[p].groups \subseteq Groups
        BY <3>1
      <4>3. groups \subseteq Groups
        BY DEF TypeOK
      <4>4. \A c \in Channel : of[c] \subseteq Groups
        BY <3>3 DEF Groups
      <4>5. QED
        BY <4>1, <4>2, <4>3, <4>4
    <3>6. tokens' \in [Token -> [of : Person \cup {Nobody},
                                 state : {"none", "live", "revoked", "gone"}]]
      BY <2>7 DEF TypeOK, Import
    <3>7. QED
      BY <2>7, <3>2, <3>4, <3>5, <3>6 DEF TypeOK, Import, lockVars, filingVars
  <2>8. QED
    BY <1>10, <2>1, <2>2, <2>3, <2>4, <2>5, <2>6, <2>7 DEF Unlocked
<1>11. ASSUME Filing
       PROVE  TypeOK'
  <2>1. ASSUME NEW t \in Token, NEW l \in Layer, Route(t, l)
        PROVE  TypeOK'
    BY <2>1 DEF TypeOK, Route, rosterVars, lockVars
  <2>2. ASSUME Enqueue \/ Claim \/ Push \/ Land
        PROVE  TypeOK'
    <3>1. CASE Enqueue
      BY <3>1 DEF TypeOK, Enqueue, rosterVars, lockVars
    <3>2. CASE Claim
      BY <3>2 DEF TypeOK, Claim, rosterVars, lockVars
    <3>3. CASE Push
      BY <3>3 DEF TypeOK, Push, rosterVars, lockVars
    <3>4. CASE Land
      BY <3>4 DEF TypeOK, Land, rosterVars, lockVars
    <3> QED
      BY <2>2, <3>1, <3>2, <3>3, <3>4
  <2>3. ASSUME Report \/ Reindex
        PROVE  TypeOK'
    <3>1. index' \in [dirty : BOOLEAN, newer : BOOLEAN, has : BOOLEAN]
      <4>1. CASE Report
        BY <4>1 DEF TypeOK, Report
      <4>2. CASE Reindex
        BY <4>2 DEF Reindex
      <4>3. QED
        BY <2>3, <4>1, <4>2
    <3>2. UNCHANGED <<capture, slipped, rosterVars, lockVars>>
      BY <2>3 DEF Report, Reindex
    <3>3. QED
      BY <3>1, <3>2 DEF TypeOK, rosterVars, lockVars
  <2>4. QED
    BY <1>11, <2>1, <2>2, <2>3 DEF Filing
<1>12. QED
  BY <1>1, <1>2, <1>3, <1>4, <1>5, <1>6, <1>7, <1>8, <1>9, <1>10, <1>11 DEF Next, Edit

-----------------------------------------------------------------------------
(* Roster: what has been checked stays true until it is written.           *)

\* With the transaction of an edit that is under way, every one ends.
LEMMA NobodyIsLeft ==
    ASSUME RosterAssumption, RosterInv, NEW j \in Job, jobs[j] # Idle, EndsFor(j)
    PROVE  /\ \A k \in Job : jobs'[k] = Idle
           /\ shown' = {}
<1>1. \A k \in Job : k # j => jobs[k] = Idle
  BY DEF RosterInv, ChecksStand
<1>2. \A k \in Job : jobs'[k] = Idle
  BY <1>1 DEF EndsFor, RosterInv, TypeOK
<1>3. shown' = {}
  BY <1>1 DEF EndsFor, RosterInv, TypeOK, OnlyDropsLook, Holds
<1>4. QED
  BY <1>2, <1>3

\* Adding groups and taking away uses refuses nothing that was accepted.
LEMMA AcceptedStaysAccepted ==
    ASSUME TypeOK, NEW r \in Edits, Accepts(r),
           UNCHANGED people, groups \subseteq groups', 
           \A c \in Channel : channels'[c] \subseteq channels[c],
           r.op = "drop" => r.layer \in groups'
    PROVE  Accepts(r)'
<1>1. Admins' = Admins /\ \A p \in Person : AdminsLeft(p)' = AdminsLeft(p)
  BY DEF Admins, AdminsLeft, Standing
<1>2. Valid(r) => Valid(r)'
  BY DEF Valid
<1>3. r.op = "drop" => (~InUse(r.layer) => ~InUse(r.layer)')
  BY EditFields DEF InUse
<1>4. QED
  BY <1>1, <1>2, <1>3, EditFields DEF Accepts

LEMMA ChecksKept ==
    ASSUME RosterAssumption, RosterInv, Next
    PROVE  ChecksStand' /\ OnlyDropsLook'
<1> USE DEF RosterInv
<1>1. ASSUME NEW j \in Job, jobs[j] # Idle, EndsFor(j)
      PROVE  ChecksStand' /\ OnlyDropsLook'
  BY <1>1, NobodyIsLeft DEF ChecksStand, OnlyDropsLook
<1>2. ASSUME NEW j \in Job, NEW r \in Edits, Begin(j, r)
      PROVE  ChecksStand' /\ OnlyDropsLook'
  <2>1. lock = Nobody /\ lock' = j /\ shown' = shown
    BY <1>2 DEF Begin, TakesLock
  <2>2. \A k \in Job : jobs[k] = Idle
    BY <2>1, RosterAssumption DEF ChecksStand, RosterAssumption
  <2>3. \A k \in Job : jobs'[k] # Idle => k = j /\ jobs'[k] = r
    BY <1>2, <2>2 DEF Begin, TypeOK
  <2>4. Accepts(r)'
    BY <1>2 DEF Begin, rosterVars, Accepts, Valid, Admins, AdminsLeft, Standing, InUse
  <2>5. ChecksStand'
    BY <2>1, <2>3, <2>4 DEF ChecksStand
  <2>6. shown = {}
    BY <2>2 DEF OnlyDropsLook, Holds, TypeOK
  <2>7. QED
    BY <2>1, <2>5, <2>6 DEF OnlyDropsLook
<1>3. ASSUME NEW j \in Job, LookAtIndex(j)
      PROVE  ChecksStand' /\ OnlyDropsLook'
  <2>1. ChecksStand'
    BY <1>3 DEF LookAtIndex, rosterVars, ChecksStand, Accepts, Valid, Admins, AdminsLeft, Standing,
                InUse
  <2>2. OnlyDropsLook'
    BY <1>3 DEF LookAtIndex, OnlyDropsLook, Holds
  <2>3. QED
    BY <2>1, <2>2
<1>4. ASSUME UNCHANGED <<lock, jobs, shown, people>>, groups \subseteq groups',
             \A c \in Channel : channels'[c] \subseteq channels[c]
      PROVE  ChecksStand' /\ OnlyDropsLook'
  <2>1. OnlyDropsLook'
    BY <1>4 DEF OnlyDropsLook, Holds
  <2>2. ASSUME NEW j \in Job, jobs'[j] # Idle
        PROVE  lock' = j /\ Accepts(jobs[j])'
    <3>1. lock = j /\ Accepts(jobs[j]) /\ jobs[j] \in Edits
      BY <1>4, <2>2, HeldIsAnEdit DEF ChecksStand
    <3>2. jobs[j].op = "drop" => jobs[j].layer \in groups
      BY <3>1 DEF Accepts
    <3> DEFINE r == jobs[j]
    <3>3. jobs' = jobs
      BY <1>4
    <3>4. \A e \in Edits : Accepts(e) /\ (e.op = "drop" => e.layer \in groups) => Accepts(e)'
      BY <1>4, AcceptedStaysAccepted
    <3>5. PICK e \in Edits : e = jobs[j] /\ e = jobs'[j]
      BY <3>1, <3>3
    <3>6. Accepts(e)'
      BY <3>1, <3>2, <3>4, <3>5
    <3>7. QED
      BY <1>4, <3>1, <3>5, <3>6
  <2>3. ChecksStand'
    BY <1>4, <2>2 DEF ChecksStand
  <2>4. QED
    BY <2>1, <2>3
<1>5. ASSUME NEW roles, NEW owner, NEW of, Import(roles, owner, of)
      PROVE  ChecksStand' /\ OnlyDropsLook'
  <2>1. \A k \in Job : jobs[k] = Idle
    BY <1>5, RosterAssumption DEF Import, ChecksStand, RosterAssumption
  <2>2. jobs' = jobs /\ shown' = shown
    BY <1>5 DEF Import, lockVars
  <2>3. QED
    BY <2>1, <2>2 DEF ChecksStand, OnlyDropsLook, Holds, TypeOK
<1>6. ASSUME NEW j \in Job, Edit(j)
      PROVE  ChecksStand' /\ OnlyDropsLook'
  <2>1. CASE \E r \in Edits : Begin(j, r)
    BY <2>1, <1>2
  <2>2. CASE LookAtIndex(j)
    BY <2>2, <1>3
  <2>3. CASE ~(\E r \in Edits : Begin(j, r)) /\ ~LookAtIndex(j)
    <3>1. jobs[j] # Idle /\ EndsFor(j)
      BY <1>6, <2>3 DEF Edit, Abort, Create, Update, Bootstrap, SetDisabled, DeletePerson, SetChannel,
                        DropGroup, Holds
    <3>2. QED
      BY <1>1, <3>1
  <2>4. QED
    BY <2>1, <2>2, <2>3
<1>7. ASSUME Unlocked
      PROVE  ChecksStand' /\ OnlyDropsLook'
  <2>1. ASSUME NEW l \in Layer, CreateGroup(l)
        PROVE  ChecksStand' /\ OnlyDropsLook'
    BY <2>1, <1>4 DEF CreateGroup
  <2>2. ASSUME NEW c \in Channel, DeleteChannel(c)
        PROVE  ChecksStand' /\ OnlyDropsLook'
    BY <2>2, <1>4 DEF DeleteChannel, lockVars, TypeOK
  <2>3. ASSUME UNCHANGED <<people, groups, channels, lockVars>>
        PROVE  ChecksStand' /\ OnlyDropsLook'
    BY <2>3, <1>4 DEF lockVars
  <2>4. QED
    BY <1>5, <1>7, <2>1, <2>2, <2>3
       DEF Unlocked, IssueToken, RevokeToken, ReadToken, OpenSession, CloseSession
<1>8. ASSUME Filing
      PROVE  ChecksStand' /\ OnlyDropsLook'
  <2>1. UNCHANGED <<people, groups, channels, lock, jobs, shown>>
    BY <1>8 DEF Filing, Route, Enqueue, Claim, Push, Land, Report, Reindex, rosterVars, lockVars
  <2>2. QED
    BY <2>1, <1>4
<1>9. QED
  BY <1>6, <1>7, <1>8 DEF Next

-----------------------------------------------------------------------------
(* Roster: no group in use goes.                                           *)

LEMMA GroupsKept ==
    ASSUME RosterAssumption, RosterInv, Next
    PROVE  GroupsStand'
<1> USE DEF RosterInv
<1>1. ASSUME UNCHANGED <<people, groups, channels>>
      PROVE  GroupsStand'
  BY <1>1 DEF GroupsStand, GroupsInUseExist
<1>2. ASSUME NEW j \in Job, jobs[j] # Idle
      PROVE  jobs[j] \in Edits /\ Accepts(jobs[j])
  BY <1>2, HeldIsAnEdit DEF ChecksStand
<1>3. ASSUME NEW j \in Job, Create(j) \/ Update(j)
      PROVE  GroupsStand'
  <2>1. jobs[j].groups \subseteq groups
    BY <1>2, <1>3 DEF Create, Update, Holds, Accepts, Valid
  <2>2. \A p \in Person : people'[p].groups \in {people[p].groups, jobs[j].groups}
    BY <1>3, SMTT(30) DEF Create, Update, Member, TypeOK
  <2>3. QED
    BY <1>3, <2>1, <2>2 DEF Create, Update, GroupsStand, GroupsInUseExist
<1>4. ASSUME NEW j \in Job, NEW t \in Token, Bootstrap(j, t)
      PROVE  GroupsStand'
  <2>1. \A p \in Person : people'[p].groups \in {people[p].groups, {Unrestricted}}
    BY <1>4 DEF Bootstrap, Member, TypeOK
  <2>2. QED
    BY <1>4, <2>1 DEF Bootstrap, GroupsStand, GroupsInUseExist
<1>5. ASSUME NEW j \in Job, SetDisabled(j) \/ DeletePerson(j)
      PROVE  GroupsStand'
  <2>1. \A p \in Person : people'[p].groups \in {people[p].groups, {}}
    BY <1>5 DEF SetDisabled, DeletePerson, Absent, TypeOK
  <2>2. QED
    BY <1>5, <2>1 DEF SetDisabled, DeletePerson, GroupsStand, GroupsInUseExist
<1>6. ASSUME NEW j \in Job, SetChannel(j)
      PROVE  GroupsStand'
  <2>1. jobs[j].groups \subseteq groups
    BY <1>2, <1>6 DEF SetChannel, Holds, Accepts
  <2>2. \A c \in Channel : channels'[c] \in {channels[c], jobs[j].groups}
    BY <1>6 DEF SetChannel, TypeOK
  <2>3. QED
    BY <1>6, <2>1, <2>2 DEF SetChannel, GroupsStand, GroupsInUseExist
<1>7. ASSUME NEW j \in Job, DropGroup(j)
      PROVE  GroupsStand'
  <2>1. Holds(j, "drop")
    BY <1>7 DEF DropGroup
  <2>2. ~InUse(jobs[j].layer) /\ jobs[j].layer \in Layer
    BY <1>2, <2>1, EditFields DEF Holds, Accepts
  <2>3. QED
    BY <1>7, <2>2, RosterAssumption
       DEF DropGroup, InUse, GroupsStand, GroupsInUseExist, RosterAssumption
<1>8. ASSUME NEW l \in Layer, CreateGroup(l)
      PROVE  GroupsStand'
  BY <1>8 DEF CreateGroup, GroupsStand, GroupsInUseExist
<1>9. ASSUME NEW c \in Channel, DeleteChannel(c)
      PROVE  GroupsStand'
  BY <1>9 DEF DeleteChannel, GroupsStand, GroupsInUseExist, TypeOK
<1>10. ASSUME NEW roles, NEW owner, NEW of, Import(roles, owner, of)
       PROVE  GroupsStand'
  BY <1>10 DEF Import, GroupsStand, GroupsInUseExist
<1>11. QED
  <2>1. ASSUME NEW j \in Job, Edit(j)
        PROVE  GroupsStand'
    BY <1>1, <1>3, <1>4, <1>5, <1>6, <1>7, <2>1 DEF Edit, Begin, Abort, LookAtIndex, rosterVars
  <2>2. ASSUME Unlocked
        PROVE  GroupsStand'
    BY <1>1, <1>8, <1>9, <1>10, <2>2
       DEF Unlocked, IssueToken, RevokeToken, ReadToken, OpenSession, CloseSession
  <2>3. ASSUME Filing
        PROVE  GroupsStand'
    BY <1>1, <2>3 DEF Filing, Route, Enqueue, Claim, Push, Land, Report, Reindex, rosterVars
  <2>4. QED
    BY <2>1, <2>2, <2>3 DEF Next

-----------------------------------------------------------------------------
(* Roster: what was withdrawn stays so.                                    *)

LEMMA WithdrawnKept ==
    ASSUME RosterAssumption, RosterInv, Next
    PROVE  WithdrawnStays'
<1> USE DEF RosterInv
<1>1. ASSUME UNCHANGED <<tokens, sessions, barred>>
      PROVE  WithdrawnStays'
  BY <1>1 DEF WithdrawnStays
<1>2. ASSUME NEW j \in Job, NEW t \in Token, Bootstrap(j, t)
      PROVE  WithdrawnStays'
  <2>1. jobs[j].who \in Person
    BY <1>2, EditFields, HeldIsAnEdit DEF Bootstrap, Holds
  <2>2. QED
    BY <1>2, <2>1 DEF Bootstrap, WithdrawnStays, TypeOK
<1>3. ASSUME NEW j \in Job, SetDisabled(j)
      PROVE  WithdrawnStays'
  <2>1. CASE UNCHANGED <<sessions, barred>>
    BY <1>1, <1>3, <2>1 DEF SetDisabled
  <2>2. CASE ~UNCHANGED <<sessions, barred>>
    <3> DEFINE ss == RowsOf(jobs[j].who)
    <3>1. sessions' = Ended(ss, "revoked") /\ barred' = barred \cup ss /\ tokens' = tokens
      BY <1>3, <2>2 DEF SetDisabled
    <3>2. \A s \in ss : s \in Session /\ sessions[s].of \in Token /\ sessions[s].state # "opening"
      BY DEF RowsOf, TokensOf
    <3> HIDE DEF ss
    <3>3. \A s \in ss : sessions[s].state \in {"live", "revoked", "gone"}
      BY <3>2, RosterAssumption DEF WithdrawnStays, TypeOK, RosterAssumption
    <3>4. \A t \in barred' \cap Token : tokens'[t].state \in {"revoked", "gone"}
      BY <3>1, <3>2, RosterAssumption DEF WithdrawnStays, RosterAssumption
    <3>5. \A s \in barred' \cap Session : sessions'[s].state \in {"revoked", "gone"}
      BY <3>1, <3>2, <3>3, EndedIsTyped DEF WithdrawnStays
    <3>6. \A s \in Session : sessions'[s].state = "none" => sessions'[s].of = Nobody
      BY <3>1, EndedIsTyped DEF WithdrawnStays
    <3>7. QED
      BY <3>1, <3>4, <3>5, <3>6 DEF WithdrawnStays
  <2>3. QED
    BY <2>1, <2>2
<1>4. ASSUME NEW j \in Job, DeletePerson(j)
      PROVE  WithdrawnStays'
  <2> DEFINE w == jobs[j].who
  <2>1. \A t \in Token : IF t \in TokensOf(w) THEN tokens'[t].state = "gone"
                         ELSE tokens'[t] = tokens[t]
    BY <1>4 DEF DeletePerson
  <2>2. \A s \in Session : IF s \in RowsOf(w)
                           THEN sessions'[s].state = "gone" /\ sessions'[s].of = Nobody
                           ELSE sessions'[s] = sessions[s]
    BY <1>4 DEF DeletePerson
  <2>3. barred' = barred \cup TokensOf(w) \cup RowsOf(w)
    BY <1>4 DEF DeletePerson
  <2>4. TokensOf(w) \subseteq Token /\ RowsOf(w) \subseteq Session
    BY DEF TokensOf, RowsOf
  <2> HIDE DEF w
  <2>5. \A t \in barred' \cap Token : tokens'[t].state \in {"revoked", "gone"}
    BY <2>1, <2>3, <2>4, RosterAssumption DEF WithdrawnStays, RosterAssumption
  <2>6. \A s \in barred' \cap Session : sessions'[s].state \in {"revoked", "gone"}
    BY <2>2, <2>3, <2>4, RosterAssumption DEF WithdrawnStays, RosterAssumption
  <2>7. \A s \in Session : sessions'[s].state = "none" => sessions'[s].of = Nobody
    BY <2>2 DEF WithdrawnStays
  <2>8. QED
    BY <2>1, <2>5, <2>6, <2>7 DEF WithdrawnStays
<1>5. ASSUME NEW t \in Token, RevokeToken(t)
      PROVE  WithdrawnStays'
  <2> DEFINE ss == {s \in Session : sessions[s].of = t /\ sessions[s].state # "opening"}
  <2>1. sessions' = Ended(ss, "revoked") /\ barred' = barred \cup {t} \cup ss
    BY <1>5 DEF RevokeToken
  <2>2. \A s \in ss : s \in Session /\ sessions[s].of \in Token /\ sessions[s].state # "opening"
    OBVIOUS
  <2> HIDE DEF ss
  <2>3. \A s \in ss : sessions[s].state \in {"live", "revoked", "gone"}
    BY <2>2, RosterAssumption DEF WithdrawnStays, TypeOK, RosterAssumption
  <2>4. \A u \in Token : /\ tokens'[u].state = IF u = t THEN "revoked" ELSE tokens[u].state
                         /\ tokens'[u].of = tokens[u].of
    BY <1>5 DEF RevokeToken, TypeOK
  <2>5. \A u \in barred' \cap Token : tokens'[u].state \in {"revoked", "gone"}
    BY <2>1, <2>2, <2>4, RosterAssumption DEF WithdrawnStays, RosterAssumption
  <2>6. \A s \in barred' \cap Session : sessions'[s].state \in {"revoked", "gone"}
    BY <2>1, <2>2, <2>3, EndedIsTyped, RosterAssumption DEF WithdrawnStays, RosterAssumption
  <2>7. \A s \in Session : sessions'[s].state = "none" => sessions'[s].of = Nobody
    BY <2>1, EndedIsTyped DEF WithdrawnStays
  <2>8. QED
    BY <2>4, <2>5, <2>6, <2>7 DEF WithdrawnStays
<1>6. ASSUME NEW p \in Person, NEW t \in Token, IssueToken(p, t)
      PROVE  WithdrawnStays'
  BY <1>6 DEF IssueToken, WithdrawnStays, TypeOK
<1>7. ASSUME NEW s \in Session, NEW t \in Token, ReadToken(s, t)
      PROVE  WithdrawnStays'
  BY <1>7 DEF ReadToken, WithdrawnStays, TypeOK
<1>8. ASSUME NEW s \in Session, OpenSession(s)
      PROVE  WithdrawnStays'
  <2>1. tokens' = tokens /\ barred' = barred
    BY <1>8 DEF OpenSession
  <2>2. s \notin barred
    BY <1>8 DEF OpenSession, WithdrawnStays
  <2>3. sessions'[s].state \in {"live", "gone"}
    BY <1>8 DEF OpenSession, TypeOK
  <2>4. \A r \in Session : r # s => sessions'[r] = sessions[r]
    BY <1>8 DEF OpenSession, TypeOK
  <2>5. QED
    BY <2>1, <2>2, <2>3, <2>4 DEF WithdrawnStays
<1>9. ASSUME NEW s \in Session, CloseSession(s)
      PROVE  WithdrawnStays'
  BY <1>9, RosterAssumption DEF CloseSession, WithdrawnStays, TypeOK, RosterAssumption
<1>10. ASSUME NEW roles, NEW owner \in [Token -> Person \cup {Nobody}], NEW of,
              Import(roles, owner, of)
       PROVE  WithdrawnStays'
  <2>1. \A t \in Token : IF owner[t] = Nobody THEN tokens'[t] = tokens[t]
                         ELSE tokens[t].state = "none" /\ tokens'[t].of \in Person
    BY <1>10 DEF Import
  <2>2. UNCHANGED <<sessions, barred>>
    BY <1>10 DEF Import
  <2>3. QED
    BY <2>1, <2>2 DEF WithdrawnStays
<1>11. QED
  <2>1. ASSUME NEW j \in Job, Edit(j)
        PROVE  WithdrawnStays'
    BY <1>1, <1>2, <1>3, <1>4, <2>1
       DEF Edit, Begin, Abort, Create, Update, SetChannel, LookAtIndex, DropGroup, rosterVars
  <2>2. ASSUME Unlocked
        PROVE  WithdrawnStays'
    BY <1>1, <1>5, <1>6, <1>7, <1>8, <1>9, <1>10, <2>2 DEF Unlocked, CreateGroup, DeleteChannel
  <2>3. ASSUME Filing
        PROVE  WithdrawnStays'
    BY <1>1, <2>3 DEF Filing, Route, Enqueue, Claim, Push, Land, Report, Reindex, rosterVars
  <2>4. QED
    BY <2>1, <2>2, <2>3 DEF Next

-----------------------------------------------------------------------------
(* Roster: what lands in a layer has its group, or slipped past its        *)
(* deletion.                                                               *)

LEMMA LandingKept ==
    ASSUME RosterAssumption, RosterInv, Next
    PROVE  LandingStands'
<1> USE DEF RosterInv
<1>1. ASSUME UNCHANGED filingVars, groups \subseteq groups', UNCHANGED <<jobs, shown>>
      PROVE  LandingStands'
  BY <1>1 DEF filingVars, LandingStands
<1>2. ASSUME NEW j \in Job, jobs[j] # Idle, EndsFor(j), UNCHANGED filingVars, groups' = groups
      PROVE  LandingStands'
  BY <1>2, NobodyIsLeft DEF filingVars, LandingStands
<1>3. ASSUME NEW j \in Job, DropGroup(j)
      PROVE  LandingStands'
  <2>1. shown' = {}
    BY <1>3, NobodyIsLeft DEF DropGroup, Holds
  <2>2. groups' = groups \ {jobs[j].layer} /\ UNCHANGED filingVars /\ j \in shown
    BY <1>3 DEF DropGroup
  <2>3. capture.layer = jobs[j].layer /\ capture.state \in {"running", "pushed", "landed"} => slipped
    BY <1>3, <2>2 DEF DropGroup, Waits, LandingStands
  <2>4. QED
    BY <2>1, <2>2, <2>3 DEF filingVars, LandingStands
<1>4. ASSUME NEW j \in Job, LookAtIndex(j)
      PROVE  LandingStands'
  <2>1. capture.state = "landed" => jobs[j].layer # capture.layer
    BY <1>4 DEF LookAtIndex, LooksEmpty, Converged, LandingStands
  <2>2. shown' = shown \cup {j} /\ groups' = groups /\ jobs' = jobs /\ UNCHANGED filingVars
    BY <1>4 DEF LookAtIndex, rosterVars
  <2>3. QED
    BY <2>1, <2>2 DEF filingVars, LandingStands
<1>5. ASSUME NEW j \in Job, NEW r \in Edits, Begin(j, r)
      PROVE  LandingStands'
  <2>1. j \notin shown
    BY <1>5 DEF Begin, OnlyDropsLook, Holds
  <2>2. \A k \in shown : jobs'[k] = jobs[k]
    BY <1>5, <2>1 DEF Begin, TypeOK
  <2>3. QED
    BY <1>5, <2>2 DEF Begin, rosterVars, filingVars, LandingStands
<1>6. ASSUME NEW j \in Job, Edit(j)
      PROVE  LandingStands'
  <2>1. CASE LookAtIndex(j) \/ DropGroup(j) \/ \E r \in Edits : Begin(j, r)
    BY <1>3, <1>4, <1>5, <2>1
  <2>2. CASE ~(LookAtIndex(j) \/ DropGroup(j) \/ \E r \in Edits : Begin(j, r))
    <3>1. jobs[j] # Idle /\ EndsFor(j) /\ UNCHANGED filingVars /\ groups' = groups
      BY <1>6, <2>2 DEF Edit, Abort, Create, Update, Bootstrap, SetDisabled, DeletePerson, SetChannel,
                        Holds, rosterVars
    <3>2. QED
      BY <1>2, <3>1
  <2>3. QED
    BY <2>1, <2>2
<1>7. ASSUME Unlocked
      PROVE  LandingStands'
  <2>1. UNCHANGED filingVars /\ groups \subseteq groups' /\ UNCHANGED <<jobs, shown>>
    BY <1>7 DEF Unlocked, CreateGroup, DeleteChannel, IssueToken, RevokeToken, ReadToken, OpenSession,
                CloseSession, Import, lockVars
  <2>2. QED
    BY <1>1, <2>1
<1>8. ASSUME Filing
      PROVE  LandingStands'
  <2>1. UNCHANGED <<groups, jobs, shown, people>>
    BY <1>8 DEF Filing, Route, Enqueue, Claim, Push, Land, Report, Reindex, rosterVars, lockVars
  <2>2. ASSUME NEW t \in Token, NEW l \in Layer, Route(t, l)
        PROVE  LandingStands'
    BY <2>1, <2>2 DEF Route, LandingStands, TokenServes, WithdrawnStays
  <2>3. ASSUME Enqueue
        PROVE  LandingStands'
    BY <2>1, <2>3 DEF Enqueue, LandingStands, TypeOK
  <2>4. ASSUME Claim
        PROVE  LandingStands'
    <3>1. capture.layer = capture'.layer /\ slipped' = slipped
      BY <2>4 DEF Claim, TypeOK
    <3>2. CASE ~Publishes(capture.author, capture.layer)
      BY <2>1, <2>4, <3>2 DEF Claim, LandingStands, TypeOK
    <3>3. CASE Publishes(capture.author, capture.layer)
      <4>1. capture.layer \in groups
        BY <2>4, <3>3 DEF Claim, Publishes, GroupsStand, GroupsInUseExist, LandingStands
      <4>2. capture'.state = "running"
        BY <2>4, <3>3 DEF Claim, TypeOK
      <4>3. QED
        BY <2>1, <3>1, <4>1, <4>2 DEF LandingStands, TypeOK
    <3>4. QED
      BY <3>2, <3>3
  <2>5. ASSUME Push
        PROVE  LandingStands'
    BY <2>1, <2>5 DEF Push, LandingStands, TypeOK
  <2>6. ASSUME Land
        PROVE  LandingStands'
    <3>1. capture'.state = "landed" /\ capture'.layer = capture.layer /\ index'.newer
      BY <2>6 DEF Land, TypeOK
    <3>2. capture.layer \in groups \/ slipped
      BY <2>6 DEF Land, LandingStands
    <3>3. slipped' = (slipped \/ \E j \in shown : jobs[j].layer = capture.layer)
      BY <2>6 DEF Land
    <3>4. QED
      BY <2>1, <3>1, <3>2, <3>3 DEF LandingStands
  <2>7. ASSUME Report \/ Reindex
        PROVE  LandingStands'
    <3>1. UNCHANGED <<capture, slipped>>
      BY <2>7 DEF Report, Reindex
    <3>2. index.newer \/ index.has => index'.newer \/ index'.has
      BY <2>7 DEF Report, Reindex, TypeOK
    <3>3. QED
      BY <2>1, <3>1, <3>2 DEF LandingStands
  <2>8. QED
    BY <1>8, <2>2, <2>3, <2>4, <2>5, <2>6, <2>7 DEF Filing
<1>9. QED
  BY <1>6, <1>7, <1>8 DEF Next

-----------------------------------------------------------------------------
(* Roster: an administrator remains.                                       *)

LEMMA SomeoneAdministers ==
    ASSUME RosterAssumption, RosterInv, Next, Admins # {}
    PROVE  Admins' # {}
<1> USE DEF RosterInv
<1>1. ASSUME UNCHANGED people
      PROVE  Admins' # {}
  BY <1>1 DEF Admins, Standing
<1>2. ASSUME NEW w \in Person, AdminsLeft(w) # {} \/ w \notin Admins,
             \A p \in Person : p # w => people'[p] = people[p]
      PROVE  Admins' # {}
  <2>1. PICK a \in Admins : a # w
    BY <1>2 DEF AdminsLeft
  <2>2. QED
    BY <1>2, <2>1 DEF Admins, Standing
<1>3. ASSUME NEW j \in Job, Create(j) \/ SetDisabled(j) \/ DeletePerson(j)
      PROVE  Admins' # {}
  <2> DEFINE w == jobs[j].who
  <2>1. jobs[j] \in Edits /\ Accepts(jobs[j])
    BY <1>3, HeldIsAnEdit DEF Create, SetDisabled, DeletePerson, Holds, ChecksStand
  <2>2. w \in Person
    BY <1>3, <2>1, EditFields DEF Create, SetDisabled, DeletePerson, Holds
  <2>3. \A p \in Person : p # w => people'[p] = people[p]
    BY <1>3, <2>2 DEF Create, SetDisabled, DeletePerson, TypeOK
  <2>4. CASE jobs[j].op = "enable"
    <3>1. Admins \subseteq Admins'
      BY <1>3, <2>2, <2>4 DEF Create, SetDisabled, DeletePerson, Holds, Admins, Standing, TypeOK
    <3>2. QED
      BY <3>1
  <2>5. CASE jobs[j].op # "enable"
    <3>1. AdminsLeft(w) # {} \/ w \notin Admins
      BY <1>3, <2>1, <2>5 DEF Create, SetDisabled, DeletePerson, Holds, Accepts, Admins, Standing
    <3>2. QED
      BY <1>2, <2>2, <2>3, <3>1
  <2>6. QED
    BY <2>4, <2>5
<1>4. ASSUME NEW j \in Job, Update(j)
      PROVE  Admins' # {}
  <2> DEFINE w == jobs[j].who
  <2>1. jobs[j] \in Edits /\ Accepts(jobs[j]) /\ jobs[j].op = "update"
    BY <1>4, HeldIsAnEdit DEF Update, Holds, ChecksStand
  <2>2. w \in Person /\ jobs[j].admin \in BOOLEAN
    BY <2>1, EditFields
  <2>3. \A p \in Person : p # w => people'[p] = people[p]
    BY <1>4, <2>2 DEF Update, TypeOK
  <2>4. CASE w \in Admins /\ jobs[j].admin
    <3>1. w \in Admins'
      BY <1>4, <2>2, <2>4 DEF Update, Admins, Standing, TypeOK
    <3>2. QED
      BY <3>1
  <2>5. CASE ~(w \in Admins /\ jobs[j].admin)
    <3>1. AdminsLeft(w) # {} \/ w \notin Admins
      BY <2>1, <2>5 DEF Accepts, Admins
    <3>2. QED
      BY <1>2, <2>2, <2>3, <3>1
  <2>6. QED
    BY <2>4, <2>5
<1>5. ASSUME NEW j \in Job, NEW t \in Token, Bootstrap(j, t)
      PROVE  Admins' # {}
  <2>1. Accepts(jobs[j]) /\ jobs[j].op = "bootstrap"
    BY <1>5 DEF Bootstrap, Holds, ChecksStand
  <2>2. QED
    BY <2>1 DEF Accepts
<1>6. ASSUME NEW roles, NEW owner, NEW of, Import(roles, owner, of)
      PROVE  Admins' # {}
  BY <1>6 DEF Import, Admins, Standing
<1>7. QED
  <2>1. ASSUME NEW j \in Job, Edit(j)
        PROVE  Admins' # {}
    BY <1>1, <1>3, <1>4, <1>5, <2>1
       DEF Edit, Begin, Abort, SetChannel, LookAtIndex, DropGroup, rosterVars
  <2>2. ASSUME Unlocked
        PROVE  Admins' # {}
    BY <1>1, <1>6, <2>2
       DEF Unlocked, CreateGroup, DeleteChannel, IssueToken, RevokeToken, ReadToken, OpenSession,
           CloseSession
  <2>3. ASSUME Filing
        PROVE  Admins' # {}
    BY <1>1, <2>3 DEF Filing, Route, Enqueue, Claim, Push, Land, Report, Reindex, rosterVars
  <2>4. QED
    BY <2>1, <2>2, <2>3 DEF Next

-----------------------------------------------------------------------------
(* Roster: the invariant holds at the start and is kept.                   *)

LEMMA RosterStarts ==
    ASSUME RosterAssumption, Init
    PROVE  RosterInv
<1>1. TypeOK
  <2>1. people \in [Person -> [in : BOOLEAN, admin : BOOLEAN, disabled : BOOLEAN,
                               groups : SUBSET Groups]]
    BY DEF Init, Absent
  <2>2. groups \subseteq Groups /\ channels \in [Channel -> SUBSET Layer]
    BY DEF Init, Groups
  <2>3. tokens \in [Token -> [of : Person \cup {Nobody},
                              state : {"none", "live", "revoked", "gone"}]]
    BY DEF Init
  <2>4. sessions \in [Session -> [of : Token \cup {Nobody},
                                  state : {"none", "opening", "live", "revoked", "gone"}]]
    BY DEF Init
  <2>5. /\ lock \in Job \cup {Nobody} /\ jobs \in [Job -> Edits \cup {Idle}]
        /\ shown \subseteq Job /\ requests \in 0..MaxRequests
    BY RosterAssumption DEF Init, RosterAssumption
  <2>6. capture \in [state : {"none", "routed", "queued", "running", "pushed", "landed", "failed"},
                     author : Person \cup {Nobody}, layer : Layer \cup {Nobody}]
    BY DEF Init
  <2>7. /\ index \in [dirty : BOOLEAN, newer : BOOLEAN, has : BOOLEAN]
        /\ barred \subseteq Token \cup Session /\ slipped \in BOOLEAN
    BY DEF Init
  <2>8. QED
    BY <2>1, <2>2, <2>3, <2>4, <2>5, <2>6, <2>7 DEF TypeOK
<1>2. ChecksStand /\ OnlyDropsLook /\ LandingStands
  BY DEF Init, ChecksStand, OnlyDropsLook, LandingStands
<1>3. GroupsStand
  BY DEF Init, GroupsStand, GroupsInUseExist, Absent
<1>4. WithdrawnStays
  BY DEF Init, WithdrawnStays
<1>5. QED
  BY <1>1, <1>2, <1>3, <1>4 DEF RosterInv

LEMMA RosterKept ==
    ASSUME RosterAssumption, RosterInv, Next \/ UNCHANGED vars
    PROVE  RosterInv'
<1>1. CASE Next
  BY <1>1, RosterTypeKept, ChecksKept, GroupsKept, WithdrawnKept, LandingKept DEF RosterInv
<1>2. CASE UNCHANGED vars
  <2>1. TypeOK'
    BY <1>2 DEF vars, rosterVars, lockVars, filingVars, RosterInv, TypeOK
  <2>2. ChecksStand' /\ OnlyDropsLook'
    BY <1>2 DEF vars, rosterVars, lockVars, RosterInv, ChecksStand, OnlyDropsLook, Holds,
                Accepts, Valid, Admins, AdminsLeft, Standing, InUse
  <2>3. GroupsStand' /\ WithdrawnStays' /\ LandingStands'
    BY <1>2 DEF vars, rosterVars, lockVars, filingVars, RosterInv, GroupsStand, GroupsInUseExist,
                WithdrawnStays, LandingStands
  <2>4. QED
    BY <2>1, <2>2, <2>3 DEF RosterInv
<1>3. QED
  BY <1>1, <1>2

LEMMA RosterInvSuffices ==
    ASSUME RosterInv
    PROVE  GroupsAreReal /\ BarredNeverServes
<1>1. GroupsAreReal
  BY DEF RosterInv, GroupsStand, LandingStands, GroupsAreReal, DeletedLayerIsEmpty, Filed
<1>2. \A t \in barred \cap Token : ~TokenServes(t)
  BY DEF RosterInv, WithdrawnStays, TokenServes
<1>3. \A s \in barred \cap Session : ~SessionServes(s)
  BY DEF RosterInv, WithdrawnStays, SessionServes
<1>4. QED
  BY <1>1, <1>2, <1>3 DEF BarredNeverServes

-----------------------------------------------------------------------------
(* CaptureDoors: the inductive invariant.                                  *)

\* What is queued under a key, and what a delivery says.
Queued == [of : Requests, layer : Doors, seen : 0 .. MaxChanges, n : 0 .. MaxSends]
Calls == [pc : {"idle", "route", "read", "look", "store", "insert", "finalize"},
          of : Requests \cup {Unset}, n : 0 .. MaxSends, layer : Doors \cup {Unset},
          seen : 0 .. MaxChanges, answer : {"none", "refused", "receipt", "conflict", "lost"}]

DoorTypes ==
    /\ publishes \subseteq Doors /\ default \in Doors \cup {Unset} /\ closed \subseteq Doors
    /\ usedBy \in [Sessions -> Keys \cup {Unset}] /\ checked \subseteq Sessions
    /\ sends \in 0 .. MaxSends /\ changes \in 0 .. MaxChanges /\ version \in 0 .. changes
    /\ queue \in [Keys -> Queued \cup {Unset}]
    /\ call \in [Deliveries -> Calls]

\* A delivery past its routing has a layer, the one it names if it names one; a file goes its own way.
UnderWay(c) ==
    /\ c.of \in Requests
    /\ c.pc # "route" => /\ c.layer \in Doors
                         /\ Named[c.of] \in {Unset, c.layer}
                         /\ KindOf[c.of] = "file" <=> c.pc = "finalize"
    /\ KindOf[c.of] # "url" => c.seen = 0

\* A delivery is as it was routed, and one that was answered from the queue still finds there the row
\* that the answer is about.
Sound(c) ==
    /\ c.pc # "idle" => UnderWay(c)
    /\ c.pc = "idle" /\ c.answer \in {"receipt", "conflict"} =>
        c.of \in Requests /\ queue[KeyOf[c.of]] # Unset
    /\ c.pc = "idle" /\ c.answer = "receipt" =>
        /\ queue[KeyOf[c.of]].layer = c.layer
        /\ Says[queue[KeyOf[c.of]].of] = Says[c.of]
    /\ c.pc = "idle" /\ c.answer = "conflict" /\ KindOf[c.of] # "url" /\ Named[c.of] # Unset =>
        queue[KeyOf[c.of]].of # c.of

AllSound == \A d \in Deliveries : Sound(call[d])

\* What is queued is as it was routed too.
QueuedAsRouted ==
    \A k \in Keys : queue[k] # Unset =>
        /\ Named[queue[k].of] \in {Unset, queue[k].layer}
        /\ KindOf[queue[k].of] # "url" => queue[k].seen = 0

DoorsInv ==
    /\ DoorTypes
    /\ AllSound
    /\ QueuedAsRouted
    /\ UploadOfOneCapture

LEMMA DoorsInvSuffices ==
    ASSUME DoorsInv
    PROVE  KeyIsOneSubmission
<1>1. ReceiptIsYours
  BY DEF DoorsInv, AllSound, Sound, ReceiptIsYours, Answers, Row
<1>2. RepeatIsKnown
  BY DEF DoorsInv, AllSound, Sound, RepeatIsKnown, Answers, Row
<1>3. QED
  BY <1>1, <1>2 DEF DoorsInv, KeyIsOneSubmission

-----------------------------------------------------------------------------
(* CaptureDoors: lemmas about deliveries and rows.                         *)

\* Rows are only added.
RowsStay == \A k \in Keys : queue[k] # Unset => queue'[k] = queue[k]

\* A row is no missing row.
LEMMA EnvelopeIsARow ==
    ASSUME DoorsAssumption, NEW c \in Calls, UnderWay(c), c.pc # "route"
    PROVE  Envelope(c) \in Queued /\ Envelope(c) # Unset
BY DEF DoorsAssumption, Calls, UnderWay, Envelope, Queued

\* What was sound stays so while rows are only added.
LEMMA StillSound ==
    ASSUME DoorsAssumption, NEW c, Sound(c), RowsStay
    PROVE  Sound(c)'
BY DEF DoorsAssumption, Sound, RowsStay, UnderWay

\* When one delivery goes on, it is enough to look at that one.
LEMMA OneGoesOn ==
    ASSUME DoorsAssumption, DoorTypes, AllSound, NEW d \in Deliveries, NEW c,
           call' = [call EXCEPT ![d] = c], Sound(c)', RowsStay
    PROVE  AllSound'
<1>1. \A e \in Deliveries : call'[e] = IF e = d THEN c ELSE call[e]
  BY DEF DoorTypes
<1>2. ASSUME NEW e \in Deliveries
      PROVE  Sound(call[e])'
  <2>1. CASE e = d
    BY <1>1, <2>1 DEF Sound
  <2>2. CASE e # d
    <3>1. PICK f : f = call[e] /\ f = call'[e]
      BY <1>1, <2>2
    <3>2. Sound(f)
      BY <3>1 DEF AllSound
    <3>3. Sound(f)'
      BY <3>2, StillSound
    <3>4. QED
      BY <3>1, <3>3 DEF Sound
  <2>3. QED
    BY <2>1, <2>2
<1>3. QED
  BY <1>2 DEF AllSound

\* What a delivery is when it has been answered.
Closed(c, what) == [c EXCEPT !.pc = "idle", !.answer = what, !.n = 0, !.seen = 0]

LEMMA ClosedFields ==
    ASSUME DoorsAssumption, NEW c \in Calls,
           NEW what \in {"none", "refused", "receipt", "conflict", "lost"}
    PROVE  /\ Closed(c, what) \in Calls
           /\ Closed(c, what).pc = "idle" /\ Closed(c, what).answer = what
           /\ Closed(c, what).of = c.of /\ Closed(c, what).layer = c.layer
<1> DEFINE c1 == [c EXCEPT !.pc = "idle"]
           c2 == [c1 EXCEPT !.answer = what]
           c3 == [c2 EXCEPT !.n = 0]
           c4 == [c3 EXCEPT !.seen = 0]
<1>1. Closed(c, what) = c4
  BY DEF Closed
<1>2. c1 \in Calls /\ c1.pc = "idle" /\ c1.of = c.of /\ c1.layer = c.layer
  BY DEF Calls
<1> HIDE DEF c1
<1>3. c2 \in Calls /\ c2.pc = "idle" /\ c2.answer = what /\ c2.of = c.of /\ c2.layer = c.layer
  BY <1>2 DEF Calls
<1> HIDE DEF c2
<1>4. c3 \in Calls /\ c3.pc = "idle" /\ c3.answer = what /\ c3.of = c.of /\ c3.layer = c.layer
  BY <1>3, DoorsAssumption DEF Calls, DoorsAssumption
<1> HIDE DEF c3
<1>5. c4 \in Calls /\ c4.pc = "idle" /\ c4.answer = what /\ c4.of = c.of /\ c4.layer = c.layer
  BY <1>4, DoorsAssumption DEF Calls, DoorsAssumption
<1> HIDE DEF c4
<1>6. QED
  BY <1>1, <1>5

\* A refusal and a lost answer are about no row.
LEMMA TurnedAway ==
    ASSUME DoorsAssumption, DoorTypes, AllSound, NEW d \in Deliveries,
           NEW what \in {"refused", "lost"}, Answered(d, what), RowsStay
    PROVE  call' \in [Deliveries -> Calls] /\ AllSound'
<1>1. PICK c : c = Closed(call[d], what)
  OBVIOUS
<1>2. call[d] \in Calls
  BY DEF DoorTypes
<1>3. c \in Calls /\ c.pc = "idle" /\ c.answer = what
  BY <1>1, <1>2, ClosedFields
<1>4. call' = [call EXCEPT ![d] = c]
  BY <1>1 DEF Answered, Closed
<1>5. Sound(c)'
  BY <1>3 DEF Sound
<1>6. call' \in [Deliveries -> Calls]
  BY <1>3, <1>4 DEF DoorTypes
<1>7. QED
  BY <1>4, <1>5, <1>6, OneGoesOn

\* A delivery whose key has a row is answered from it: with a receipt if the row is this submission,
\* and with a conflict if it is another.
LEMMA AnsweredFromTheRow ==
    ASSUME DoorsAssumption, DoorTypes, AllSound, QueuedAsRouted, NEW d \in Deliveries,
           call[d].pc \notin {"idle", "route"}, Row(d) # Unset, RowsStay, Known(d)
    PROVE  call' \in [Deliveries -> Calls] /\ AllSound'
<1> DEFINE what == IF Same(Row(d), Envelope(call[d])) THEN "receipt" ELSE "conflict"
<1>1. PICK c : c = Closed(call[d], what)
  OBVIOUS
<1>2. call[d] \in Calls /\ UnderWay(call[d])
  BY DEF DoorTypes, AllSound, Sound
<1>3. PICK k \in Keys : k = KeyOf[call[d].of]
  BY <1>2 DEF UnderWay, DoorsAssumption
<1>4. Row(d) = queue[k] /\ queue'[k] = queue[k] /\ queue[k] \in Queued
  BY <1>3 DEF Row, RowsStay, DoorTypes
<1>5. /\ c \in Calls /\ c.pc = "idle" /\ c.answer = what
      /\ c.of = call[d].of /\ c.layer = call[d].layer
  BY <1>1, <1>2, ClosedFields
<1>6. call' = [call EXCEPT ![d] = c]
  BY <1>1 DEF Known, Answered, Closed
<1>7. CASE Same(Row(d), Envelope(call[d]))
  <2>1. queue[k].layer = c.layer /\ Says[queue[k].of] = Says[c.of]
    BY <1>4, <1>5, <1>7 DEF Same, Envelope
  <2>2. Sound(c)'
    BY <1>2, <1>3, <1>4, <1>5, <1>7, <2>1 DEF Sound, UnderWay
  <2>3. QED
    BY <1>5, <1>6, <2>2, OneGoesOn DEF DoorTypes
<1>8. CASE ~Same(Row(d), Envelope(call[d]))
  <2>1. ASSUME KindOf[c.of] # "url", Named[c.of] # Unset, queue[k].of = c.of
        PROVE  FALSE
    <3>1. queue[k].layer = c.layer
      BY <1>2, <1>4, <1>5, <2>1 DEF QueuedAsRouted, UnderWay
    <3>2. queue[k].seen = 0 /\ call[d].seen = 0
      BY <1>2, <1>4, <1>5, <2>1 DEF QueuedAsRouted, UnderWay
    <3>3. QED
      BY <1>4, <1>5, <1>8, <2>1, <3>1, <3>2 DEF Same, Envelope
  <2>2. Sound(c)'
    BY <1>2, <1>3, <1>4, <1>5, <1>8, <2>1 DEF Sound, UnderWay
  <2>3. QED
    BY <1>5, <1>6, <2>2, OneGoesOn DEF DoorTypes
<1>9. QED
  BY <1>7, <1>8

\* The parts of the invariant that a step keeps which leaves the rows and the uploads alone.
LEMMA RowsUntouched ==
    ASSUME DoorsInv, UNCHANGED <<scene, queue, usedBy>>, checked \subseteq checked',
           checked' \subseteq Sessions, UNCHANGED version, sends' \in 0 .. MaxSends,
           call' \in [Deliveries -> Calls]
    PROVE  DoorTypes' /\ QueuedAsRouted' /\ UploadOfOneCapture' /\ RowsStay
<1>1. DoorTypes'
  BY DEF DoorsInv, DoorTypes, scene
<1>2. QueuedAsRouted' /\ RowsStay
  BY DEF DoorsInv, QueuedAsRouted, RowsStay
<1>3. UploadOfOneCapture'
  BY DEF DoorsInv, UploadOfOneCapture
<1>4. QED
  BY <1>1, <1>2, <1>3

\* A delivery that goes on and leaves the rows and the uploads alone.
LEMMA GoesOn ==
    ASSUME DoorsAssumption, DoorsInv, NEW d \in Deliveries, NEW c \in Calls, UnderWay(c),
           c.pc # "idle", call' = [call EXCEPT ![d] = c],
           UNCHANGED <<scene, queue, usedBy>>, checked \subseteq checked',
           checked' \subseteq Sessions, sends' \in 0 .. MaxSends
    PROVE  DoorsInv'
<1>1. call' \in [Deliveries -> Calls]
  BY DEF DoorsInv, DoorTypes
<1>2. DoorTypes' /\ QueuedAsRouted' /\ UploadOfOneCapture' /\ RowsStay
  BY <1>1, RowsUntouched DEF scene
<1>3. Sound(c)'
  BY DEF Sound, UnderWay
<1>4. AllSound'
  BY <1>2, <1>3, OneGoesOn DEF DoorsInv
<1>5. QED
  BY <1>2, <1>4 DEF DoorsInv

\* A delivery that is turned away or lost.
LEMMA EndsUnanswered ==
    ASSUME DoorsAssumption, DoorsInv, NEW d \in Deliveries, NEW what \in {"refused", "lost"},
           Answered(d, what), UNCHANGED <<scene, queue, usedBy, checked, sends>>
    PROVE  DoorsInv'
<1>1. RowsStay
  BY DEF RowsStay
<1>2. call' \in [Deliveries -> Calls] /\ AllSound'
  BY <1>1, TurnedAway DEF DoorsInv
<1>3. checked \subseteq Sessions /\ sends \in 0 .. MaxSends
  BY DEF DoorsInv, DoorTypes
<1>4. DoorTypes' /\ QueuedAsRouted' /\ UploadOfOneCapture'
  BY <1>2, <1>3, RowsUntouched DEF scene
<1>5. QED
  BY <1>2, <1>4 DEF DoorsInv

\* A delivery that finds its key taken.
LEMMA EndsKnown ==
    ASSUME DoorsAssumption, DoorsInv, NEW d \in Deliveries,
           call[d].pc \notin {"idle", "route"}, Row(d) # Unset, Known(d),
           UNCHANGED <<scene, queue, usedBy, checked, sends>>
    PROVE  DoorsInv'
<1>1. RowsStay
  BY DEF RowsStay
<1>2. call' \in [Deliveries -> Calls] /\ AllSound'
  BY <1>1, AnsweredFromTheRow DEF DoorsInv
<1>3. checked \subseteq Sessions /\ sends \in 0 .. MaxSends
  BY DEF DoorsInv, DoorTypes
<1>4. DoorTypes' /\ QueuedAsRouted' /\ UploadOfOneCapture'
  BY <1>2, <1>3, RowsUntouched DEF scene
<1>5. QED
  BY <1>2, <1>4 DEF DoorsInv

\* What a delivery says while it is under way.
LEMMA CallIsTyped ==
    ASSUME DoorsInv, NEW d \in Deliveries
    PROVE  /\ call[d] \in Calls
           /\ call[d].pc # "idle" => UnderWay(call[d])
           /\ checked \subseteq Sessions /\ sends \in 0 .. MaxSends
BY DEF DoorsInv, DoorTypes, AllSound, Sound

-----------------------------------------------------------------------------
(* CaptureDoors: one lemma for each step of a delivery.                    *)

LEMMA ArrivalKeeps ==
    ASSUME DoorsAssumption, DoorsInv, NEW d \in Deliveries, NEW r \in Requests,
           Send(d, r) \/ SendFromBackOffice(d, r)
    PROVE  DoorsInv'
<1>1. /\ UNCHANGED <<scene, queue, usedBy, checked>>
      /\ checked \subseteq Sessions /\ sends' \in 0 .. MaxSends /\ sends + 1 \in 0 .. MaxSends
  BY CallIsTyped, DoorsAssumption DEF Send, SendFromBackOffice, Arrives, DoorsAssumption
<1>2. PICK a : a = Arrived(r)
  OBVIOUS
<1>3. a \in Calls /\ a.of = r /\ a.seen = 0 /\ a.layer = Unset
  <2> DEFINE a1 == [NoCall EXCEPT !.of = r]
             a2 == [a1 EXCEPT !.n = sends + 1]
  <2>1. a = a2
    BY <1>2 DEF Arrived
  <2>2. a1 \in Calls /\ a1.of = r /\ a1.seen = 0 /\ a1.layer = Unset
    BY DoorsAssumption DEF NoCall, Calls, DoorsAssumption
  <2> HIDE DEF a1
  <2>3. a2 \in Calls /\ a2.of = r /\ a2.seen = 0 /\ a2.layer = Unset
    BY <1>1, <2>2 DEF Calls
  <2>4. QED
    BY <2>1, <2>3
<1>4. CASE Send(d, r)
  <2>1. PICK c : c = [a EXCEPT !.pc = "route"]
    OBVIOUS
  <2>2. c \in Calls /\ c.pc = "route" /\ c.of = r /\ c.seen = 0
    BY <1>3, <2>1 DEF Calls
  <2>3. UnderWay(c)
    BY <2>2 DEF UnderWay
  <2>4. call' = [call EXCEPT ![d] = c]
    BY <1>2, <1>4, <2>1 DEF Send
  <2>5. QED
    BY <1>1, <2>2, <2>3, <2>4, GoesOn
<1>5. CASE SendFromBackOffice(d, r)
  <2>1. PICK layer : layer = IF Named[r] = Unset THEN default ELSE Named[r]
    OBVIOUS
  <2>2. CASE layer \in publishes
    <3>1. layer \in Doors
      BY <2>2 DEF DoorsInv, DoorTypes
    <3>2. PICK b : b = [a EXCEPT !.pc = "read"]
      OBVIOUS
    <3>3. b \in Calls /\ b.pc = "read" /\ b.of = r /\ b.seen = 0
      BY <1>3, <3>2 DEF Calls
    <3>4. PICK c : c = [b EXCEPT !.layer = layer]
      OBVIOUS
    <3>5. c \in Calls /\ c.pc = "read" /\ c.of = r /\ c.seen = 0 /\ c.layer = layer
      BY <3>1, <3>3, <3>4 DEF Calls
    <3>6. KindOf[r] # "file"
      BY <1>5, DoorsAssumption DEF SendFromBackOffice, DoorsAssumption
    <3>7. UnderWay(c)
      BY <2>1, <3>1, <3>5, <3>6 DEF UnderWay
    <3>8. call' = [call EXCEPT ![d] = c]
      BY <1>2, <1>5, <2>1, <2>2, <3>2, <3>4 DEF SendFromBackOffice
    <3>9. QED
      BY <1>1, <3>5, <3>7, <3>8, GoesOn
  <2>3. CASE layer \notin publishes
    <3>1. PICK c : c = [NoCall EXCEPT !.of = r, !.answer = "refused"]
      OBVIOUS
    <3>2. c \in Calls /\ c.pc = "idle" /\ c.answer = "refused"
      <4> DEFINE b == [NoCall EXCEPT !.of = r]
      <4>1. b \in Calls /\ b.pc = "idle"
        BY DoorsAssumption DEF NoCall, Calls, DoorsAssumption
      <4>2. c = [b EXCEPT !.answer = "refused"]
        BY <3>1
      <4> HIDE DEF b
      <4>3. QED
        BY <4>1, <4>2 DEF Calls
    <3>3. call' = [call EXCEPT ![d] = c]
      BY <1>5, <2>1, <2>3, <3>1 DEF SendFromBackOffice
    <3>4. call' \in [Deliveries -> Calls]
      BY <3>2, <3>3 DEF DoorsInv, DoorTypes
    <3>5. DoorTypes' /\ QueuedAsRouted' /\ UploadOfOneCapture' /\ RowsStay
      BY <1>1, <3>4, RowsUntouched DEF scene
    <3>6. Sound(c)'
      BY <3>2 DEF Sound
    <3>7. AllSound'
      BY <3>3, <3>5, <3>6, OneGoesOn DEF DoorsInv
    <3>8. QED
      BY <3>5, <3>7 DEF DoorsInv
  <2>4. QED
    BY <2>2, <2>3
<1>6. QED
  BY <1>4, <1>5

LEMMA RoutingKeeps ==
    ASSUME DoorsAssumption, DoorsInv, NEW d \in Deliveries, RouteRequest(d)
    PROVE  DoorsInv'
<1>1. call[d] \in Calls /\ UnderWay(call[d]) /\ call[d].pc = "route"
  BY CallIsTyped DEF RouteRequest
<1>2. UNCHANGED <<scene, queue, usedBy, sends>> /\ checked \subseteq Sessions /\ sends \in 0 .. MaxSends
  BY CallIsTyped DEF RouteRequest
<1>3. CASE Routes(call[d].of) = {}
  BY <1>2, <1>3, EndsUnanswered DEF RouteRequest
<1>4. CASE Routes(call[d].of) # {}
  <2>1. PICK l \in Routes(call[d].of) :
           call' = [call EXCEPT ![d].layer = l,
                                ![d].pc = IF KindOf[call[d].of] = "file" THEN "finalize" ELSE "read"]
    BY <1>4 DEF RouteRequest
  <2>2. l \in Doors /\ Named[call[d].of] \in {Unset, l}
    BY DEF Routes, Candidates, DoorsInv, DoorTypes
  <2>3. PICK pc : pc = IF KindOf[call[d].of] = "file" THEN "finalize" ELSE "read"
    OBVIOUS
  <2>4. PICK b : b = [call[d] EXCEPT !.layer = l]
    OBVIOUS
  <2>5. b \in Calls /\ b.of = call[d].of /\ b.layer = l /\ b.seen = call[d].seen
    BY <1>1, <2>2, <2>4 DEF Calls
  <2>6. PICK c : c = [b EXCEPT !.pc = pc]
    OBVIOUS
  <2>7. c \in Calls /\ c.pc = pc /\ c.of = call[d].of /\ c.layer = l /\ c.seen = call[d].seen
    BY <2>3, <2>5, <2>6 DEF Calls
  <2>8. UnderWay(c) /\ c.pc # "idle"
    BY <1>1, <2>2, <2>3, <2>7 DEF UnderWay
  <2>9. call' = [call EXCEPT ![d] = c]
    BY <2>1, <2>3, <2>4, <2>6 DEF DoorsInv, DoorTypes
  <2>10. checked \subseteq checked' /\ checked' \subseteq Sessions
    BY <1>1, <1>2, <1>4 DEF RouteRequest, UnderWay, Sessions
  <2>11. QED
    BY <1>2, <2>7, <2>8, <2>9, <2>10, GoesOn
<1>5. QED
  BY <1>3, <1>4

LEMMA ReadingKeeps ==
    ASSUME DoorsAssumption, DoorsInv, NEW d \in Deliveries, Read(d)
    PROVE  DoorsInv'
<1>1. call[d] \in Calls /\ UnderWay(call[d]) /\ call[d].pc = "read"
  BY CallIsTyped DEF Read
<1>2. /\ UNCHANGED <<scene, queue, usedBy, checked, sends>>
      /\ checked \subseteq Sessions /\ sends \in 0 .. MaxSends
  BY CallIsTyped DEF Read
<1>3. PICK b : b = [call[d] EXCEPT !.pc = "look"]
  OBVIOUS
<1>4. b \in Calls /\ b.pc = "look" /\ UnderWay(b) /\ b.of = call[d].of
  BY <1>1, <1>3 DEF Calls, UnderWay
<1>5. CASE Answered(d, "refused")
  BY <1>2, <1>5, EndsUnanswered
<1>6. CASE call' = [call EXCEPT ![d].pc = "look"]
  <2>1. call' = [call EXCEPT ![d] = b]
    BY <1>3, <1>6
  <2>2. QED
    BY <1>2, <1>4, <2>1, GoesOn
<1>7. CASE KindOf[call[d].of] = "url" /\ call' = [call EXCEPT ![d].pc = "look", ![d].seen = version]
  <2>1. version \in 0 .. MaxChanges
    BY DoorsAssumption DEF DoorsInv, DoorTypes, DoorsAssumption
  <2>2. PICK c : c = [b EXCEPT !.seen = version]
    OBVIOUS
  <2>3. c \in Calls /\ c.pc = "look" /\ c.of = b.of /\ c.layer = b.layer
    BY <1>4, <2>1, <2>2 DEF Calls
  <2>4. UnderWay(c)
    BY <1>4, <1>7, <2>3 DEF UnderWay
  <2>5. call' = [call EXCEPT ![d] = c]
    BY <1>3, <1>7, <2>2 DEF DoorsInv, DoorTypes
  <2>6. QED
    BY <1>2, <2>3, <2>4, <2>5, GoesOn
<1>8. QED
  BY <1>5, <1>6, <1>7 DEF Read

LEMMA LookingKeeps ==
    ASSUME DoorsAssumption, DoorsInv, NEW d \in Deliveries, Look(d)
    PROVE  DoorsInv'
<1>1. call[d] \in Calls /\ UnderWay(call[d]) /\ call[d].pc \in {"look", "store"}
  BY CallIsTyped DEF Look
<1>2. /\ UNCHANGED <<scene, queue, usedBy, checked, sends>>
      /\ checked \subseteq Sessions /\ sends \in 0 .. MaxSends
  BY CallIsTyped DEF Look
<1>3. CASE Erasing(d)
  BY <1>2, <1>3, EndsUnanswered DEF Look
<1>4. CASE ~Erasing(d) /\ Row(d) # Unset
  BY <1>1, <1>2, <1>4, EndsKnown DEF Look
<1>5. CASE ~Erasing(d) /\ Row(d) = Unset
  <2>1. PICK pc : pc = IF call[d].pc = "look" THEN "store" ELSE "insert"
    OBVIOUS
  <2>2. PICK c : c = [call[d] EXCEPT !.pc = pc]
    OBVIOUS
  <2>3. c \in Calls /\ c.pc # "idle" /\ UnderWay(c)
    BY <1>1, <2>1, <2>2 DEF Calls, UnderWay
  <2>4. call' = [call EXCEPT ![d] = c]
    BY <1>5, <2>1, <2>2 DEF Look
  <2>5. QED
    BY <1>2, <2>3, <2>4, GoesOn
<1>6. QED
  BY <1>3, <1>4, <1>5

\* The row is this delivery's own.
LEMMA InsertionKeeps ==
    ASSUME DoorsAssumption, DoorsInv, NEW d \in Deliveries, Insert(d)
    PROVE  DoorsInv'
<1>1. call[d] \in Calls /\ UnderWay(call[d]) /\ call[d].pc = "insert"
  BY CallIsTyped DEF Insert
<1>2. CASE Row(d) # Unset
  BY <1>1, <1>2, EndsKnown DEF Insert, Lost
<1>3. CASE Row(d) = Unset
  <2>1. UNCHANGED <<scene, usedBy, checked, sends>>
    BY DEF Insert
  <2>2. PICK k \in Keys : k = KeyOf[call[d].of]
    BY <1>1, DoorsAssumption DEF UnderWay, DoorsAssumption
  <2>3. PICK e : e = Envelope(call[d])
    OBVIOUS
  <2>4. e \in Queued /\ e # Unset
    BY <1>1, <2>3, EnvelopeIsARow
  <2>5. queue[k] = Unset /\ queue' = [queue EXCEPT ![k] = e] /\ Answered(d, "receipt")
    BY <1>3, <2>2, <2>3 DEF Insert, Row
  <2>6. queue' \in [Keys -> Queued \cup {Unset}] /\ queue'[k] = e
        /\ \A q \in Keys : q # k => queue'[q] = queue[q]
    BY <2>4, <2>5 DEF DoorsInv, DoorTypes
  <2>7. RowsStay
    BY <2>5, <2>6 DEF RowsStay
  <2>8. PICK c : c = Closed(call[d], "receipt")
    OBVIOUS
  <2>9. c \in Calls /\ c.pc = "idle" /\ c.answer = "receipt" /\ c.of = call[d].of
        /\ c.layer = call[d].layer
    BY <1>1, <2>8, ClosedFields
  <2>10. call' = [call EXCEPT ![d] = c]
    BY <2>5, <2>8 DEF Answered, Closed
  <2>11. e.of = c.of /\ e.layer = c.layer /\ e.seen = call[d].seen
    BY <2>3, <2>9 DEF Envelope
  <2>12. Sound(c)'
    BY <1>1, <2>2, <2>4, <2>6, <2>9, <2>11 DEF Sound, UnderWay
  <2>13. AllSound'
    BY <2>7, <2>10, <2>12, OneGoesOn DEF DoorsInv
  <2>14. DoorTypes'
    BY <2>1, <2>6, <2>9, <2>10 DEF DoorsInv, DoorTypes, scene
  <2>15. QueuedAsRouted'
    BY <1>1, <2>6, <2>9, <2>11 DEF DoorsInv, QueuedAsRouted, UnderWay
  <2>16. UploadOfOneCapture'
    BY <1>1, <2>1, <2>6, <2>9, <2>11 DEF DoorsInv, UploadOfOneCapture, UnderWay
  <2>17. QED
    BY <2>13, <2>14, <2>15, <2>16 DEF DoorsInv
<1>4. QED
  BY <1>2, <1>3

\* One transaction: the row, unless it is there, and its upload.
LEMMA FinalizingKeeps ==
    ASSUME DoorsAssumption, DoorsInv, NEW d \in Deliveries, FinalizeUpload(d)
    PROVE  DoorsInv'
<1>1. /\ call[d] \in Calls /\ UnderWay(call[d]) /\ call[d].pc = "finalize"
      /\ checked \subseteq Sessions
  BY CallIsTyped DEF FinalizeUpload
<1>2. UNCHANGED <<scene, sends>>
  BY DEF FinalizeUpload
<1>3. PICK k \in Keys : k = KeyOf[call[d].of]
  BY <1>1, DoorsAssumption DEF UnderWay, DoorsAssumption
<1>4. PICK u \in Sessions : u = UploadOf[call[d].of]
  BY <1>1, DoorsAssumption DEF UnderWay, Sessions, DoorsAssumption
<1>5. PICK e : e = Envelope(call[d])
  OBVIOUS
<1>6. e \in Queued /\ e # Unset /\ e.of = call[d].of /\ e.layer = call[d].layer /\ e.seen = call[d].seen
  <2>1. e \in Queued /\ e # Unset
    BY <1>1, <1>5, EnvelopeIsARow
  <2>2. QED
    BY <1>5, <2>1 DEF Envelope
<1>7. Row(d) = queue[k]
  BY <1>3 DEF Row
<1>8. CASE ~Erasing(d) /\ (Row(d) = Unset \/ Same(Row(d), e)) /\ MayUse(u, k)
  <2>1. /\ queue' = [queue EXCEPT ![k] = IF queue[k] = Unset THEN e ELSE queue[k]]
        /\ usedBy' = [usedBy EXCEPT ![u] = k]
        /\ checked' = checked \cup {u}
        /\ Answered(d, "receipt")
    BY <1>3, <1>4, <1>5, <1>8 DEF FinalizeUpload
  <2>2. /\ queue' \in [Keys -> Queued \cup {Unset}]
        /\ queue'[k] = IF queue[k] = Unset THEN e ELSE queue[k]
        /\ \A q \in Keys : q # k => queue'[q] = queue[q]
    BY <1>6, <2>1 DEF DoorsInv, DoorTypes
  <2>3. RowsStay
    BY <2>2 DEF RowsStay
  <2>4. PICK c : c = Closed(call[d], "receipt")
    OBVIOUS
  <2>5. c \in Calls /\ c.pc = "idle" /\ c.answer = "receipt" /\ c.of = call[d].of
        /\ c.layer = call[d].layer
    BY <1>1, <2>4, ClosedFields
  <2>6. call' = [call EXCEPT ![d] = c]
    BY <2>1, <2>4 DEF Answered, Closed
  <2>7. queue'[k].layer = c.layer /\ Says[queue'[k].of] = Says[c.of] /\ queue'[k] # Unset
    <3>1. CASE queue[k] = Unset
      BY <1>6, <2>2, <2>5, <3>1
    <3>2. CASE queue[k] # Unset
      BY <1>6, <1>7, <1>8, <2>2, <2>5, <3>2 DEF Same
    <3>3. QED
      BY <3>1, <3>2
  <2>8. Sound(c)'
    BY <1>1, <1>3, <2>5, <2>7 DEF Sound, UnderWay
  <2>9. AllSound'
    BY <2>3, <2>6, <2>8, OneGoesOn DEF DoorsInv
  <2>10. DoorTypes'
    <3>1. usedBy' \in [Sessions -> Keys \cup {Unset}] /\ checked' \subseteq Sessions
      BY <1>1, <2>1 DEF DoorsInv, DoorTypes
    <3>2. call' \in [Deliveries -> Calls]
      BY <2>5, <2>6 DEF DoorsInv, DoorTypes
    <3>3. QED
      BY <1>2, <2>2, <3>1, <3>2 DEF DoorsInv, DoorTypes, scene
  <2>11. QueuedAsRouted'
    BY <1>1, <1>6, <2>2 DEF DoorsInv, QueuedAsRouted, UnderWay
  <2>12. ASSUME NEW q \in Keys, queue'[q] # Unset, KindOf[queue'[q].of] = "file"
         PROVE  usedBy'[UploadOf[queue'[q].of]] = q /\ UploadOf[queue'[q].of] \in checked'
    <3>1. CASE queue[q] = Unset
      <4>1. q = k /\ queue'[q] = e
        BY <2>2, <2>12, <3>1
      <4>2. QED
        BY <1>4, <1>6, <2>1, <4>1 DEF DoorsInv, DoorTypes
    <3>2. CASE queue[q] # Unset
      <4>1. PICK v : v = UploadOf[queue[q].of]
        OBVIOUS
      <4>2. queue'[q] = queue[q] /\ queue[q].of \in Requests
        BY <2>2, <3>2 DEF DoorsInv, DoorTypes, Queued
      <4>3. usedBy[v] = q /\ v \in checked /\ v \in Sessions
        BY <1>1, <2>12, <3>2, <4>1, <4>2 DEF DoorsInv, UploadOfOneCapture
      <4>4. v = u => q = k
        BY <1>8, <4>3, DoorsAssumption DEF MayUse, DoorsAssumption
      <4>5. usedBy'[v] = q
        BY <2>1, <4>3, <4>4 DEF DoorsInv, DoorTypes
      <4>6. QED
        BY <2>1, <4>1, <4>2, <4>3, <4>5
    <3>3. QED
      BY <3>1, <3>2
  <2>13. UploadOfOneCapture'
    BY <2>12 DEF UploadOfOneCapture
  <2>14. QED
    BY <2>9, <2>10, <2>11, <2>13 DEF DoorsInv
<1>9. CASE ~(~Erasing(d) /\ (Row(d) = Unset \/ Same(Row(d), e)) /\ MayUse(u, k))
  <2>1. UNCHANGED <<scene, queue, usedBy, checked, sends>>
    BY <1>2, <1>3, <1>4, <1>5, <1>9 DEF FinalizeUpload
  <2>2. CASE Answered(d, "refused")
    BY <2>1, <2>2, EndsUnanswered
  <2>3. CASE ~Answered(d, "refused")
    <3>1. Row(d) # Unset /\ ~Same(Row(d), e) /\ Answered(d, "conflict")
      BY <1>3, <1>4, <1>5, <1>9, <2>3 DEF FinalizeUpload
    <3>2. Known(d)
      BY <1>5, <3>1 DEF Known
    <3>3. QED
      BY <1>1, <2>1, <3>1, <3>2, EndsKnown
  <2>4. QED
    BY <2>2, <2>3
<1>10. QED
  BY <1>8, <1>9

\* What changes on its own is not what has been queued or answered.
LEMMA ChangeKeeps ==
    ASSUME DoorsAssumption, DoorsInv, Change
    PROVE  DoorsInv'
<1>1. UNCHANGED <<queue, usedBy, checked, call, sends>>
  BY DEF Change
<1>2. /\ publishes' \subseteq Doors /\ default' \in Doors \cup {Unset} /\ closed' \subseteq Doors
      /\ changes' \in 0 .. MaxChanges /\ version' \in 0 .. changes'
  <2>1. changes' = changes + 1 /\ changes < MaxChanges
    BY DEF Change
  <2>2. changes' \in 0 .. MaxChanges
    BY <2>1, DoorsAssumption DEF DoorsInv, DoorTypes, DoorsAssumption
  <2>3. CASE publishes' \in SUBSET Doors /\ default' \in publishes' \cup {Unset}
             /\ UNCHANGED <<version, closed>>
    BY <2>1, <2>2, <2>3, DoorsAssumption DEF DoorsInv, DoorTypes, DoorsAssumption
  <2>4. CASE version' = version + 1 /\ UNCHANGED <<publishes, default, closed>>
    BY <2>1, <2>2, <2>4, DoorsAssumption DEF DoorsInv, DoorTypes, DoorsAssumption
  <2>5. CASE closed' \subseteq Doors /\ UNCHANGED <<publishes, default, version>>
    BY <2>1, <2>2, <2>5, DoorsAssumption DEF DoorsInv, DoorTypes, DoorsAssumption
  <2>6. \A l \in Doors : (closed \ {l}) \subseteq Doors /\ (closed \cup {l}) \subseteq Doors
    BY DEF DoorsInv, DoorTypes
  <2>7. QED
    BY <2>3, <2>4, <2>5, <2>6 DEF Change
<1>3. DoorTypes'
  BY <1>1, <1>2 DEF DoorsInv, DoorTypes
<1>4. AllSound'
  BY <1>1 DEF DoorsInv, AllSound, Sound, UnderWay
<1>5. QueuedAsRouted' /\ UploadOfOneCapture'
  BY <1>1 DEF DoorsInv, QueuedAsRouted, UploadOfOneCapture
<1>6. QED
  BY <1>3, <1>4, <1>5 DEF DoorsInv

LEMMA DoorsStart ==
    ASSUME DoorsAssumption, DoorsInit \/ Unvisited
    PROVE  DoorsInv
<1>1. /\ queue = [k \in Keys |-> Unset] /\ usedBy = [u \in Sessions |-> Unset] /\ checked = {}
      /\ call = [d \in Deliveries |-> NoCall] /\ sends = 0 /\ changes = 0
      /\ version = 0 /\ closed = {}
  BY DEF DoorsInit, Unvisited
<1>2. publishes \subseteq Doors /\ default \in Doors \cup {Unset}
  BY DoorsAssumption DEF DoorsInit, Unvisited, DoorsAssumption
<1>3. NoCall \in Calls
  BY DoorsAssumption DEF NoCall, Calls, DoorsAssumption
<1>4. DoorTypes
  BY <1>1, <1>2, <1>3, DoorsAssumption DEF DoorTypes, DoorsAssumption
<1>5. AllSound
  BY <1>1 DEF AllSound, Sound, NoCall
<1>6. QueuedAsRouted /\ UploadOfOneCapture
  BY <1>1 DEF QueuedAsRouted, UploadOfOneCapture
<1>7. QED
  BY <1>4, <1>5, <1>6 DEF DoorsInv

LEMMA DoorsKept ==
    ASSUME DoorsAssumption, DoorsInv, DoorsNext \/ UNCHANGED doorVars
    PROVE  DoorsInv'
<1>1. CASE DoorsNext
  <2>1. ASSUME NEW d \in Deliveries, Drop(d)
        PROVE  DoorsInv'
    BY <2>1, EndsUnanswered DEF Drop
  <2>2. QED
    BY <1>1, <2>1, ArrivalKeeps, RoutingKeeps, ReadingKeeps, LookingKeeps, InsertionKeeps,
       FinalizingKeeps, ChangeKeeps DEF DoorsNext
<1>2. CASE UNCHANGED doorVars
  BY <1>2 DEF doorVars, DoorsInv, DoorTypes, AllSound, Sound, UnderWay, QueuedAsRouted,
              UploadOfOneCapture
<1>3. QED
  BY <1>1, <1>2

-----------------------------------------------------------------------------
(* Theorems.                                                               *)

\* Both parts keep their invariants, each while the other stands still.
LEMMA ServerKept ==
    ASSUME RosterAssumption, DoorsAssumption, RosterInv, DoorsInv, [ServerNext]_serverVars
    PROVE  RosterInv' /\ DoorsInv'
<1>1. (Next \/ UNCHANGED vars) /\ (DoorsNext \/ UNCHANGED doorVars)
  BY DEF ServerNext, serverVars
<1>2. QED
  BY <1>1, RosterKept, DoorsKept

LEMMA ServerInvariant == ServerSpec => [](RosterInv /\ DoorsInv)
<1>1. ServerInit => RosterInv /\ DoorsInv
  BY RosterAssumption, DoorsAssumption, RosterStarts, DoorsStart DEF ServerInit
<1>2. (RosterInv /\ DoorsInv) /\ [ServerNext]_serverVars => (RosterInv /\ DoorsInv)'
  BY RosterAssumption, DoorsAssumption, ServerKept
<1>3. QED
  BY <1>1, <1>2, PTL DEF ServerSpec

\* Whatever edits meet, no person and no channel names a group that is gone, and the layer of a
\* deleted group holds no knowledge but what landed between the two looks of its deletion
\* (server/roster.py:448-491, knowledge/writer.py:812-817).
THEOREM NoGroupInUseGoes == ServerSpec => []GroupsAreReal
<1>1. RosterInv => GroupsAreReal
  BY RosterInvSuffices
<1>2. QED
  BY <1>1, ServerInvariant, PTL

\* A token or session that was withdrawn never serves again (server/roster.py:364-366, 604-626).
THEOREM WithdrawnStaysWithdrawn == ServerSpec => []BarredNeverServes
<1>1. RosterInv => BarredNeverServes
  BY RosterInvSuffices
<1>2. QED
  BY <1>1, ServerInvariant, PTL

\* No step of any two edits takes the last administrator (server/roster.py:295-306, 335-336).
THEOREM LastAdministratorStays == ServerSpec => AnAdministratorRemains
<1>1. RosterInv /\ [ServerNext]_serverVars => [Admins # {} => Admins' # {}]_vars
  <2>1. ASSUME RosterInv, Next, Admins # {}
        PROVE  Admins' # {}
    BY <2>1, RosterAssumption, SomeoneAdministers
  <2>2. QED
    BY <2>1 DEF ServerNext, serverVars
<1>2. QED
  BY <1>1, ServerInvariant, PTL DEF ServerSpec, AnAdministratorRemains

\* However many deliveries of however many requests share keys and uploads, a receipt names what was
\* sent, a repetition is known, and an upload is of one capture (capture/queue.py:184-246,
\* capture/uploads.py:204-228).
THEOREM AKeyIsOneSubmission == ServerSpec => []KeyIsOneSubmission
<1>1. DoorsInv => KeyIsOneSubmission
  BY DoorsInvSuffices
<1>2. QED
  BY <1>1, ServerInvariant, PTL
=============================================================================
