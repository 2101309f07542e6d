------------------------------- MODULE Refile -------------------------------
(***************************************************************************)
(* An operator refiles a workspace into a fresh one and hands its people    *)
(* over (ops/replay_workspace.py), while people contribute, delete sources  *)
(* and open sessions, and a writer files what is queued.                    *)
(*                                                                         *)
(* Export and handover are one look at the database each; an import is a    *)
(* statement at a time, may stop anywhere and may be run again.  The order  *)
(* in which captures are queued, layers, display names and the audit are    *)
(* left out; deletions of workspaces are WorkspaceLife's.                   *)
(*                                                                         *)
(* A definition introduced as a SLIP is a plausible mistake in the action  *)
(* it names; it is no part of the specification.                           *)
(***************************************************************************)
EXTENDS Naturals, FiniteSets

CONSTANTS
    Spaces,      \* workspaces
    Captured,       \* what is captured: the original capture and its refiled copies
    Staff,       \* subjects
    WriterOf,    \* the author of each text
    Founder,     \* the first administrator of every workspace
    Bearers,     \* tokens
    HolderOf,    \* whose each token is
    First,       \* the workspace that has been in use from the start
    NoSpace,
    Procedure,   \* whether the operator follows docs/OPERATIONS.md: suspended from export to handover
    MaxExports,  \* bound: exports
    MaxChoices   \* bound: suspensions, resumptions, disabled people, stopped imports, retries

ASSUME RefileAssumption ==
    /\ WriterOf \in [Captured -> Staff] /\ HolderOf \in [Bearers -> Staff]
    /\ Founder \in Staff /\ First \in Spaces /\ NoSpace \notin Spaces
    /\ Procedure \in BOOLEAN
    /\ MaxExports \in Nat /\ MaxChoices \in Nat

VARIABLES
    standing, \* tenants.status
    filed,    \* capture_queue and capture_artifacts, per workspace and text
    enabled,  \* roster_principals that are enabled
    known,    \* roster_principals
    home,     \* roster_tokens.tenant_id
    session,  \* roster_sessions.tenant_id of the session opened with each token
    opening,  \* a session about to be opened in the workspace its token was found in
    flight,   \* captures a door has authenticated and not queued yet
    export,   \* the exported file
    import,   \* the import under way: into which workspace, and what is left to queue
    held,     \* history: the exported workspace has stayed suspended since
    handed,   \* history: the last handover, and what it was told to leave behind
    crossed,  \* history: tokens that were moved while a session was opened with them
    exports, choices

rowVars == <<filed, flight>>
peopleVars == <<enabled, known>>
loginVars == <<home, session, opening, crossed>>
fileVars == <<export, held, import, handed, exports>>
refileVars == <<standing, rowVars, peopleVars, loginVars, fileVars, choices>>

\* A text in a workspace: its operation, the workspace whose row its key names, and the deletion of
\* its source.
Nothing == [at |-> "none", of |-> NoSpace, deletion |-> "none"]
InQueue == {"queued", "processing"}
Live(w, c) == filed[w][c].deletion # "done"
Exportable(w, c) == filed[w][c].at = "landed" /\ Live(w, c)
Unfinished(w) == \E c \in Captured : filed[w][c].at \in InQueue \/ filed[w][c].deletion \in InQueue
NoFile == [from |-> NoSpace, texts |-> {}, people |-> {}]
NoImport == [to |-> NoSpace, checked |-> FALSE, left |-> {}]
NoHandover == [from |-> NoSpace, to |-> NoSpace, forward |-> FALSE, accepted |-> {}]
Choice == choices < MaxChoices /\ choices' = choices + 1

RefileTypeOK ==
    /\ standing \in [Spaces -> {"active", "suspended"}]
    /\ filed \in [Spaces -> [Captured -> [at : {"none", "queued", "processing", "landed", "failed"},
                                       of : Spaces \cup {NoSpace},
                                       deletion : {"none", "queued", "processing", "done"}]]]
    /\ enabled \in [Spaces -> SUBSET Staff] /\ known \in [Spaces -> SUBSET Staff]
    /\ home \in [Bearers -> Spaces] /\ session \in [Bearers -> Spaces \cup {NoSpace}]
    /\ opening \in [Bearers -> Spaces \cup {NoSpace}]
    /\ flight \in SUBSET (Spaces \X Captured)
    /\ export \in [from : Spaces \cup {NoSpace}, texts : SUBSET Captured, people : SUBSET Staff]
    /\ import \in [to : Spaces \cup {NoSpace}, checked : BOOLEAN, left : SUBSET Captured]
    /\ held \in BOOLEAN
    /\ handed \in [from : Spaces \cup {NoSpace}, to : Spaces \cup {NoSpace}, forward : BOOLEAN,
                   accepted : SUBSET Captured]
    /\ crossed \subseteq Bearers
    /\ exports \in 0 .. MaxExports /\ choices \in 0 .. MaxChoices

RefileInit ==
    /\ standing = [w \in Spaces |-> "active"]
    /\ filed = [w \in Spaces |-> [c \in Captured |-> Nothing]]
    /\ known = [w \in Spaces |-> IF w = First THEN Staff ELSE {Founder}]
    /\ enabled = known
    /\ home = [t \in Bearers |-> First]
    /\ session = [t \in Bearers |-> NoSpace] /\ opening = session
    /\ flight = {} /\ export = NoFile /\ held = FALSE /\ import = NoImport
    /\ handed = NoHandover /\ crossed = {}
    /\ exports = 0 /\ choices = 0
-----------------------------------------------------------------------------
(* The operator's console, and the people of a workspace *)

Suspend(w) ==
    /\ standing[w] = "active" /\ Choice
    /\ standing' = [standing EXCEPT ![w] = "suspended"]
    /\ UNCHANGED <<rowVars, peopleVars, loginVars, fileVars>>

\* A resumed workspace is no longer one that was handed over.
Resume(w) ==
    /\ standing[w] = "suspended" /\ Choice
    /\ standing' = [standing EXCEPT ![w] = "active"]
    /\ held' = (held /\ export.from # w)
    /\ handed' = IF handed.from = w THEN NoHandover ELSE handed
    /\ UNCHANGED <<rowVars, peopleVars, loginVars, export, import, exports>>

Disable(w, p) ==
    /\ p \in enabled[w] \ {Founder} /\ Choice
    /\ enabled' = [enabled EXCEPT ![w] = @ \ {p}]
    /\ UNCHANGED <<standing, rowVars, known, loginVars, fileVars>>

\* A request is authenticated in an active workspace, by a token that lives there ...
Admitted(w, c) ==
    /\ standing[w] = "active" /\ WriterOf[c] \in enabled[w]
    /\ \E t \in Bearers : HolderOf[t] = WriterOf[c] /\ home[t] = w
    /\ \A v \in Spaces : filed[v][c] = Nothing /\ <<v, c>> \notin flight
    /\ flight' = flight \cup {<<w, c>>}
    /\ UNCHANGED <<standing, filed, peopleVars, loginVars, fileVars, choices>>

\* ... and queued a moment later, whatever became of the workspace.
QueueOwn(w, c) ==
    /\ <<w, c>> \in flight
    /\ flight' = flight \ {<<w, c>>}
    /\ filed' = [filed EXCEPT ![w][c].at = "queued"]
    /\ UNCHANGED <<standing, peopleVars, loginVars, fileVars, choices>>

DeleteSource(w, c) ==
    /\ standing[w] = "active" /\ Exportable(w, c) /\ filed[w][c].deletion = "none"
    /\ filed' = [filed EXCEPT ![w][c].deletion = "queued"]
    /\ UNCHANGED <<standing, flight, peopleVars, loginVars, fileVars, choices>>

\* principal_for_token: the token is found in an active workspace ...
FindToken(t) ==
    /\ standing[home[t]] = "active" /\ HolderOf[t] \in enabled[home[t]]
    /\ opening[t] = NoSpace /\ session[t] = NoSpace
    /\ opening' = [opening EXCEPT ![t] = home[t]]
    /\ UNCHANGED <<standing, rowVars, peopleVars, home, session, crossed, fileVars, choices>>

\* ... and open_session writes the session there.
OpenSession(t) ==
    /\ opening[t] # NoSpace
    /\ session' = [session EXCEPT ![t] = opening[t]]
    /\ opening' = [opening EXCEPT ![t] = NoSpace]
    /\ UNCHANGED <<standing, rowVars, peopleVars, home, crossed, fileVars, choices>>
-----------------------------------------------------------------------------
(* The writer: one operation at a time, in active workspaces *)

Free == \A w \in Spaces, c \in Captured :
            filed[w][c].at # "processing" /\ filed[w][c].deletion # "processing"

ClaimWork(w, c) ==
    /\ standing[w] = "active" /\ Free
    /\ \/ filed[w][c].at = "queued" /\ filed' = [filed EXCEPT ![w][c].at = "processing"]
       \/ filed[w][c].deletion = "queued"
          /\ filed' = [filed EXCEPT ![w][c].deletion = "processing"]
    /\ UNCHANGED <<standing, flight, peopleVars, loginVars, fileVars, choices>>

SettleCapture(w, c) ==
    /\ filed[w][c].at = "processing"
    /\ \/ filed' = [filed EXCEPT ![w][c].at = "landed"] /\ UNCHANGED choices
       \/ \E outcome \in {"queued", "failed"} :
              filed' = [filed EXCEPT ![w][c].at = outcome] /\ Choice
    /\ UNCHANGED <<standing, flight, peopleVars, loginVars, fileVars>>

\* The back office tries a failed capture again.
RetryFailed(w, c) ==
    /\ standing[w] = "active" /\ filed[w][c].at = "failed" /\ Choice
    /\ filed' = [filed EXCEPT ![w][c].at = "queued"]
    /\ UNCHANGED <<standing, flight, peopleVars, loginVars, fileVars>>

SettleDeletion(w, c) ==
    /\ filed[w][c].deletion = "processing"
    /\ \/ filed' = [filed EXCEPT ![w][c].deletion = "done"] /\ UNCHANGED choices
       \/ filed' = [filed EXCEPT ![w][c].deletion = "queued"] /\ Choice
    /\ UNCHANGED <<standing, flight, peopleVars, loginVars, fileVars>>
-----------------------------------------------------------------------------
(* replay_workspace *)

\* SLIP of Export: what the writer is filing is not waited for.
ExportQueued(w) ==
    /\ exports < MaxExports /\ (Procedure => standing[w] = "suspended")
    /\ \A c \in Captured : filed[w][c].at # "queued" /\ filed[w][c].deletion # "queued"
    /\ import = NoImport
    /\ export' = [from |-> w, texts |-> {c \in Captured : Exportable(w, c)}, people |-> enabled[w]]
    /\ held' = (standing[w] = "suspended")
    /\ exports' = exports + 1
    /\ UNCHANGED <<standing, rowVars, peopleVars, loginVars, import, handed, choices>>

\* export: nothing waits, and the landed captures whose source nobody deleted.
Export(w) ==
    /\ exports < MaxExports /\ (Procedure => standing[w] = "suspended")
    /\ ~Unfinished(w)
    /\ import = NoImport
    /\ export' = [from |-> w, texts |-> {c \in Captured : Exportable(w, c)}, people |-> enabled[w]]
    /\ held' = (standing[w] = "suspended")
    /\ exports' = exports + 1
    /\ UNCHANGED <<standing, rowVars, peopleVars, loginVars, import, handed, choices>>

\* What the target holds is of this file: its rows, and its people.
OwnRows(d) == {c \in Captured : filed[d][c].at # "none"
                             /\ ~(filed[d][c].of = export.from /\ c \in export.texts)}

\* SLIP of CheckFresh: copies refiled from anywhere are taken for this file's.
CheckOwnOnly(d) ==
    /\ \A c \in Captured : filed[d][c].at # "none" => filed[d][c].of # NoSpace
    /\ known[d] \subseteq export.people

CheckFresh(d) == OwnRows(d) = {} /\ known[d] \subseteq export.people

\* import_, as far as it only reads: an active workspace that holds nothing else.
BeginImport(d) ==
    /\ export # NoFile /\ import = NoImport /\ (Procedure => held)
    /\ standing[d] = "active" /\ d # export.from
    /\ \A c \in export.texts : WriterOf[c] \in export.people
    /\ CheckFresh(d)
    /\ import' = [to |-> d, checked |-> FALSE, left |-> export.texts]
    /\ UNCHANGED <<standing, rowVars, peopleVars, loginVars, export, held, handed, exports, choices>>

\* People are created or updated, and nobody is enabled again.
ImportPeople ==
    /\ import # NoImport /\ ~import.checked /\ (Procedure => held)
    /\ LET d == import.to
       IN /\ known' = [known EXCEPT ![d] = @ \cup export.people]
          /\ enabled' = [enabled EXCEPT ![d] = @ \cup (export.people \ known[d])]
    /\ import' = [import EXCEPT !.checked = TRUE]
    /\ UNCHANGED <<standing, rowVars, loginVars, export, held, handed, exports, choices>>

\* enqueue_capture under replay-<original id>: a row that is there is left as it is.
ImportCapture(c) ==
    /\ import.checked /\ c \in import.left /\ (Procedure => held)
    /\ LET d == import.to
       IN filed' = IF filed[d][c].at = "none"
                   THEN [filed EXCEPT ![d][c] = [Nothing EXCEPT !.at = "queued", !.of = export.from]]
                   ELSE filed
    /\ import' = [import EXCEPT !.left = @ \ {c}]
    /\ UNCHANGED <<standing, flight, peopleVars, loginVars, export, held, handed, exports, choices>>

EndImport ==
    /\ import # NoImport
    /\ IF import.checked /\ import.left = {} THEN UNCHANGED choices ELSE Choice
    /\ import' = NoImport
    /\ UNCHANGED <<standing, rowVars, peopleVars, loginVars, export, held, handed, exports>>

\* SLIP of Unlanded: a row of the target counts wherever it stands.
UnlandedRows(s, d) ==
    {c \in Captured : Exportable(s, c) /\ filed[s][c].of = NoSpace
                   /\ ~(filed[d][c].at # "none" /\ filed[d][c].of = s)}

\* The captures people made in the source that its target has not landed: what was itself refiled
\* into the source has a key that begins with replay- and is not counted.
Unlanded(s, d) ==
    {c \in Captured : Exportable(s, c) /\ filed[s][c].of = NoSpace
                   /\ ~(filed[d][c].at = "landed" /\ filed[d][c].of = s)}

Movable(s, d) ==
    {t \in Bearers : home[t] = s /\ HolderOf[t] \in enabled[s] \cap enabled[d]}

\* SLIP of MoveLogins: the sessions stay behind.
MoveTokens(moved, d) ==
    /\ home' = [t \in Bearers |-> IF t \in moved THEN d ELSE home[t]]
    /\ UNCHANGED session

MoveLogins(moved, d) ==
    /\ home' = [t \in Bearers |-> IF t \in moved THEN d ELSE home[t]]
    /\ session' = [t \in Bearers |-> IF t \in moved /\ session[t] # NoSpace THEN d ELSE session[t]]

\* Suspended since its export; the other way round it is a roll back.
Forward(s) == s = export.from /\ held

\* handover: the operator names how many it leaves behind, and the source is suspended.
Handover(s, d) ==
    /\ s # d /\ standing[d] = "active" /\ import = NoImport
    /\ Procedure => Forward(s) \/ d = export.from
    /\ \A c \in Captured : filed[d][c].at \notin InQueue /\ filed[d][c].deletion \notin InQueue
    /\ Movable(s, d) # {}
    /\ MoveLogins(Movable(s, d), d)
    /\ crossed' = crossed \cup {t \in Movable(s, d) : opening[t] # NoSpace}
    /\ standing' = [standing EXCEPT ![s] = "suspended"]
    /\ handed' = [from |-> s, to |-> d, forward |-> Forward(s), accepted |-> Unlanded(s, d)]
    /\ UNCHANGED <<rowVars, peopleVars, opening, export, held, import, exports, choices>>
-----------------------------------------------------------------------------
RefileNext ==
    \/ \E w \in Spaces : Suspend(w) \/ Resume(w) \/ Export(w) \/ BeginImport(w)
    \/ \E w \in Spaces, p \in Staff : Disable(w, p)
    \/ \E w \in Spaces, c \in Captured :
           \/ Admitted(w, c) \/ QueueOwn(w, c) \/ DeleteSource(w, c)
           \/ ClaimWork(w, c) \/ SettleCapture(w, c) \/ RetryFailed(w, c)
           \/ SettleDeletion(w, c)
    \/ \E t \in Bearers : FindToken(t) \/ OpenSession(t)
    \/ ImportPeople \/ EndImport
    \/ \E c \in Captured : ImportCapture(c)
    \/ \E s, d \in Spaces : Handover(s, d)

RefileSpec == RefileInit /\ [][RefileNext]_refileVars
-----------------------------------------------------------------------------
\* replay_workspace.py:156-194: when the people of a workspace have been handed over, what they had
\* landed in it is landed where they are now, or the operator was told that it is not; nothing lands
\* behind them.
NothingLandsBehind ==
    handed.forward =>
        \A c \in Captured : Exportable(handed.from, c) /\ filed[handed.from][c].of = NoSpace
            => filed[handed.to][c].at = "landed" \/ c \in handed.accepted

\* replay_workspace.py:16, 73-81: a capture whose source a person deleted is not filed again.
DeletedIsNotRefiled ==
    [][\A w \in Spaces, c \in Captured :
          filed[w][c].at = "none" /\ filed'[w][c].of # NoSpace => Live(filed'[w][c].of, c)]_refileVars

\* replay_workspace.py:124-131: whatever stops an import and is run again, a workspace is refiled from
\* one other.
OneOrigin ==
    \A w \in Spaces, a, b \in Captured :
        filed[w][a].of # NoSpace /\ filed[w][b].of # NoSpace => filed[w][a].of = filed[w][b].of

\* replay_workspace.py:184-193: a session lives where its token does, and so reads one workspace; the
\* one opened with a token while it is moved stays behind.
SessionFollowsItsToken ==
    \A t \in Bearers : session[t] # NoSpace => session[t] = home[t] \/ t \in crossed

\* A handover takes people along whole: with what they landed, from one workspace, and into one.
HandoverIsWhole ==
    /\ NothingLandsBehind
    /\ OneOrigin
    /\ SessionFollowsItsToken
-----------------------------------------------------------------------------
(* What the code does not keep, which no run checks (README, section 5) *)

\* docs/OPERATIONS.md:124-125: what was refiled into the source itself is exported like the rest, and
\* its landing in the next workspace is never asked about.
EveryExportedLanded ==
    handed.forward =>
        \A c \in Captured : Exportable(handed.from, c)
            => filed[handed.to][c].at = "landed" \/ c \in handed.accepted
=============================================================================
