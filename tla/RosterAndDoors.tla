--------------------------- MODULE RosterAndDoors ---------------------------
(***************************************************************************)
(* Who may do what, and what they then ask for: the edits of the roster      *)
(* (Roster), and the requests of one actor through the doors of capture      *)
(* (CaptureDoors), for whom the roster is the layers they may publish to.   *)
(* A behaviour is of one of the two.                                        *)
(***************************************************************************)
EXTENDS Roster, CaptureDoors

VARIABLE part   \* the one a behaviour is of

serverVars == <<vars, doorVars, part>>

\* The doors when nobody comes.
Unvisited ==
    /\ publishes = {Everyone} /\ default = Unset /\ version = 0 /\ closed = {}
    /\ queue = [k \in Keys |-> Unset] /\ usedBy = [u \in Sessions |-> Unset] /\ checked = {}
    /\ call = [d \in Deliveries |-> NoCall] /\ sends = 0 /\ changes = 0

ServerInit ==
    \/ part = "roster" /\ Init /\ Unvisited
    \/ part = "doors" /\ Init /\ DoorsInit

ServerNext ==
    \/ part = "roster" /\ Next /\ UNCHANGED <<doorVars, part>>
    \/ part = "doors" /\ DoorsNext /\ UNCHANGED <<vars, part>>

ServerSpec == ServerInit /\ [][ServerNext]_serverVars
=============================================================================
