----------------------------- MODULE WriterParts -----------------------------
(***************************************************************************)
(* What happens inside one operation of the writer or around many of them: *)
(* the calls of the model (ModelCalls), the names pages get (PageNames),    *)
(* the text of a page that two layers hold (LayeredText), the repairs of    *)
(* the gardener (GardenRepair), and the refiling of a workspace (Refile).   *)
(* They share nothing but the code that calls them: a behaviour is of one.  *)
(***************************************************************************)
EXTENDS ModelCalls, PageNames, LayeredText, GardenRepair, Refile

VARIABLE part   \* the one a behaviour is of

partVars == <<callVars, nameVars, textVars, gardenVars, refileVars, part>>

PartsInit ==
    /\ CallsInit /\ NamesInit /\ TextInit /\ GardenInit /\ RefileInit
    /\ part \in {"calls", "names", "text", "garden", "refile"}

PartsNext ==
    \/ /\ part = "calls" /\ CallsNext
       /\ UNCHANGED <<nameVars, textVars, gardenVars, refileVars, part>>
    \/ /\ part = "names" /\ NamesNext
       /\ UNCHANGED <<callVars, textVars, gardenVars, refileVars, part>>
    \/ /\ part = "text" /\ TextNext
       /\ UNCHANGED <<callVars, nameVars, gardenVars, refileVars, part>>
    \/ /\ part = "garden" /\ GardenNext
       /\ UNCHANGED <<callVars, nameVars, textVars, refileVars, part>>
    \/ /\ part = "refile" /\ RefileNext
       /\ UNCHANGED <<callVars, nameVars, textVars, gardenVars, part>>

PartsSpec == PartsInit /\ [][PartsNext]_partVars
=============================================================================
