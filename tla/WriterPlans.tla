----------------------------- MODULE WriterPlans -----------------------------
(***************************************************************************)
(* The two writes whose contents a model plans: the filing of a capture      *)
(* (FilingLoop) and the recompile of everything derived (Recompile).  The    *)
(* writer lock keeps them apart, so a behaviour is of one of them.           *)
(***************************************************************************)
EXTENDS FilingLoop, Recompile

VARIABLE part   \* the write a behaviour is of

planVars == <<vars, recompileVars, part>>

\* The repository of Recompile when the behaviour is of filing.
Shut ==
    /\ library = [l \in Shelves |-> Bare] /\ disputed = {}
    /\ shelf = library /\ desk = Bare /\ round = Ended("refused")

PlansInit ==
    \/ part = "file" /\ Init /\ Shut
    \/ part = "recompile" /\ Init /\ RecompileInit

PlansNext ==
    \/ part = "file" /\ Next /\ UNCHANGED <<recompileVars, part>>
    \/ part = "recompile" /\ RecompileNext /\ UNCHANGED <<vars, part>>

PlansSpec == PlansInit /\ [][PlansNext]_planVars /\ (part = "file" => WF_vars(Finish))

\* The branch a capture or a recompile leaves behind is one the lint accepts, with each layer's own
\* pages backed by its own sources.
BranchIsSound ==
    /\ CorpusIsSound
    /\ SweepIsEnough
    /\ LayersBackTheirPages
=============================================================================
