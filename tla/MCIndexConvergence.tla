------------------------- MODULE MCIndexConvergence -------------------------
(* Instances of IndexConvergence: two pages of which one is in the layer, and *)
(* two webhook requests.                                                      *)
EXTENDS IndexConvergence, FiniteSets, TLC

CONSTANTS pub, lay, c1, c2, h1, h2

\* Pushes by others, failures, asks and captures of one behaviour: two with every
\* interleaving of two requests, three while one request serves one delivery.
Troubles == others + faults + asks + Cardinality({c \in Captures : status[c] # "absent"})

Bounded ==
    \/ Troubles <= 2
    \/ /\ Troubles = 3 /\ deliveries <= 1
       /\ \E h \in Handlers : \A g \in Handlers \ {h} : pc[g] = "idle"
=============================================================================
