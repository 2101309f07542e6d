----------------------------- MODULE MCLibrary -----------------------------
EXTENDS Library

MCLayers == {0, 1, 2}
\* The days of the pages are fixed, and differ from one layer to the next.
MCDetails(l, r, n) ==
    [kind : {IF r = "note" THEN "none" ELSE IF l = 0 THEN "person" ELSE "company"}, aliases : IF r = "entity" /\ l = 0 THEN {{}, {9}} ELSE {{}},
     links : {{}} \union {{m} : m \in Titles}, day : {(l + n) % 2}]
Lines == {[words |-> 0, bytes |-> 1, heads |-> FALSE],
          [words |-> 1, bytes |-> 40, heads |-> FALSE],
          [words |-> 1, bytes |-> 5, heads |-> TRUE],
          [words |-> 3, bytes |-> 15, heads |-> FALSE],
          [words |-> 7, bytes |-> 70, heads |-> FALSE]}
MCTexts == UNION {[1..n -> Lines] : n \in 1..4}
MCWalks == {[aud |-> {}, sort |-> "title"], [aud |-> {1}, sort |-> "title"], [aud |-> {1}, sort |-> "recent"]}
MCQueries == {{1}, {1, 2}}
=============================================================================
