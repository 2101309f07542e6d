--------------------------- MODULE MCWriterParts ----------------------------
(***************************************************************************)
(* The instance of WriterParts that TLC checks.                            *)
(***************************************************************************)
EXTENDS WriterParts, TLC

CONSTANTS a, b, p, q, t, s1, s2, s3, \* captured texts, people, a token and workspaces of Refile
          n1, n2, u1, u2, u3 \* paths and lines of GardenRepair

\* PageNames: two names, and one that holds the words of both.
MCWordsOf == <<{1}, {2}, {1, 2}>>

\* LayeredText: two lines of one day and one of another, one without a day; the second and the
\* fourth link one page.
MCDayOf == <<1, 1, 2, 0>>
MCLinkOf == <<0, 1, 0, 1>>

\* GardenRepair: a line that links each of two pages, and one that links none.
MCOrder == <<"public", "team">>
MCTarget == [u \in {u1, u2, u3} |-> CASE u = u1 -> n1 [] u = u2 -> n2 [] OTHER -> NoTarget]

\* Refile: one person writes every text and holds the token; the other administers.
MCWriterOf == [c \in {a, b} |-> q]
MCHolderOf == t :> q

Symmetry == Permutations({a, b}) \union Permutations({s2, s3})

\* The page drafts of a second naming hold one link less; the second export is followed without
\* deletions and sessions.
PartsBounds ==
    /\ Cardinality(draft.pages) <= 2
    /\ Cardinality(draft.links) <= (IF namings = 2 THEN 2 ELSE 3)
    /\ 2 * namings + days + given <= 5
    /\ exports = 2 => /\ \A x \in Bearers : session[x] = NoSpace /\ opening[x] = NoSpace
                      /\ \A w \in Spaces, c \in Captured : filed[w][c].deletion = "none"
=============================================================================
