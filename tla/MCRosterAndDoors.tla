-------------------------- MODULE MCRosterAndDoors --------------------------
(* Two people, one layer, one channel, two tokens and two edits at once; and     *)
(* requests that share keys, contents and upload sessions.                      *)
EXTENDS RosterAndDoors, TLC

CONSTANTS p1, p2, j1, j2, d1, d2, k1, k2, u1, u2, pub, hr, fin,
    note, other, page, file, again, fresh

Symmetric == Permutations({p1, p2}) \cup Permutations({j1, j2}) \cup Permutations({d1, d2})

\* A text and a page under one key, a back office text without a layer under the other; a file under
\* the first key, its upload sent under the second, and its bytes uploaded anew.
MCKindOf == (note :> "text") @@ (other :> "text") @@ (page :> "url")
            @@ (file :> "file") @@ (again :> "file") @@ (fresh :> "file")
MCKeyOf == (note :> k1) @@ (other :> k2) @@ (page :> k1)
           @@ (file :> k1) @@ (again :> k2) @@ (fresh :> k1)
MCNamed == (note :> hr) @@ (other :> Unset) @@ (page :> pub)
           @@ (file :> hr) @@ (again :> hr) @@ (fresh :> Unset)
MCSays == (note :> "a text") @@ (other :> "a text") @@ (page :> "an address")
          @@ (file :> "bytes") @@ (again :> "bytes") @@ (fresh :> "bytes")
MCUploadOf == (note :> Unset) @@ (other :> Unset) @@ (page :> Unset)
              @@ (file :> u1) @@ (again :> u1) @@ (fresh :> u2)
=============================================================================
