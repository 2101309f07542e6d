---------------------------- MODULE MCWriterPlans ----------------------------
(* Instances of WriterPlans for TLC. *)
EXTENDS WriterPlans, TLC

CONSTANTS pub, hr, n1, n2, c1, c2, c3, a, b, k, fin, s1, s2, s3, s4

\* a cites the first source; b cites the second and links n2; k is a callout that
\* cites the second, and the third capture resolves it.
MCCites == (a :> c1) @@ (b :> c2) @@ (k :> c2)
MCLinkOf == (a :> None) @@ (b :> n2) @@ (k :> None)
MCResolves == (c1 :> None) @@ (c2 :> None) @@ (c3 :> k)

\* Two public sources, two of a layer, and a layer without any.
MCShelving == <<pub, fin, hr>>
MCShelfOf == (s1 :> pub) @@ (s2 :> pub) @@ (s3 :> hr) @@ (s4 :> hr)
MCReading == (pub :> <<s1, s2>>) @@ (fin :> <<>>) @@ (hr :> <<s3, s4>>)
=============================================================================
