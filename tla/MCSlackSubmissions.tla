------------------------ MODULE MCSlackSubmissions ------------------------
(* A thread with a reply, and three deliveries: the first message, the     *)
(* reply, and one of them again.                                           *)
EXTENDS SlackSubmissions, TLC

CONSTANTS e1, e2, e3, m1, m2, p1, p2

MsgOf == e1 :> m1 @@ e2 :> m2 @@ e3 :> m2
InThread == m1 :> m1 @@ m2 :> m1
=============================================================================
