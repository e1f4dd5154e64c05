--------------------------- MODULE MCIssuerState ---------------------------
(* Issue commands of which the first two have the same arguments, and so   *)
(* the same leaf.                                                          *)
EXTENDS IssuerState, TLC

CONSTANTS p1, p2, p3, p4, a, b, c

MCLeafOf == (p1 :> a) @@ (p2 :> a) @@ (p3 :> b) @@ (p4 :> c)

\* The same for three commands.
MCLeafOf3 == (p1 :> a) @@ (p2 :> a) @@ (p3 :> b)

=============================================================================
