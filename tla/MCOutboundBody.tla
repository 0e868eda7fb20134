--------------------------- MODULE MCOutboundBody ---------------------------
(* Small instances of OutboundBody for TLC.                                *)
EXTENDS OutboundBody, TLC

Symmetry == Permutations(Streams)

\* Limits that stop in a frame header, behind it, and never.
SomeLimits == {1, 3, Unlimited}
OneLimit == {2}
=============================================================================
