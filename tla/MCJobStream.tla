---------------------------- MODULE MCJobStream ----------------------------
(* Streams of one principal: the limit per principal is the one they meet.  *)
EXTENDS JobStream, TLC

CONSTANTS k1, s1, s2, s3, s4

MCKeys == {k1}
MCPair == {s1, s2}
MCQuartet == {s1, s2, s3, s4}
MCKeyOf == [s \in Streams |-> k1]
MCSymmetry == Permutations(Streams)
=============================================================================
