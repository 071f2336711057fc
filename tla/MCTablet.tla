------------------------------ MODULE MCTablet ------------------------------
EXTENDS Tablet, TLC

CONSTANTS k1, k2, v1, v2, h1, h2

\* Tables another holder may return: the empty one of a failed CopyTablet, and
\* full ones, older or newer than what is on the local disk.
PeerTables == {EmptyTable} \cup {[k \in Key |-> v] : v \in Value}

Symmetry == Permutations(Key) \cup Permutations(Value)
=============================================================================
