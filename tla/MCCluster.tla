----------------------------- MODULE MCCluster ------------------------------
EXTENDS Cluster

CONSTANTS c1, c2
=============================================================================
