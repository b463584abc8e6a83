------------------------------ MODULE MCPairs ------------------------------
EXTENDS Pairs, MCZectl, FiniteSets

\* Bound: once they have been apart, all snapshots share one name.
OneSuffixApart == apart => Cardinality(UNION {SnapsOf(d) : d \in Datasets}) <= 1
=============================================================================
