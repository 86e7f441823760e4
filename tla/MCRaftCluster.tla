--------------------------- MODULE MCRaftCluster ---------------------------
\* A cluster of a few servers, each started a few times.
EXTENDS RaftCluster

MCEnd == Server \X (1 .. MaxBoots) \X Server
=============================================================================
