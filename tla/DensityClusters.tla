--------------------------- MODULE DensityClusters ---------------------------
(***************************************************************************)
(* What sb_pointcloud_processing/DBSCAN promises, apart from how it walks  *)
(* through the points: a cluster is all that can be reached from a core    *)
(* point, one with min_neighbours others within the radius, by way of core *)
(* points; what is next to two clusters belongs to the first; every core   *)
(* point ends up in a cluster.                                             *)
(***************************************************************************)
EXTENDS Naturals, FiniteSets, Sequences, SequencesExt

VARIABLES finished,   \* all clusters have been found
          min_neighbours,
          points,     \* the indices of the points
          neighbours, \* per point: the set of those within the radius
          clusters    \* sequence of clusters, each a list of its points

Core(p) == Cardinality(neighbours[p]) >= min_neighbours

\* The core points that p reaches are those in every set of core points that holds p
\* and, with a point, its core neighbours.
Closed(S) == \A r \in S : {s \in neighbours[r] : Core(s)} \subseteq S
Reached(p) ==
    LET cores == {q \in points : Core(q)}
        around == {S \in SUBSET cores : p \in S /\ Closed(S)}
        component == {q \in cores : \A S \in around : q \in S}
    IN  component \cup UNION {neighbours[q] : q \in component}

Clustered == UNION {ToSet(clusters[j]) : j \in DOMAIN clusters}

\* A point is listed once in its cluster, in no particular order.
Init == clusters = <<>>
FindCluster ==
    /\ clusters' # <<>> /\ clusters' = Append(clusters, Last(clusters'))
    /\ IsInjective(Last(clusters'))
    /\ \E p \in points \ Clustered :
         Core(p) /\ ToSet(Last(clusters')) = Reached(p) \ Clustered

\* Every core point is in a cluster.
Complete == \A p \in points : Core(p) => p \in Clustered
Spec == Init /\ [][FindCluster]_clusters /\ [](finished => Complete)
=============================================================================
