------------------------------- MODULE DBSCAN -------------------------------
(***************************************************************************)
(* sb_pointcloud_processing/DBSCAN: the clusters LineExtractorNode fits a  *)
(* line to.  A DBSCAN object serves one cloud of points.  The calls of     *)
(* expand() in progress are a stack of frames, the innermost first.        *)
(***************************************************************************)
EXTENDS Integers, Sequences, SequencesExt, FiniteSets

CONSTANTS Radius, MinNeighbours \* the parameters of LineExtractorNode: one, and some

ASSUME DBSCANAssumption == Radius \in Nat /\ MinNeighbours \subseteq Nat

VARIABLES
    pcl,       \* the position of every point
    _min_neighbors,
    neighbors, \* per point: the sequence of its neighbours
    scan,      \* index of the loop of findClusters(), 0 before it
    frames,    \* calls of expand(): [center, i], i counting the neighbours
    cluster,   \* the one under construction
    clustered, expanded, \* sets of points
    _clusters

dbscan_vars == <<pcl, _min_neighbors, neighbors, scan, frames, cluster, clustered, expanded, _clusters>>

Within(p, q) ==
    LET dx == pcl[p].x - pcl[q].x
        dy == pcl[p].y - pcl[q].y
    IN  dx * dx + dy * dy <= Radius * Radius

\* findNeighbors(): a point is not its own neighbour.
NeighborsOf(p) ==
    LET found[j \in 0..Len(pcl)] == IF j = 0 THEN <<>>
                                    ELSE IF j # p /\ Within(p, j) THEN Append(found[j - 1], j)
                                    ELSE found[j - 1]
    IN  found[Len(pcl)]

IsCore(p) == Len(neighbors[p]) >= _min_neighbors

FindClustersInit(points) ==
    /\ pcl = points
    /\ _min_neighbors = 0 /\ neighbors = [p \in DOMAIN pcl |-> <<>>]
    /\ scan = 0 /\ frames = <<>> /\ cluster = <<>>
    /\ clustered = {} /\ expanded = {} /\ _clusters = <<>>

\* LineExtractorNode makes a DBSCAN and calls findClusters(), which begins with this.
FindNeighbors ==
    /\ scan = 0 /\ scan' = 1
    /\ _min_neighbors' \in MinNeighbours
    /\ neighbors' = [p \in DOMAIN pcl |-> NeighborsOf(p)]
    /\ UNCHANGED <<pcl, frames, cluster, clustered, expanded, _clusters>>

\* findClusters() at point scan: a core point that is in no cluster starts one.
StartsCluster == scan \notin clustered /\ IsCore(scan)
PassOver ==
    /\ frames = <<>> /\ cluster = <<>> /\ scan \in DOMAIN pcl
    /\ ~StartsCluster
    /\ scan' = scan + 1
    /\ UNCHANGED <<pcl, _min_neighbors, neighbors, frames, cluster, clustered, expanded, _clusters>>
StartCluster ==
    /\ frames = <<>> /\ cluster = <<>> /\ scan \in DOMAIN pcl
    /\ StartsCluster
    /\ cluster' = <<scan>>
    /\ clustered' = clustered \cup {scan}
    /\ expanded' = expanded \cup {scan}
    /\ frames' = <<[center |-> scan, i |-> 1]>>
    /\ UNCHANGED <<pcl, _min_neighbors, neighbors, scan, _clusters>>

\* expand(), one neighbour: it joins the cluster if it is in none, and is expanded in
\* turn if it is a core point and has not been.
JoinsUnlessExpanded(q) == IF q \in expanded THEN cluster ELSE Append(cluster, q)
Joins(q) == IF q \in clustered THEN cluster ELSE Append(cluster, q)
Going == frames # <<>> /\ frames[1].i <= Len(neighbors[frames[1].center])
Advanced == [frames EXCEPT ![1].i = @ + 1]
Expand ==
    /\ Going
    /\ LET q == neighbors[frames[1].center][frames[1].i]
           deeper == q \notin expanded /\ IsCore(q)
       IN  /\ cluster' = Joins(q)
           /\ clustered' = clustered \cup {q}
           /\ expanded' = IF deeper THEN expanded \cup {q} ELSE expanded
           /\ frames' = IF deeper THEN <<[center |-> q, i |-> 1]>> \o Advanced ELSE Advanced
    /\ UNCHANGED <<pcl, _min_neighbors, neighbors, scan, _clusters>>
Return ==
    /\ frames # <<>> /\ ~Going
    /\ frames' = Tail(frames)
    /\ UNCHANGED <<pcl, _min_neighbors, neighbors, scan, cluster, clustered, expanded, _clusters>>

\* The cluster is complete.
AddCluster ==
    /\ frames = <<>> /\ cluster # <<>>
    /\ _clusters' = Append(_clusters, cluster)
    /\ cluster' = <<>>
    /\ scan' = scan + 1
    /\ UNCHANGED <<pcl, _min_neighbors, neighbors, frames, clustered, expanded>>

FindClusters == FindNeighbors \/ PassOver \/ StartCluster \/ Expand \/ Return \/ AddCluster

\* findClusters() has returned.
Found == scan > Len(pcl)

FindClustersSpec == /\ \E cloud \in Seq([x : Int, y : Int]) : FindClustersInit(cloud)
                    /\ [][FindClusters]_dbscan_vars

-----------------------------------------------------------------------------
\* JoinsUnlessExpanded is Joins with the mistake of its name, to be put in its place.

\* Clusters are what DensityClusters says, found one after the other until every core
\* point is in one, whatever the order of the points and the depth of the recursion: no
\* point is listed twice, in one cluster or in two that it is next to.
Density == INSTANCE DensityClusters
             WITH finished <- Found,
                  min_neighbours <- _min_neighbors,
                  points <- DOMAIN pcl,
                  neighbours <- [p \in DOMAIN pcl |-> ToSet(neighbors[p])],
                  clusters <- _clusters
ImplementsDensity == Density!Spec
=============================================================================
