----------------------- MODULE MeshIntersectorProofs -----------------------
(***************************************************************************)
(* Proofs about the intersection of a hull with the free surface, for every *)
(* hull made of triangles and all immersions of its nodes, in this order:   *)
(*   - each edge that crosses the surface is replaced by two halves that    *)
(*     meet in a node of its own on the surface;                            *)
(*   - a side of the hull is one piece, or two where it crosses, and in a   *)
(*     closed hull the pieces run as often one way as the other;            *)
(*   - the edges of a facet on each side of the surface, in all the ways    *)
(*     its corners may lie, bound a facet of that side and are its pieces;  *)
(*   - so what is listed for a facet balances its pieces, and an update of  *)
(*     a closed hull lists a closed surface;                                *)
(*   - no two edges that are known to be on the surface have the same ends, *)
(*     if no two facets of the hull have the same corners;                  *)
(*   - hence what an update leaves, and the invariants of the intersector;  *)
(*   - the closing facets built so far and the loops that are left make up  *)
(*     the edges on the surface.                                            *)
(***************************************************************************)
EXTENDS MeshIntersector, MeshBuilderProofs

-----------------------------------------------------------------------------
(* Where the edges cross the surface *)

Statuses == [immersed : SUBSET (1 .. 2), emerged : SUBSET (1 .. 2)]

\* The status of an edge says on which side of the surface its ends are, and an edge
\* whose facets are not flagged is on one side.
LEMMA StatusIs ==
  ASSUME NEW y \in Int, NEW z \in Int
  PROVE  LET status == get_edge_immersion_status(y, z)
         IN /\ status \in Statuses
            /\ 1 \in status.immersed <=> y > 0
            /\ 2 \in status.immersed <=> z > 0
            /\ crosses_free_surface(status) <=> (y < 0 /\ z > 0) \/ (y > 0 /\ z < 0)
            /\ is_emerged(status) <=> y <= 0 /\ z <= 0 /\ (y < 0 \/ z < 0)
            /\ is_immersed(status) <=> y >= 0 /\ z >= 0 /\ (y > 0 \/ z > 0)
            /\ both_ends_just_touch_free_surface(status) <=> y = 0 /\ z = 0
            /\ flags_its_facets(status) \/ (y < 0 /\ z < 0) \/ (y > 0 /\ z > 0)
<1> DEFINE status == get_edge_immersion_status(y, z)
           I == status.immersed
           E == status.emerged
<1>1. /\ I \subseteq {1, 2} /\ E \subseteq {1, 2} /\ status \in Statuses
      /\ 1 \in I <=> y > 0
      /\ 2 \in I <=> z > 0
      /\ 1 \in E <=> y < 0
      /\ 2 \in E <=> z < 0
  <2>1. /\ I = {i \in 1 .. 2 : <<y, z>>[i] > 0} /\ E = {i \in 1 .. 2 : <<y, z>>[i] < 0}
        /\ status = [immersed |-> I, emerged |-> E]
    BY DEF get_edge_immersion_status
  <2>2. <<y, z>>[1] = y /\ <<y, z>>[2] = z
    OBVIOUS
  <2> HIDE DEF I, E, status
  <2>3. I \subseteq 1 .. 2 /\ E \subseteq 1 .. 2
    BY <2>1
  <2>4. status \in Statuses
    BY <2>1, <2>3 DEF Statuses
  <2>5. /\ 1 \in I <=> y > 0
        /\ 2 \in I <=> z > 0
        /\ 1 \in E <=> y < 0
        /\ 2 \in E <=> z < 0
    BY <2>1, <2>2
  <2>6. QED BY <2>3, <2>4, <2>5
<1> HIDE DEF status
<1>2. crosses_free_surface(status) <=> (y < 0 /\ z > 0) \/ (y > 0 /\ z < 0)
  BY <1>1 DEF crosses_free_surface
<1>3. is_emerged(status) <=> y <= 0 /\ z <= 0 /\ (y < 0 \/ z < 0)
  BY <1>1 DEF is_emerged
<1>4. is_immersed(status) <=> y >= 0 /\ z >= 0 /\ (y > 0 \/ z > 0)
  BY <1>1 DEF is_immersed
<1>5. both_ends_just_touch_free_surface(status) <=> y = 0 /\ z = 0
  BY <1>1 DEF both_ends_just_touch_free_surface
<1>6. flags_its_facets(status) \/ (y < 0 /\ z < 0) \/ (y > 0 /\ z > 0)
  <2>1. CASE (y = 0 /\ z # 0) \/ (y # 0 /\ z = 0)
    <3>1. \/ I = {} /\ (E = {1} \/ E = {2})
          \/ E = {} /\ (I = {1} \/ I = {2})
      BY <1>1, <2>1
    <3>2. Cardinality({}) = 0 /\ Cardinality({1}) = 1 /\ Cardinality({2}) = 1
      BY FS_EmptySet, FS_Singleton
    <3>3. \/ Cardinality(I) = 0 /\ Cardinality(E) = 1
          \/ Cardinality(E) = 0 /\ Cardinality(I) = 1
      BY <3>1, <3>2, Zenon
    <3>4. Cardinality(I) + Cardinality(E) = 1
      BY <3>3
    <3>5. QED BY <3>4 DEF flags_its_facets, one_of_the_ends_just_touches_free_surface
  <2>2. CASE y = 0 /\ z = 0
    BY <1>5, <2>2 DEF flags_its_facets
  <2>3. CASE y # 0 /\ z # 0
    BY <1>2, <2>3 DEF flags_its_facets
  <2>4. QED BY <2>1, <2>2, <2>3
<1>7. QED BY <1>1, <1>2, <1>3, <1>4, <1>5, <1>6 DEF status

Cuts ==
  [mesh : Meshes, immersions : Seq(Int), edges_immersion_status : Seq(Statuses),
   split_edges : Seq(Nat), facet_crosses_free_surface : SUBSET Nat,
   emerged : Seq(Nat), immersed : Seq(Nat), surface_edges : SUBSET Nat]

\* What an update starts from.
Given(s, z) == Static(s) /\ FacetsExistIn(s) /\ z \in [1 .. s.nb_of_static_nodes -> Int]

StaticStatus(s, z, e) ==
  get_edge_immersion_status(z[s.edges[e][1]], z[s.edges[e][2]])
StaticStatuses(s, z) == [e \in 1 .. s.nb_of_static_edges |-> StaticStatus(s, z, e)]
Flagged(s, z) ==
  UNION {ToSet(s.facets_per_edge[e]) :
           e \in {i \in 1 .. s.nb_of_static_edges :
                  flags_its_facets(StaticStatuses(s, z)[i])}}

\* The half of an edge that has one of its ends.
Half(status, end) ==
  [immersed |-> IF end \in status.immersed THEN {1, 2} ELSE {}, emerged |-> {1}]

Middle(cut, e) == cut.mesh.edges[cut.split_edges[e]][2]

\* Edge e has been replaced by two that meet in a node on the surface.
IsSplit(s, z, cut, e) ==
  LET k == cut.split_edges[e]
      middle == Middle(cut, e)
  IN /\ k \in 1 .. Len(cut.mesh.edges) /\ k + 1 \in 1 .. Len(cut.mesh.edges)
     /\ cut.mesh.edges[k][1] = s.edges[e][1]
     /\ cut.mesh.edges[k + 1][1] = middle
     /\ cut.mesh.edges[k + 1][2] = s.edges[e][2]
     /\ middle \in s.nb_of_static_nodes + 1 .. cut.mesh.total_number_of_nodes
     /\ cut.immersions[middle] = 0
     /\ cut.edges_immersion_status[k] = Half(StaticStatus(s, z, e), 1)
     /\ cut.edges_immersion_status[k + 1] = Half(StaticStatus(s, z, e), 2)

Crosses(s, z, e) == crosses_free_surface(StaticStatus(s, z, e))

\* The edges up to number n have been looked at.
SplitUpTo(s, z, n, cut) ==
  /\ cut \in Cuts
  /\ Grown(s, cut.mesh) /\ EdgesExist(cut.mesh) /\ cut.mesh.facets = s.facets
  /\ cut.mesh.total_number_of_nodes <= s.nb_of_static_nodes + n
  /\ Len(cut.immersions) = cut.mesh.total_number_of_nodes
  /\ \A i \in 1 .. s.nb_of_static_nodes : cut.immersions[i] = z[i]
  /\ Len(cut.edges_immersion_status) = Len(cut.mesh.edges)
  /\ \A e \in 1 .. s.nb_of_static_edges :
       cut.edges_immersion_status[e] = StaticStatus(s, z, e)
  /\ Len(cut.split_edges) = s.nb_of_static_edges
  /\ cut.facet_crosses_free_surface = Flagged(s, z)
  /\ cut.emerged = <<>> /\ cut.immersed = <<>> /\ cut.surface_edges = {}
  /\ \A e \in 1 .. n : Crosses(s, z, e) => IsSplit(s, z, cut, e)
  /\ \A e, d \in 1 .. n : e # d /\ Crosses(s, z, e) /\ Crosses(s, z, d)
                           => Middle(cut, e) # Middle(cut, d)

\* The parts of what an update starts from.
LEMMA GivenParts ==
  ASSUME NEW s, NEW z, Given(s, z)
  PROVE  /\ s \in Meshes /\ EdgesExist(s) /\ Grown(s, s)
         /\ s.nb_of_static_nodes \in Nat /\ s.nb_of_static_edges \in Nat
         /\ s.nb_of_static_facets \in Nat
         /\ Len(s.edges) = s.nb_of_static_edges /\ Len(s.facets) = s.nb_of_static_facets
         /\ s.total_number_of_nodes = s.nb_of_static_nodes
         /\ z \in Seq(Int) /\ Len(z) = s.nb_of_static_nodes
         /\ \A i \in 1 .. s.nb_of_static_nodes : z[i] \in Int
         /\ \A e \in 1 .. s.nb_of_static_edges :
              /\ s.edges[e][1] \in 1 .. s.nb_of_static_nodes
              /\ s.edges[e][2] \in 1 .. s.nb_of_static_nodes
              /\ StaticStatus(s, z, e) \in Statuses
<1>1. /\ s \in Meshes /\ EdgesExist(s)
      /\ Len(s.edges) = s.nb_of_static_edges /\ Len(s.facets) = s.nb_of_static_facets
      /\ s.total_number_of_nodes = s.nb_of_static_nodes
      /\ z \in [1 .. s.nb_of_static_nodes -> Int]
  BY DEF Given, Static
<1>2. /\ s.nb_of_static_nodes \in Nat /\ s.nb_of_static_edges \in Nat
      /\ s.nb_of_static_facets \in Nat /\ Grown(s, s)
  BY <1>1, MeshParts, GrownItself
<1>3. z \in Seq(Int) /\ Len(z) = s.nb_of_static_nodes
  BY <1>1, <1>2
<1>4. ASSUME NEW e \in 1 .. s.nb_of_static_edges
      PROVE  /\ s.edges[e][1] \in 1 .. s.nb_of_static_nodes
             /\ s.edges[e][2] \in 1 .. s.nb_of_static_nodes
             /\ StaticStatus(s, z, e) \in Statuses
  <2>1. /\ s.edges[e][1] \in 1 .. s.nb_of_static_nodes
        /\ s.edges[e][2] \in 1 .. s.nb_of_static_nodes
    BY <1>1 DEF EdgesExist
  <2>2. z[s.edges[e][1]] \in Int /\ z[s.edges[e][2]] \in Int
    BY <1>1, <2>1
  <2>3. QED BY <2>1, <2>2, StatusIs DEF StaticStatus
<1>5. QED BY <1>1, <1>2, <1>3, <1>4

\* The halves of an edge stay when more is added.
LEMMA SplitStays ==
  ASSUME NEW s, NEW z, NEW cut \in Cuts, NEW r \in Cuts, NEW e, IsSplit(s, z, cut, e),
         Grown(cut.mesh, r.mesh), r.split_edges[e] = cut.split_edges[e],
         \A i \in 1 .. Len(cut.mesh.edges) :
           r.edges_immersion_status[i] = cut.edges_immersion_status[i],
         \A i \in 1 .. cut.mesh.total_number_of_nodes : r.immersions[i] = cut.immersions[i],
         s.nb_of_static_nodes \in Nat
  PROVE  IsSplit(s, z, r, e) /\ Middle(r, e) = Middle(cut, e)
<1> DEFINE k == cut.split_edges[e]
           middle == Middle(cut, e)
<1>1. cut.mesh \in Meshes /\ r.mesh \in Meshes
  BY DEF Cuts
<1>2. /\ Len(cut.mesh.edges) \in Nat /\ Len(r.mesh.edges) \in Nat
      /\ cut.mesh.total_number_of_nodes \in Nat /\ r.mesh.total_number_of_nodes \in Nat
  BY <1>1, MeshParts
<1>3. /\ 1 .. Len(cut.mesh.edges) \subseteq 1 .. Len(r.mesh.edges)
      /\ cut.mesh.total_number_of_nodes <= r.mesh.total_number_of_nodes
  BY <1>2 DEF Grown
<1>4. /\ k \in 1 .. Len(cut.mesh.edges) /\ k + 1 \in 1 .. Len(cut.mesh.edges)
      /\ middle \in s.nb_of_static_nodes + 1 .. cut.mesh.total_number_of_nodes
  BY DEF IsSplit
<1>5. r.mesh.edges[k] = cut.mesh.edges[k] /\ r.mesh.edges[k + 1] = cut.mesh.edges[k + 1]
  BY <1>4 DEF Grown
<1>6. Middle(r, e) = middle
  BY <1>5 DEF Middle
<1>7. middle \in 1 .. cut.mesh.total_number_of_nodes
      /\ middle \in s.nb_of_static_nodes + 1 .. r.mesh.total_number_of_nodes
  BY <1>2, <1>3, <1>4
<1> HIDE DEF middle
<1>8. /\ cut.mesh.edges[k][1] = s.edges[e][1]
      /\ cut.mesh.edges[k + 1][1] = middle
      /\ cut.mesh.edges[k + 1][2] = s.edges[e][2]
      /\ cut.immersions[middle] = 0
      /\ cut.edges_immersion_status[k] = Half(StaticStatus(s, z, e), 1)
      /\ cut.edges_immersion_status[k + 1] = Half(StaticStatus(s, z, e), 2)
  BY DEF IsSplit, middle
<1>9. /\ r.immersions[middle] = 0
      /\ r.edges_immersion_status[k] = Half(StaticStatus(s, z, e), 1)
      /\ r.edges_immersion_status[k + 1] = Half(StaticStatus(s, z, e), 2)
  BY <1>4, <1>7, <1>8
<1>10. k \in 1 .. Len(r.mesh.edges) /\ k + 1 \in 1 .. Len(r.mesh.edges)
  BY <1>3, <1>4
<1>11. r.split_edges[e] = k
  OBVIOUS
<1> HIDE DEF k
<1>12. QED BY <1>5, <1>6, <1>7, <1>8, <1>9, <1>10, <1>11 DEF IsSplit, middle

\* Splitting an edge, put another way.
LEMMA SplitIs ==
  ASSUME NEW cut \in Cuts, NEW edge \in 1 .. Len(cut.split_edges)
  PROVE  LET m == cut.mesh
             status == cut.edges_immersion_status[edge]
             middle == m.total_number_of_nodes + 1
             mesh3 == add_edge(add_edge(add_vertex(m), m.edges[edge][1], middle), middle,
                               m.edges[edge][2])
             halves == <<Half(status, 1), Half(status, 2)>>
         IN split_partially_immersed_edge(cut, edge) =
              [cut EXCEPT !.mesh = mesh3, !.immersions = Append(cut.immersions, 0),
                          !.split_edges = [cut.split_edges EXCEPT ![edge] = Len(m.edges) + 1],
                          !.edges_immersion_status = cut.edges_immersion_status \o halves]
BY DEF split_partially_immersed_edge, Half

\* Each half of a split edge is on one side.
LEMMA HalfIsAStatus ==
  ASSUME NEW status, NEW end
  PROVE  /\ Half(status, end) \in Statuses
         /\ is_emerged(Half(status, end)) <=> end \notin status.immersed
BY DEF Half, Statuses, is_emerged

\* Splitting the next edge appends two halves that meet in a new node on the surface,
\* and keeps the edges split so far.
LEMMA SplitOneEdge ==
  ASSUME NEW s, NEW z, Given(s, z), NEW e \in 1 .. s.nb_of_static_edges,
         NEW cut, SplitUpTo(s, z, e - 1, cut)
  PROVE  LET r == split_partially_immersed_edge(cut, e)
         IN SplitUpTo(s, z, e, r)
<1> DEFINE m == cut.mesh
           nn == s.nb_of_static_nodes
           ne == s.nb_of_static_edges
           first == m.edges[e][1]
           last == m.edges[e][2]
           middle == m.total_number_of_nodes + 1
           status == cut.edges_immersion_status[e]
           m1 == add_vertex(m)
           m2 == add_edge(m1, first, middle)
           m3 == add_edge(m2, middle, last)
           half1 == Half(status, 1)
           half2 == Half(status, 2)
           halves == <<half1, half2>>
           immersions == Append(cut.immersions, 0)
           split == [cut.split_edges EXCEPT ![e] = Len(m.edges) + 1]
           statuses == cut.edges_immersion_status \o halves
           r == [cut EXCEPT !.mesh = m3, !.immersions = immersions, !.split_edges = split,
                            !.edges_immersion_status = statuses]
<1>1. /\ cut \in Cuts /\ m \in Meshes /\ Grown(s, m) /\ EdgesExist(m) /\ m.facets = s.facets
      /\ cut.immersions \in Seq(Int) /\ cut.edges_immersion_status \in Seq(Statuses)
      /\ cut.split_edges \in Seq(Nat)
      /\ m.total_number_of_nodes <= nn + e - 1
      /\ Len(cut.immersions) = m.total_number_of_nodes
      /\ Len(cut.edges_immersion_status) = Len(m.edges)
      /\ Len(cut.split_edges) = ne
  BY DEF SplitUpTo, Cuts
<1>2. /\ nn \in Nat /\ ne \in Nat /\ Len(s.edges) = ne /\ s \in Meshes
      /\ s.total_number_of_nodes = nn
      /\ s.edges[e][1] \in 1 .. nn /\ s.edges[e][2] \in 1 .. nn
  BY GivenParts
<1>3. /\ m.total_number_of_nodes \in Nat /\ Len(m.edges) \in Nat /\ e \in Nat
      /\ nn <= m.total_number_of_nodes /\ ne <= Len(m.edges)
      /\ first = s.edges[e][1] /\ last = s.edges[e][2]
  <2>1. m.total_number_of_nodes \in Nat /\ Len(m.edges) \in Nat
    BY <1>1, MeshParts
  <2>2. /\ nn <= m.total_number_of_nodes /\ ne <= Len(m.edges) /\ m.edges[e] = s.edges[e]
    BY <1>1, <1>2 DEF Grown
  <2>3. QED BY <2>1, <2>2
<1>4. /\ first \in 1 .. m.total_number_of_nodes /\ last \in 1 .. m.total_number_of_nodes
      /\ status = StaticStatus(s, z, e)
  <2>1. status = StaticStatus(s, z, e)
    BY DEF SplitUpTo
  <2>2. QED BY <1>2, <1>3, <2>1
<1>5. split_partially_immersed_edge(cut, e) = r
  BY <1>1, SplitIs
<1>6. /\ Grown(m, m1) /\ EdgesExist(m1) /\ m1.facets = m.facets /\ m1.edges = m.edges
      /\ m1.total_number_of_nodes = middle /\ m1 \in Meshes
  <2>1. /\ Grown(m, m1) /\ EdgesExist(m1) /\ m1.facets = m.facets /\ m1.edges = m.edges
        /\ m1.total_number_of_nodes = middle
    BY <1>1, AddVertexGrows
  <2>2. QED BY <2>1 DEF Grown
<1> HIDE DEF m, first, last, middle, status, m1
<1>7. middle \in Nat /\ middle = m.total_number_of_nodes + 1
  BY <1>3 DEF middle
<1>8. /\ Grown(m1, m2) /\ EdgesExist(m2) /\ m2.facets = m1.facets
      /\ m2.total_number_of_nodes = middle /\ Len(m2.edges) = Len(m.edges) + 1
      /\ m2.edges[Len(m.edges) + 1][1] = first /\ m2.edges[Len(m.edges) + 1][2] = middle
      /\ m2 \in Meshes
  <2>1. first \in 1 .. m1.total_number_of_nodes /\ middle \in 1 .. m1.total_number_of_nodes
    BY <1>3, <1>4, <1>6, <1>7
  <2>2. /\ Grown(m1, m2) /\ EdgesExist(m2) /\ m2.facets = m1.facets
        /\ m2.total_number_of_nodes = m1.total_number_of_nodes
        /\ Len(m2.edges) = Len(m1.edges) + 1
        /\ m2.edges[Len(m1.edges) + 1][1] = first /\ m2.edges[Len(m1.edges) + 1][2] = middle
    BY <1>6, <2>1, AddEdgeGrows, SMTT(40)
  <2> HIDE DEF m2
  <2>3. QED BY <1>6, <2>2 DEF Grown
<1> HIDE DEF m2
<1>9. /\ Grown(m2, m3) /\ EdgesExist(m3) /\ m3.facets = m2.facets
      /\ m3.total_number_of_nodes = middle /\ Len(m3.edges) = Len(m.edges) + 2
      /\ m3.edges[Len(m.edges) + 2][1] = middle /\ m3.edges[Len(m.edges) + 2][2] = last
      /\ m3.edges[Len(m.edges) + 1] = m2.edges[Len(m.edges) + 1]
      /\ m3 \in Meshes
  <2>1. last \in 1 .. m2.total_number_of_nodes /\ middle \in 1 .. m2.total_number_of_nodes
    BY <1>3, <1>4, <1>7, <1>8, SMTT(40)
  <2>2. /\ Grown(m2, m3) /\ EdgesExist(m3) /\ m3.facets = m2.facets
        /\ m3.total_number_of_nodes = m2.total_number_of_nodes
        /\ Len(m3.edges) = Len(m2.edges) + 1
        /\ m3.edges[Len(m2.edges) + 1][1] = middle /\ m3.edges[Len(m2.edges) + 1][2] = last
    BY <1>8, <2>1, AddEdgeGrows, ZenonT(60)
  <2> HIDE DEF m3
  <2>3. Len(m2.edges) + 1 = Len(m.edges) + 2
    BY <1>3, <1>8
  <2>4. m3 \in Meshes
    BY <2>2 DEF Grown
  <2>5. m3.edges[Len(m.edges) + 1] = m2.edges[Len(m.edges) + 1]
    <3>1. Len(m.edges) + 1 \in 1 .. Len(m2.edges)
      BY <1>3, <1>8
    <3>2. QED BY <2>2, <3>1 DEF Grown
  <2>6. Len(m3.edges) = Len(m.edges) + 2
    BY <1>3, <1>8, <2>2
  <2>7. QED BY <1>8, <2>2, <2>3, <2>4, <2>5, <2>6
<1> HIDE DEF m3
<1>10. Grown(m, m3) /\ Grown(s, m3)
  BY <1>1, <1>2, <1>6, <1>8, <1>9, GrownTransitive
<1>11. /\ immersions \in Seq(Int) /\ Len(immersions) = middle
       /\ immersions[middle] = 0
       /\ \A i \in 1 .. m.total_number_of_nodes : immersions[i] = cut.immersions[i]
  <2> DEFINE old == cut.immersions
  <2>1. old \in Seq(Int) /\ Len(old) = m.total_number_of_nodes /\ 0 \in Int
    BY <1>1
  <2> HIDE DEF old
  <2>2. /\ Append(old, 0) \in Seq(Int) /\ Len(Append(old, 0)) = Len(old) + 1
        /\ \A i \in 1 .. Len(old) : Append(old, 0)[i] = old[i]
        /\ Append(old, 0)[Len(old) + 1] = 0
    BY <2>1, AppendProperties
  <2>3. QED BY <1>7, <2>1, <2>2 DEF old
<1>12. /\ statuses \in Seq(Statuses) /\ Len(statuses) = Len(m.edges) + 2
       /\ \A i \in 1 .. Len(m.edges) : statuses[i] = cut.edges_immersion_status[i]
       /\ statuses[Len(m.edges) + 1] = half1 /\ statuses[Len(m.edges) + 2] = half2
  <2> DEFINE old == cut.edges_immersion_status
  <2>1. /\ old \in Seq(Statuses) /\ Len(old) = Len(m.edges) /\ Len(old) \in Nat
    BY <1>1, <1>3
  <2>2. half1 \in Statuses /\ half2 \in Statuses
    BY HalfIsAStatus
  <2> HIDE DEF old, half1, half2
  <2>3. halves \in Seq(Statuses) /\ Len(halves) = 2 /\ halves[1] = half1 /\ halves[2] = half2
    BY <2>2
  <2> HIDE DEF halves
  <2>4. /\ old \o halves \in Seq(Statuses) /\ Len(old \o halves) = Len(old) + Len(halves)
        /\ \A i \in 1 .. Len(old) + Len(halves) : (old \o halves)[i] =
             IF i <= Len(old) THEN old[i] ELSE halves[i - Len(old)]
    <3>1. old \in Seq(Statuses) /\ halves \in Seq(Statuses)
      BY <2>1, <2>3
    <3>2. QED BY <3>1, ConcatProperties, Zenon
  <2>5. statuses = old \o halves
    BY DEF old
  <2> HIDE DEF statuses
  <2> DEFINE n == Len(old)
  <2>6. /\ n \in Nat /\ Len(statuses) = n + 2
        /\ \A i \in 1 .. n + 2 : statuses[i] = IF i <= n THEN old[i] ELSE halves[i - n]
    BY <2>1, <2>3, <2>4, <2>5
  <2>7. n = Len(m.edges)
    BY <2>1
  <2> HIDE DEF n
  <2>8. statuses[n + 1] = half1 /\ statuses[n + 2] = half2
    <3>1. (n + 1) - n = 1 /\ (n + 2) - n = 2 /\ n + 1 \in 1 .. n + 2 /\ n + 2 \in 1 .. n + 2
          /\ ~(n + 1 <= n) /\ ~(n + 2 <= n)
      BY <2>6
    <3>2. QED BY <2>3, <2>6, <3>1
  <2>9. \A i \in 1 .. n : statuses[i] = old[i]
    <3>1. \A i \in 1 .. n : i \in 1 .. n + 2 /\ i <= n
      BY <2>6
    <3>2. QED BY <2>6, <3>1
  <2>10. QED BY <2>4, <2>5, <2>6, <2>7, <2>8, <2>9 DEF old
<1>13. /\ split \in Seq(Nat) /\ Len(split) = ne /\ split[e] = Len(m.edges) + 1
       /\ \A i \in 1 .. ne : i # e => split[i] = cut.split_edges[i]
  <2> DEFINE old == cut.split_edges
             new == Len(m.edges) + 1
  <2>1. old \in Seq(Nat) /\ Len(old) = ne /\ e \in 1 .. Len(old) /\ new \in Nat
    BY <1>1, <1>3
  <2> HIDE DEF old, new
  <2>2. /\ [old EXCEPT ![e] = new] \in Seq(Nat) /\ Len([old EXCEPT ![e] = new]) = Len(old)
        /\ \A j \in 1 .. Len(old) : [old EXCEPT ![e] = new][j] = IF j = e THEN new ELSE old[j]
    BY <2>1, ExceptSeq
  <2>3. split = [old EXCEPT ![e] = new]
    BY DEF old, new
  <2> HIDE DEF split
  <2>4. QED BY <2>1, <2>2, <2>3 DEF old, new
<1> HIDE DEF immersions, statuses, split, half1, half2
<1>14. /\ r \in Cuts /\ r.mesh = m3 /\ r.immersions = immersions /\ r.split_edges = split
       /\ r.edges_immersion_status = statuses
       /\ r.facet_crosses_free_surface = cut.facet_crosses_free_surface
       /\ r.emerged = cut.emerged /\ r.immersed = cut.immersed
       /\ r.surface_edges = cut.surface_edges
  BY <1>1, <1>9, <1>11, <1>12, <1>13 DEF Cuts
<1> HIDE DEF r
<1>15. Middle(r, e) = middle /\ IsSplit(s, z, r, e)
  <2>1. /\ r.split_edges[e] = Len(m.edges) + 1
        /\ r.mesh.edges[Len(m.edges) + 1][1] = first
        /\ r.mesh.edges[Len(m.edges) + 1][2] = middle
    BY <1>8, <1>9, <1>13, <1>14
  <2>2. Middle(r, e) = middle
    BY <2>1 DEF Middle
  <2>3. /\ r.mesh.edges[Len(m.edges) + 2][1] = middle
        /\ r.mesh.edges[Len(m.edges) + 2][2] = last
        /\ r.immersions[middle] = 0
        /\ r.edges_immersion_status[Len(m.edges) + 1] = Half(StaticStatus(s, z, e), 1)
        /\ r.edges_immersion_status[Len(m.edges) + 2] = Half(StaticStatus(s, z, e), 2)
    BY <1>4, <1>9, <1>11, <1>12, <1>14 DEF half1, half2
  <2>4. (Len(m.edges) + 1) + 1 = Len(m.edges) + 2
    BY <1>3
  <2>5. /\ Len(m.edges) + 1 \in 1 .. Len(r.mesh.edges)
        /\ Len(m.edges) + 2 \in 1 .. Len(r.mesh.edges)
    BY <1>3, <1>9, <1>14
  <2>6. middle \in nn + 1 .. r.mesh.total_number_of_nodes
    BY <1>2, <1>3, <1>7, <1>9, <1>14
  <2>7. QED BY <1>3, <2>1, <2>2, <2>3, <2>4, <2>5, <2>6 DEF IsSplit
<1>16. \A i \in 1 .. Len(m.edges) : r.edges_immersion_status[i] = cut.edges_immersion_status[i]
  BY <1>12, <1>14
<1>17. \A i \in 1 .. m.total_number_of_nodes : r.immersions[i] = cut.immersions[i]
  BY <1>11, <1>14
<1>18. ASSUME NEW i \in 1 .. e - 1, Crosses(s, z, i)
       PROVE  /\ IsSplit(s, z, r, i) /\ Middle(r, i) = Middle(cut, i)
              /\ Middle(r, i) \in 1 .. m.total_number_of_nodes
  <2>1. IsSplit(s, z, cut, i)
    BY <1>18 DEF SplitUpTo
  <2>2. r.split_edges[i] = cut.split_edges[i]
    <3>1. i \in 1 .. ne /\ i # e
      BY <1>2, <1>3
    <3>2. QED BY <1>13, <1>14, <3>1
  <2>3. Grown(cut.mesh, r.mesh)
    BY <1>10, <1>14 DEF m
  <2>4. IsSplit(s, z, r, i) /\ Middle(r, i) = Middle(cut, i)
    <3>1. cut \in Cuts /\ r \in Cuts /\ nn \in Nat
      BY <1>1, <1>2, <1>14
    <3>2. /\ \A j \in 1 .. Len(cut.mesh.edges) :
               r.edges_immersion_status[j] = cut.edges_immersion_status[j]
          /\ \A j \in 1 .. cut.mesh.total_number_of_nodes :
               r.immersions[j] = cut.immersions[j]
      BY <1>16, <1>17 DEF m
    <3>3. QED BY <2>1, <2>2, <2>3, <3>1, <3>2, SplitStays
  <2>5. Middle(cut, i) \in nn + 1 .. m.total_number_of_nodes
    BY <2>1 DEF IsSplit, m
  <2>6. QED BY <1>2, <1>3, <2>4, <2>5
<1>19. \A i \in 1 .. e : Crosses(s, z, i) => IsSplit(s, z, r, i)
  BY <1>15, <1>18
<1>20. \A i, j \in 1 .. e : i # j /\ Crosses(s, z, i) /\ Crosses(s, z, j)
                            => Middle(r, i) # Middle(r, j)
  <2> SUFFICES ASSUME NEW i \in 1 .. e, NEW j \in 1 .. e, i # j,
                      Crosses(s, z, i), Crosses(s, z, j)
               PROVE  Middle(r, i) # Middle(r, j)
    OBVIOUS
  <2>1. middle \notin 1 .. m.total_number_of_nodes
    BY <1>3, <1>7
  <2>2. CASE i = e
    <3>1. j \in 1 .. e - 1
      BY <1>3, <2>2
    <3>2. QED BY <1>15, <1>18, <2>1, <2>2, <3>1
  <2>3. CASE j = e
    <3>1. i \in 1 .. e - 1
      BY <1>3, <2>3
    <3>2. QED BY <1>15, <1>18, <2>1, <2>3, <3>1
  <2>4. CASE i # e /\ j # e
    <3>1. i \in 1 .. e - 1 /\ j \in 1 .. e - 1
      BY <1>3, <2>4
    <3>2. Middle(cut, i) # Middle(cut, j)
      BY <3>1 DEF SplitUpTo
    <3>3. QED BY <1>18, <3>1, <3>2
  <2>5. QED BY <2>2, <2>3, <2>4
<1>21. /\ r.mesh.total_number_of_nodes <= nn + e /\ r.mesh.facets = s.facets
       /\ Len(r.immersions) = r.mesh.total_number_of_nodes
       /\ Len(r.edges_immersion_status) = Len(r.mesh.edges)
       /\ Len(r.split_edges) = ne /\ Grown(s, r.mesh) /\ EdgesExist(r.mesh)
  <2>1. r.mesh.total_number_of_nodes = middle /\ middle <= nn + e
    BY <1>1, <1>2, <1>3, <1>7, <1>9, <1>14, SMTT(40)
  <2>2. r.mesh.facets = s.facets
    BY <1>1, <1>6, <1>8, <1>9, <1>14
  <2>3. /\ Len(r.immersions) = middle /\ Len(r.split_edges) = ne
        /\ Len(r.edges_immersion_status) = Len(r.mesh.edges)
    BY <1>9, <1>11, <1>12, <1>13, <1>14
  <2>4. Grown(s, r.mesh) /\ EdgesExist(r.mesh)
    BY <1>9, <1>10, <1>14
  <2>5. QED BY <2>1, <2>2, <2>3, <2>4
<1>22. \A i \in 1 .. nn : r.immersions[i] = z[i]
  <2>1. \A i \in 1 .. nn : i \in 1 .. m.total_number_of_nodes /\ cut.immersions[i] = z[i]
    BY <1>2, <1>3 DEF SplitUpTo
  <2>2. QED BY <1>17, <2>1
<1>23. \A i \in 1 .. ne : r.edges_immersion_status[i] = StaticStatus(s, z, i)
  <2>1. \A i \in 1 .. ne : i \in 1 .. Len(m.edges)
                           /\ cut.edges_immersion_status[i] = StaticStatus(s, z, i)
    BY <1>2, <1>3 DEF SplitUpTo
  <2>2. QED BY <1>16, <2>1
<1>24. /\ r.facet_crosses_free_surface = Flagged(s, z)
       /\ r.emerged = <<>> /\ r.immersed = <<>> /\ r.surface_edges = {}
  BY <1>14 DEF SplitUpTo
<1>25. SplitUpTo(s, z, e, r)
  BY <1>14, <1>19, <1>20, <1>21, <1>22, <1>23, <1>24 DEF SplitUpTo
<1>26. QED BY <1>5, <1>25

StatusesOf(cut) ==
  [e \in 1 .. cut.mesh.nb_of_static_edges |->
     get_edge_immersion_status(cut.immersions[cut.mesh.edges[e][1]],
                               cut.immersions[cut.mesh.edges[e][2]])]
FlaggedBy(cut) ==
  UNION {ToSet(cut.mesh.facets_per_edge[e]) :
           e \in {i \in 1 .. cut.mesh.nb_of_static_edges :
                  flags_its_facets(StatusesOf(cut)[i])}}
FirstSplit(cut) ==
  [cut EXCEPT !.edges_immersion_status = StatusesOf(cut),
              !.facet_crosses_free_surface = FlaggedBy(cut)]
NextSplit(cut, e, x) ==
  IF crosses_free_surface(StatusesOf(cut)[e]) THEN split_partially_immersed_edge(x, e)
  ELSE x

\* The cuts after each edge.
IsAfterSplits(f, n, cut) ==
  f = [k \in 0 .. n |-> IF k = 0 THEN FirstSplit(cut) ELSE NextSplit(cut, k, f[k - 1])]

\* The recursive function of find_intersection_with_free_surface exists.
LEMMA SplitsExist ==
  ASSUME NEW cut, NEW n \in Nat
  PROVE  \E f : IsAfterSplits(f, n, cut)
<1> DEFINE T == {m \in 0 .. n : ~ \E f : IsAfterSplits(f, m, cut)}
<1>1. SUFFICES ASSUME T # {} PROVE FALSE
  OBVIOUS
<1>2. PICK m \in T : \A y \in T : m <= y
  <2>1. T \in SUBSET Nat
    OBVIOUS
  <2>2. QED BY <1>1, <2>1, LeastNat
<1>3. CASE m = 0
  <2> DEFINE f == [k \in 0 .. 0 |-> FirstSplit(cut)]
  <2>1. f = [k \in 0 .. 0 |-> IF k = 0 THEN FirstSplit(cut) ELSE NextSplit(cut, k, f[k - 1])]
    OBVIOUS
  <2> HIDE DEF f
  <2>2. IsAfterSplits(f, 0, cut)
    BY <2>1 DEF IsAfterSplits
  <2>3. QED BY <1>3, <2>2
<1>4. CASE m # 0
  <2>1. m \in 1 .. n /\ m - 1 \in 0 .. n /\ ~(m <= m - 1)
    BY <1>4
  <2>2. m - 1 \notin T
    BY <1>2, <2>1
  <2>3. PICK g : IsAfterSplits(g, m - 1, cut)
    BY <2>1, <2>2
  <2> DEFINE last == NextSplit(cut, m, g[m - 1])
             f == [k \in 0 .. m |-> IF k = m THEN last ELSE g[k]]
             h == [k \in 0 .. m |-> IF k = 0 THEN FirstSplit(cut)
                                    ELSE NextSplit(cut, k, f[k - 1])]
  <2>4. ASSUME NEW k \in 0 .. m PROVE f[k] = h[k]
    <3>1. CASE k = m
      <4>1. f[m] = last /\ f[m - 1] = g[m - 1]
        BY <2>1
      <4>2. h[m] = NextSplit(cut, m, f[m - 1])
        BY <2>1
      <4> HIDE DEF f, h
      <4>3. QED BY <3>1, <4>1, <4>2
    <3>2. CASE k # m
      <4>1. k \in 0 .. m - 1 /\ f[k] = g[k]
        BY <2>1, <3>2
      <4>2. g[k] = IF k = 0 THEN FirstSplit(cut) ELSE NextSplit(cut, k, g[k - 1])
        BY <2>3, <4>1 DEF IsAfterSplits
      <4>3. k # 0 => f[k - 1] = g[k - 1]
        BY <2>1, <3>2
      <4>4. h[k] = IF k = 0 THEN FirstSplit(cut) ELSE NextSplit(cut, k, f[k - 1])
        OBVIOUS
      <4> HIDE DEF f, h, last
      <4>5. QED BY <4>1, <4>2, <4>3, <4>4
    <3>3. QED BY <3>1, <3>2
  <2>5. f = h
    <3>1. f = [k \in 0 .. m |-> f[k]] /\ h = [k \in 0 .. m |-> h[k]]
      OBVIOUS
    <3> HIDE DEF f, h
    <3>2. QED BY <2>4, <3>1
  <2> HIDE DEF f
  <2>6. IsAfterSplits(f, m, cut)
    BY <2>5 DEF IsAfterSplits
  <2>7. QED BY <2>6
<1>5. QED BY <1>3, <1>4

Splits(cut) == CHOOSE f : IsAfterSplits(f, cut.mesh.nb_of_static_edges, cut)

\* find_intersection_with_free_surface looks at the edges one after the other.
LEMMA SplitsAre ==
  ASSUME NEW cut, cut.mesh.nb_of_static_edges \in Nat
  PROVE  LET n == cut.mesh.nb_of_static_edges
         IN /\ find_intersection_with_free_surface(cut) = Splits(cut)[n]
            /\ Splits(cut)[0] = FirstSplit(cut)
            /\ \A k \in 1 .. n : Splits(cut)[k] = NextSplit(cut, k, Splits(cut)[k - 1])
<1> DEFINE n == cut.mesh.nb_of_static_edges
           a == Splits(cut)
<1>1. n \in Nat
  OBVIOUS
<1>2. IsAfterSplits(a, n, cut)
  <2>1. \E f : IsAfterSplits(f, n, cut)
    BY <1>1, SplitsExist
  <2>2. QED BY <2>1, Zenon DEF Splits
<1>3. find_intersection_with_free_surface(cut) = a[n]
  BY DEF find_intersection_with_free_surface, Splits, IsAfterSplits, FirstSplit, NextSplit,
         FlaggedBy, StatusesOf
<1> HIDE DEF n, a
<1>4. \A k \in 0 .. n : a[k] = IF k = 0 THEN FirstSplit(cut) ELSE NextSplit(cut, k, a[k - 1])
  BY <1>2 DEF IsAfterSplits
<1>5. a[0] = FirstSplit(cut) /\ \A k \in 1 .. n : a[k] = NextSplit(cut, k, a[k - 1])
  BY <1>1, <1>4
<1>6. QED BY <1>3, <1>5 DEF n, a

\* At first nothing is split, and each edge has the status its ends give it.
LEMMA FirstSplitIs ==
  ASSUME NEW s, NEW z, Given(s, z)
  PROVE  /\ SplitUpTo(s, z, 0, FirstSplit(Cut(s, z)))
         /\ \A e \in 1 .. s.nb_of_static_edges :
              StatusesOf(Cut(s, z))[e] = StaticStatus(s, z, e)
<1> DEFINE cut == Cut(s, z)
           ne == s.nb_of_static_edges
           nn == s.nb_of_static_nodes
           r == FirstSplit(cut)
<1>1. /\ s \in Meshes /\ EdgesExist(s) /\ Grown(s, s) /\ nn \in Nat /\ ne \in Nat
      /\ Len(s.edges) = ne /\ s.total_number_of_nodes = nn
      /\ z \in Seq(Int) /\ Len(z) = nn
      /\ \A e \in 1 .. ne : StaticStatus(s, z, e) \in Statuses
  BY GivenParts
<1>2. /\ cut.mesh = s /\ cut.immersions = z
  BY DEF Cut
<1>3. StatusesOf(cut) = StaticStatuses(s, z)
  <2> HIDE DEF cut
  <2>1. QED BY <1>2 DEF StatusesOf, StaticStatuses, StaticStatus
<1>4. FlaggedBy(cut) = Flagged(s, z)
  <2> HIDE DEF cut
  <2>1. QED BY <1>2, <1>3 DEF FlaggedBy, Flagged
<1>5. /\ StaticStatuses(s, z) \in Seq(Statuses) /\ Len(StaticStatuses(s, z)) = ne
      /\ \A e \in 1 .. ne : StaticStatuses(s, z)[e] = StaticStatus(s, z, e)
  <2>1. StaticStatuses(s, z) \in [1 .. ne -> Statuses]
    BY <1>1 DEF StaticStatuses
  <2>2. \A e \in 1 .. ne : StaticStatuses(s, z)[e] = StaticStatus(s, z, e)
    BY DEF StaticStatuses
  <2>3. QED BY <1>1, <2>1, <2>2
<1>6. Flagged(s, z) \in SUBSET Nat
  <2>1. ASSUME NEW e \in 1 .. ne PROVE ToSet(s.facets_per_edge[e]) \subseteq Nat
    <3>1. s.facets_per_edge \in Seq(Seq(Nat)) /\ Len(s.facets_per_edge) = ne
      BY <1>1 DEF Given, Static, Meshes
    <3>2. s.facets_per_edge[e] \in Seq(Nat)
      BY <3>1, ElementOfSeq
    <3>3. QED BY <3>2 DEF ToSet
  <2>2. QED BY <2>1 DEF Flagged
<1>7. [e \in 1 .. ne |-> 1] \in Seq(Nat) /\ Len([e \in 1 .. ne |-> 1]) = ne
  BY <1>1
<1>8. r = [mesh |-> s, immersions |-> z, edges_immersion_status |-> StaticStatuses(s, z),
           split_edges |-> [e \in 1 .. ne |-> 1],
           facet_crosses_free_surface |-> Flagged(s, z),
           emerged |-> <<>>, immersed |-> <<>>, surface_edges |-> {}]
  <2>1. r = [Cut(s, z) EXCEPT !.edges_immersion_status = StaticStatuses(s, z),
                              !.facet_crosses_free_surface = Flagged(s, z)]
    BY <1>3, <1>4 DEF FirstSplit
  <2> HIDE DEF r
  <2>2. QED BY <2>1 DEF Cut
<1> HIDE DEF r, cut
<1>9. r \in Cuts
  <2>1. <<>> \in Seq(Nat)
    OBVIOUS
  <2> DEFINE ones == [e \in 1 .. ne |-> 1]
  <2>2. ones \in Seq(Nat)
    BY <1>7
  <2> HIDE DEF ones
  <2>3. QED BY <1>1, <1>5, <1>6, <1>8, <2>1, <2>2 DEF Cuts, ones
<1>10. /\ r.mesh = s /\ r.immersions = z /\ r.edges_immersion_status = StaticStatuses(s, z)
       /\ Len(r.split_edges) = ne /\ r.facet_crosses_free_surface = Flagged(s, z)
       /\ r.emerged = <<>> /\ r.immersed = <<>> /\ r.surface_edges = {}
  BY <1>7, <1>8
<1>11. SplitUpTo(s, z, 0, r)
  BY <1>1, <1>5, <1>9, <1>10 DEF SplitUpTo
<1>12. QED BY <1>3, <1>5, <1>11 DEF r, cut

\* In the end each edge that crosses the surface is split.
LEMMA AllSplit ==
  ASSUME NEW s, NEW z, Given(s, z)
  PROVE  SplitUpTo(s, z, s.nb_of_static_edges,
                   find_intersection_with_free_surface(Cut(s, z)))
<1> DEFINE cut == Cut(s, z)
           n == s.nb_of_static_edges
           a == Splits(cut)
           T == {k \in 0 .. n : SplitUpTo(s, z, k, a[k])}
<1>1. n \in Nat /\ cut.mesh = s
  BY GivenParts DEF Cut
<1>2. /\ SplitUpTo(s, z, 0, FirstSplit(cut))
      /\ \A e \in 1 .. n : StatusesOf(cut)[e] = StaticStatus(s, z, e)
  BY FirstSplitIs
<1> HIDE DEF cut
<1>3. /\ find_intersection_with_free_surface(cut) = a[n] /\ a[0] = FirstSplit(cut)
      /\ \A k \in 1 .. n : a[k] = NextSplit(cut, k, a[k - 1])
  BY <1>1, SplitsAre
<1> HIDE DEF n, a
<1>4. ASSUME NEW k \in 0 .. n - 1, k \in T PROVE k + 1 \in T
  <2>1. k + 1 \in 1 .. n /\ k + 1 \in 0 .. n /\ (k + 1) - 1 = k
    BY <1>1
  <2>2. a[k + 1] = NextSplit(cut, k + 1, a[k])
    BY <1>3, <2>1
  <2>3. SplitUpTo(s, z, k, a[k])
    BY <1>4
  <2>4. CASE Crosses(s, z, k + 1)
    <3>1. a[k + 1] = split_partially_immersed_edge(a[k], k + 1)
      BY <1>2, <2>1, <2>2, <2>4 DEF NextSplit, Crosses
    <3>2. SplitUpTo(s, z, k + 1, split_partially_immersed_edge(a[k], k + 1))
      <4>1. SplitUpTo(s, z, (k + 1) - 1, a[k]) /\ k + 1 \in 1 .. s.nb_of_static_edges
        BY <2>1, <2>3 DEF n
      <4>2. QED BY <4>1, SplitOneEdge
    <3>3. QED BY <2>1, <3>1, <3>2
  <2>5. CASE ~Crosses(s, z, k + 1)
    <3>1. a[k + 1] = a[k]
      BY <1>2, <2>1, <2>2, <2>5 DEF NextSplit, Crosses
    <3>2. SplitUpTo(s, z, k + 1, a[k])
      <4> DEFINE c == a[k]
      <4>1. SplitUpTo(s, z, k, c)
        BY <2>3
      <4> HIDE DEF c
      <4>2. \A e \in 1 .. k + 1 : Crosses(s, z, e) => e \in 1 .. k
        BY <1>1, <2>5
      <4>3. /\ \A e \in 1 .. k + 1 : Crosses(s, z, e) => IsSplit(s, z, c, e)
            /\ \A e, d \in 1 .. k + 1 : e # d /\ Crosses(s, z, e) /\ Crosses(s, z, d)
                                        => Middle(c, e) # Middle(c, d)
        BY <4>1, <4>2 DEF SplitUpTo
      <4>4. c.mesh.total_number_of_nodes <= s.nb_of_static_nodes + (k + 1)
        <5>1. c.mesh.total_number_of_nodes \in Nat /\ s.nb_of_static_nodes \in Nat
          BY <4>1, MeshParts, GivenParts DEF SplitUpTo, Grown
        <5>2. c.mesh.total_number_of_nodes <= s.nb_of_static_nodes + k
          BY <4>1 DEF SplitUpTo
        <5>3. QED BY <5>1, <5>2
      <4>5. SplitUpTo(s, z, k + 1, c)
        BY <4>1, <4>3, <4>4 DEF SplitUpTo
      <4>6. QED BY <4>5 DEF c
    <3>3. QED BY <2>1, <3>1, <3>2
  <2>6. QED BY <2>4, <2>5
<1>5. \A k \in 0 .. n : k \in T
  <2>1. 0 \in T
    BY <1>1, <1>2, <1>3
  <2> HIDE DEF T
  <2>2. QED BY <1>1, <1>4, <2>1, InductionUpTo
<1>6. SplitUpTo(s, z, n, a[n])
  BY <1>1, <1>5
<1>7. QED BY <1>3, <1>6 DEF n, cut

-----------------------------------------------------------------------------
(* The two sides of a facet *)

\* While the facets are classified: what is known of the edges does not change, and
\* the facets that have been classified are on their side.
OnSide(cut, side, n) ==
  IF side = "emerged" THEN cut.immersions[n] <= 0 ELSE cut.immersions[n] >= 0
FacetOnSide(cut, side, f) ==
  /\ f \in 1 .. Len(cut.mesh.facets)
  /\ \A i \in 1 .. Len(cut.mesh.facets[f]) : OnSide(cut, side, cut.mesh.facets[f][i])

Classified(s, z, cut) ==
  /\ cut \in Cuts
  /\ Grown(s, cut.mesh) /\ EdgesExist(cut.mesh) /\ FacetsExistIn(cut.mesh)
  /\ cut.mesh.total_number_of_nodes <= s.nb_of_static_nodes + s.nb_of_static_edges
  /\ Len(cut.immersions) = cut.mesh.total_number_of_nodes
  /\ \A i \in 1 .. s.nb_of_static_nodes : cut.immersions[i] = z[i]
  /\ \A e \in 1 .. s.nb_of_static_edges :
       cut.edges_immersion_status[e] = StaticStatus(s, z, e)
  /\ cut.facet_crosses_free_surface = Flagged(s, z)
  /\ cut.surface_edges \subseteq 1 .. Len(cut.mesh.edges)
  /\ \A e \in 1 .. s.nb_of_static_edges : Crosses(s, z, e) => IsSplit(s, z, cut, e)
  /\ \A e, d \in 1 .. s.nb_of_static_edges :
       e # d /\ Crosses(s, z, e) /\ Crosses(s, z, d) => Middle(cut, e) # Middle(cut, d)
  /\ \A i \in 1 .. Len(cut.emerged) : FacetOnSide(cut, "emerged", cut.emerged[i])
  /\ \A i \in 1 .. Len(cut.immersed) : FacetOnSide(cut, "immersed", cut.immersed[i])

\* Before the first facet is classified, the lists of facets are empty.
LEMMA ClassifiedFirst ==
  ASSUME NEW s, NEW z, Given(s, z), NEW cut, SplitUpTo(s, z, s.nb_of_static_edges, cut)
  PROVE  Classified(s, z, cut)
<1>1. FacetsExistIn(cut.mesh)
  <2>1. s.total_number_of_nodes \in Nat /\ cut.mesh.total_number_of_nodes \in Nat
    BY MeshParts, GivenParts DEF SplitUpTo, Grown
  <2>2. s.total_number_of_nodes <= cut.mesh.total_number_of_nodes
    BY DEF SplitUpTo, Grown
  <2>3. 1 .. s.total_number_of_nodes \subseteq 1 .. cut.mesh.total_number_of_nodes
    BY <2>1, <2>2
  <2>4. cut.mesh.facets = s.facets
    BY DEF SplitUpTo
  <2>5. QED BY <2>3, <2>4 DEF Given, FacetsExistIn
<1>2. Len(cut.emerged) = 0 /\ Len(cut.immersed) = 0
  BY DEF SplitUpTo
<1>3. cut.surface_edges \subseteq 1 .. Len(cut.mesh.edges)
  BY DEF SplitUpTo
<1>4. QED BY <1>1, <1>2, <1>3 DEF SplitUpTo, Classified

\* An edge of a facet, by the immersions of the nodes it runs between.
LEMMA KindOfEdge ==
  ASSUME NEW s, NEW z, Given(s, z), NEW o \in Along(1 .. s.nb_of_static_edges)
  PROVE  LET a == first_vertex_of_oriented_edge(s, o)
             b == second_vertex_of_oriented_edge(s, o)
             status == StaticStatus(s, z, o.edge)
         IN /\ a \in 1 .. s.nb_of_static_nodes /\ b \in 1 .. s.nb_of_static_nodes
            /\ z[a] \in Int /\ z[b] \in Int
            /\ both_ends_just_touch_free_surface(status) <=> z[a] = 0 /\ z[b] = 0
            /\ is_emerged(status) <=> z[a] <= 0 /\ z[b] <= 0 /\ (z[a] < 0 \/ z[b] < 0)
            /\ is_immersed(status) <=> z[a] >= 0 /\ z[b] >= 0 /\ (z[a] > 0 \/ z[b] > 0)
            /\ Crosses(s, z, o.edge) <=> (z[a] < 0 /\ z[b] > 0) \/ (z[a] > 0 /\ z[b] < 0)
            /\ flags_its_facets(status) \/ (z[a] < 0 /\ z[b] < 0) \/ (z[a] > 0 /\ z[b] > 0)
<1> DEFINE x == s.edges[o.edge][1]
           y == s.edges[o.edge][2]
           a == first_vertex_of_oriented_edge(s, o)
           b == second_vertex_of_oriented_edge(s, o)
           status == StaticStatus(s, z, o.edge)
<1>1. o.edge \in 1 .. s.nb_of_static_edges
  BY DEF Along
<1>2. /\ x \in 1 .. s.nb_of_static_nodes /\ y \in 1 .. s.nb_of_static_nodes
      /\ z[x] \in Int /\ z[y] \in Int
  BY <1>1, GivenParts
<1>3. \/ a = x /\ b = y
      \/ a = y /\ b = x
  BY DEF first_vertex_of_oriented_edge, second_vertex_of_oriented_edge
<1>4. status = get_edge_immersion_status(z[x], z[y])
  BY DEF StaticStatus
<1> HIDE DEF x, y, a, b, status
<1> DEFINE p == z[x]
           q == z[y]
<1>5. p \in Int /\ q \in Int /\ status = get_edge_immersion_status(p, q)
  BY <1>2, <1>4
<1> HIDE DEF p, q
<1>6. /\ crosses_free_surface(status) <=> (p < 0 /\ q > 0) \/ (p > 0 /\ q < 0)
      /\ is_emerged(status) <=> p <= 0 /\ q <= 0 /\ (p < 0 \/ q < 0)
      /\ is_immersed(status) <=> p >= 0 /\ q >= 0 /\ (p > 0 \/ q > 0)
      /\ both_ends_just_touch_free_surface(status) <=> p = 0 /\ q = 0
      /\ flags_its_facets(status) \/ (p < 0 /\ q < 0) \/ (p > 0 /\ q > 0)
  BY <1>5, StatusIs
<1>7. Crosses(s, z, o.edge) <=> crosses_free_surface(status)
  BY DEF Crosses, status
<1>8. CASE a = x /\ b = y
  <2>1. z[a] = p /\ z[b] = q
    BY <1>8 DEF p, q
  <2>2. QED BY <1>2, <1>5, <1>6, <1>7, <1>8, <2>1 DEF a, b, status
<1>9. CASE a = y /\ b = x
  <2>1. z[a] = q /\ z[b] = p
    BY <1>9 DEF p, q
  <2>2. QED BY <1>2, <1>5, <1>6, <1>7, <1>9, <2>1 DEF a, b, status
<1>10. QED BY <1>3, <1>8, <1>9

\* The halves of an edge in the direction it is run through.
LEMMA HalvesAre ==
  ASSUME NEW s, NEW z, Given(s, z), NEW cut, Classified(s, z, cut),
         NEW o \in Along(1 .. s.nb_of_static_edges), Crosses(s, z, o.edge)
  PROVE  LET a == first_vertex_of_oriented_edge(s, o)
             b == second_vertex_of_oriented_edge(s, o)
             h == Halves(cut, o)[1]
             g == Halves(cut, o)[2]
             middle == Middle(cut, o.edge)
         IN /\ h \in Along(1 .. Len(cut.mesh.edges)) /\ g \in Along(1 .. Len(cut.mesh.edges))
            /\ first_vertex_of_oriented_edge(cut.mesh, h) = a
            /\ second_vertex_of_oriented_edge(cut.mesh, h) = middle
            /\ first_vertex_of_oriented_edge(cut.mesh, g) = middle
            /\ second_vertex_of_oriented_edge(cut.mesh, g) = b
            /\ is_emerged(cut.edges_immersion_status[h.edge]) <=> z[a] < 0
            /\ middle \notin 1 .. s.nb_of_static_nodes
            /\ cut.immersions[middle] = 0
<1> DEFINE e == o.edge
           k == cut.split_edges[e]
           h == Halves(cut, o)[1]
           g == Halves(cut, o)[2]
           middle == Middle(cut, e)
           status == StaticStatus(s, z, e)
           a == first_vertex_of_oriented_edge(s, o)
           b == second_vertex_of_oriented_edge(s, o)
<1>1. /\ e \in 1 .. s.nb_of_static_edges /\ o.reversed \in BOOLEAN
  BY DEF Along
<1>2. IsSplit(s, z, cut, e)
  BY <1>1 DEF Classified
<1>3. /\ k \in 1 .. Len(cut.mesh.edges) /\ k + 1 \in 1 .. Len(cut.mesh.edges)
      /\ cut.mesh.edges[k][1] = s.edges[e][1]
      /\ cut.mesh.edges[k][2] = middle
      /\ cut.mesh.edges[k + 1][1] = middle
      /\ cut.mesh.edges[k + 1][2] = s.edges[e][2]
      /\ middle \in s.nb_of_static_nodes + 1 .. cut.mesh.total_number_of_nodes
      /\ cut.immersions[middle] = 0
      /\ cut.edges_immersion_status[k] = Half(status, 1)
      /\ cut.edges_immersion_status[k + 1] = Half(status, 2)
  BY <1>2 DEF IsSplit, Middle
<1>4. middle \notin 1 .. s.nb_of_static_nodes
  <2>1. s.nb_of_static_nodes \in Nat
    BY GivenParts
  <2>2. middle \in s.nb_of_static_nodes + 1 .. cut.mesh.total_number_of_nodes
    BY <1>3
  <2> HIDE DEF middle
  <2>3. QED BY <2>1, <2>2
<1>5. /\ 1 \in status.immersed <=> z[s.edges[e][1]] > 0
      /\ 2 \in status.immersed <=> z[s.edges[e][2]] > 0
  <2>1. z[s.edges[e][1]] \in Int /\ z[s.edges[e][2]] \in Int
    BY <1>1, GivenParts
  <2>2. QED BY <2>1, StatusIs DEF StaticStatus
<1>6. /\ z[a] \in Int /\ z[b] \in Int /\ (z[a] < 0 <=> ~(z[a] > 0))
  <2>1. (z[a] < 0 /\ z[b] > 0) \/ (z[a] > 0 /\ z[b] < 0)
    BY KindOfEdge
  <2>2. z[a] \in Int /\ z[b] \in Int
    BY KindOfEdge
  <2> HIDE DEF a, b
  <2>3. QED BY <2>1, <2>2
<1> HIDE DEF k, middle, status
<1>7. CASE o.reversed
  <2>1. h = OrientedEdge(k + 1, TRUE) /\ g = OrientedEdge(k, TRUE)
    BY <1>7 DEF Halves, k
  <2>2. /\ h.edge = k + 1 /\ h.reversed = TRUE /\ g.edge = k /\ g.reversed = TRUE
        /\ h \in Along(1 .. Len(cut.mesh.edges)) /\ g \in Along(1 .. Len(cut.mesh.edges))
    BY <1>3, <2>1 DEF OrientedEdge, Along
  <2>3. a = s.edges[e][2] /\ b = s.edges[e][1]
    BY <1>7 DEF first_vertex_of_oriented_edge, second_vertex_of_oriented_edge
  <2> HIDE DEF h, g, a, b
  <2>4. /\ first_vertex_of_oriented_edge(cut.mesh, h) = a
        /\ second_vertex_of_oriented_edge(cut.mesh, h) = middle
        /\ first_vertex_of_oriented_edge(cut.mesh, g) = middle
        /\ second_vertex_of_oriented_edge(cut.mesh, g) = b
    BY <1>3, <2>2, <2>3 DEF first_vertex_of_oriented_edge, second_vertex_of_oriented_edge
  <2>5. is_emerged(cut.edges_immersion_status[h.edge]) <=> z[a] < 0
    BY <1>3, <1>5, <1>6, <2>2, <2>3, HalfIsAStatus
  <2>6. QED BY <1>3, <1>4, <2>2, <2>4, <2>5 DEF h, g, a, b, middle
<1>8. CASE ~o.reversed
  <2>1. h = OrientedEdge(k, FALSE) /\ g = OrientedEdge(k + 1, FALSE)
    BY <1>8 DEF Halves, k
  <2>2. /\ h.edge = k /\ h.reversed = FALSE /\ g.edge = k + 1 /\ g.reversed = FALSE
        /\ h \in Along(1 .. Len(cut.mesh.edges)) /\ g \in Along(1 .. Len(cut.mesh.edges))
    BY <1>3, <2>1 DEF OrientedEdge, Along
  <2>3. a = s.edges[e][1] /\ b = s.edges[e][2]
    BY <1>8 DEF first_vertex_of_oriented_edge, second_vertex_of_oriented_edge
  <2> HIDE DEF h, g, a, b
  <2>4. /\ first_vertex_of_oriented_edge(cut.mesh, h) = a
        /\ second_vertex_of_oriented_edge(cut.mesh, h) = middle
        /\ first_vertex_of_oriented_edge(cut.mesh, g) = middle
        /\ second_vertex_of_oriented_edge(cut.mesh, g) = b
    BY <1>3, <2>2, <2>3 DEF first_vertex_of_oriented_edge, second_vertex_of_oriented_edge
  <2>5. is_emerged(cut.edges_immersion_status[h.edge]) <=> z[a] < 0
    BY <1>3, <1>5, <1>6, <2>2, <2>3, HalfIsAStatus
  <2>6. QED BY <1>3, <1>4, <2>2, <2>4, <2>5 DEF h, g, a, b, middle
<1>9. QED BY <1>1, <1>7, <1>8

\* Which operation an edge of each kind is added by.
Outwards(sides, h, g) ==
  [sides EXCEPT !.emerged = Append(@, h), !.first_immersed = Len(sides.immersed),
                !.immersed = Append(@, g), !.status = "immersed"]
Inwards(sides, h, g) ==
  [sides EXCEPT !.immersed = Append(@, h), !.first_emerged = Len(sides.emerged),
                !.emerged = Append(@, g), !.status = "emerged"]

\* The immersions of its ends decide what becomes of an edge of a facet.
LEMMA AddEdgeIs ==
  ASSUME NEW s, NEW z, Given(s, z), NEW cut, Classified(s, z, cut),
         NEW o \in Along(1 .. s.nb_of_static_edges), NEW sides
  PROVE  LET a == first_vertex_of_oriented_edge(s, o)
             b == second_vertex_of_oriented_edge(s, o)
             h == Halves(cut, o)[1]
             g == Halves(cut, o)[2]
         IN /\ z[a] = 0 /\ z[b] = 0 => AddEdge(cut, sides, o) = AddOnSurface(sides, o)
            /\ z[a] <= 0 /\ z[b] <= 0 /\ (z[a] < 0 \/ z[b] < 0)
                 => AddEdge(cut, sides, o) = AddEmerged(sides, o)
            /\ z[a] >= 0 /\ z[b] >= 0 /\ (z[a] > 0 \/ z[b] > 0)
                 => AddEdge(cut, sides, o) = AddImmersed(sides, o)
            /\ z[a] < 0 /\ z[b] > 0 => AddEdge(cut, sides, o) = Outwards(sides, h, g)
            /\ z[a] > 0 /\ z[b] < 0 => AddEdge(cut, sides, o) = Inwards(sides, h, g)
<1> DEFINE a == first_vertex_of_oriented_edge(s, o)
           b == second_vertex_of_oriented_edge(s, o)
           p == z[a]
           q == z[b]
           h == Halves(cut, o)[1]
           g == Halves(cut, o)[2]
           status == cut.edges_immersion_status[o.edge]
<1>1. status = StaticStatus(s, z, o.edge)
  BY DEF Along, Classified
<1>2. /\ p \in Int /\ q \in Int
      /\ both_ends_just_touch_free_surface(status) <=> p = 0 /\ q = 0
      /\ is_emerged(status) <=> p <= 0 /\ q <= 0 /\ (p < 0 \/ q < 0)
      /\ is_immersed(status) <=> p >= 0 /\ q >= 0 /\ (p > 0 \/ q > 0)
      /\ Crosses(s, z, o.edge) <=> (p < 0 /\ q > 0) \/ (p > 0 /\ q < 0)
  BY <1>1, KindOfEdge
<1>3. Crosses(s, z, o.edge) => (is_emerged(cut.edges_immersion_status[h.edge]) <=> p < 0)
  BY HalvesAre
<1>4. AddEdge(cut, sides, o) =
        CASE both_ends_just_touch_free_surface(status) -> AddOnSurface(sides, o)
          [] is_emerged(status) -> AddEmerged(sides, o)
          [] is_immersed(status) -> AddImmersed(sides, o)
          [] OTHER -> AddCrossing(cut, sides, o)
  BY DEF AddEdge
<1>5. AddCrossing(cut, sides, o) =
        IF is_emerged(cut.edges_immersion_status[h.edge]) THEN Outwards(sides, h, g)
        ELSE Inwards(sides, h, g)
  BY DEF AddCrossing, Outwards, Inwards
<1> HIDE DEF p, q, h, g, status
<1>6. p = 0 /\ q = 0 => AddEdge(cut, sides, o) = AddOnSurface(sides, o)
  BY <1>2, <1>4
<1>7. p <= 0 /\ q <= 0 /\ (p < 0 \/ q < 0) => AddEdge(cut, sides, o) = AddEmerged(sides, o)
  BY <1>2, <1>4
<1>8. p >= 0 /\ q >= 0 /\ (p > 0 \/ q > 0) => AddEdge(cut, sides, o) = AddImmersed(sides, o)
  BY <1>2, <1>4
<1>9. p < 0 /\ q > 0 => AddEdge(cut, sides, o) = Outwards(sides, h, g)
  BY <1>2, <1>3, <1>4, <1>5
<1>10. p > 0 /\ q < 0 => AddEdge(cut, sides, o) = Inwards(sides, h, g)
  BY <1>2, <1>3, <1>4, <1>5
<1>11. QED BY <1>6, <1>7, <1>8, <1>9, <1>10 DEF p, q, h, g

\* The edges of a facet on each side, after some of its edges.
IsLists(S, sides, em, im, status, first_em, first_im) ==
  /\ sides \in [emerged : Seq(S), immersed : Seq(S),
                status : {"unknown", "emerged", "immersed"},
                first_emerged : Nat, first_immersed : Nat]
  /\ sides.emerged = em /\ sides.immersed = im /\ sides.status = status
  /\ sides.first_emerged = first_em /\ sides.first_immersed = first_im

\* At first there are no edges on either side.
LEMMA NoSidesIs ==
  ASSUME NEW S
  PROVE  IsLists(S, NoSides, <<>>, <<>>, "unknown", 0, 0)
BY DEF NoSides, IsLists

\* The lengths of tuples.
LEMMA LengthOfTuples ==
  ASSUME NEW a, NEW b, NEW c
  PROVE  /\ Len(<<>>) = 0 /\ Len(<<a>>) = 1 /\ Len(<<a, b>>) = 2 /\ Len(<<a, b, c>>) = 3
OBVIOUS

\* What an emerged edge adds.
LEMMA ListEmerged ==
  ASSUME NEW S, NEW sides, NEW em, NEW im, NEW status, NEW i, NEW j,
         IsLists(S, sides, em, im, status, i, j), NEW o \in S
  PROVE  IsLists(S, AddEmerged(sides, o),
                 Append(em, o), im, "emerged",
                 IF status = "immersed" THEN Len(em) ELSE i, j)
<1> DEFINE p == Append(em, o)
           k == IF status = "immersed" THEN Len(em) ELSE i
           r == AddEmerged(sides, o)
<1>1. /\ sides.emerged = em /\ sides.immersed = im /\ sides.status = status
      /\ sides.first_emerged = i /\ sides.first_immersed = j
      /\ em \in Seq(S) /\ im \in Seq(S) /\ i \in Nat /\ j \in Nat
  BY DEF IsLists
<1>2. p \in Seq(S) /\ k \in Nat
  BY <1>1, AppendProperties
<1>3. r = [sides EXCEPT !.first_emerged = k, !.emerged = p, !.status = "emerged"]
  BY <1>1 DEF AddEmerged
<1> HIDE DEF p, k, r
<1>4. r \in [emerged : Seq(S), immersed : Seq(S),
            status : {"unknown", "emerged", "immersed"},
            first_emerged : Nat, first_immersed : Nat]
  BY <1>2, <1>3 DEF IsLists
<1>5. r.emerged = p /\ r.immersed = im
  BY <1>2, <1>3 DEF IsLists
<1>6. r.status = "emerged"
  BY <1>2, <1>3 DEF IsLists
<1>7. r.first_emerged = k /\ r.first_immersed = j
  BY <1>2, <1>3 DEF IsLists
<1>8. QED BY <1>4, <1>5, <1>6, <1>7 DEF IsLists, p, k, r

\* What an immersed edge adds.
LEMMA ListImmersed ==
  ASSUME NEW S, NEW sides, NEW em, NEW im, NEW status, NEW i, NEW j,
         IsLists(S, sides, em, im, status, i, j), NEW o \in S
  PROVE  IsLists(S, AddImmersed(sides, o),
                 em, Append(im, o), "immersed", i,
                 IF status = "emerged" THEN Len(im) ELSE j)
<1> DEFINE p == Append(im, o)
           k == IF status = "emerged" THEN Len(im) ELSE j
           r == AddImmersed(sides, o)
<1>1. /\ sides.emerged = em /\ sides.immersed = im /\ sides.status = status
      /\ sides.first_emerged = i /\ sides.first_immersed = j
      /\ em \in Seq(S) /\ im \in Seq(S) /\ i \in Nat /\ j \in Nat
  BY DEF IsLists
<1>2. p \in Seq(S) /\ k \in Nat
  BY <1>1, AppendProperties
<1>3. r = [sides EXCEPT !.first_immersed = k, !.immersed = p, !.status = "immersed"]
  BY <1>1 DEF AddImmersed
<1> HIDE DEF p, k, r
<1>4. r \in [emerged : Seq(S), immersed : Seq(S),
            status : {"unknown", "emerged", "immersed"},
            first_emerged : Nat, first_immersed : Nat]
  BY <1>2, <1>3 DEF IsLists
<1>5. r.emerged = em /\ r.immersed = p
  BY <1>2, <1>3 DEF IsLists
<1>6. r.status = "immersed"
  BY <1>2, <1>3 DEF IsLists
<1>7. r.first_emerged = i /\ r.first_immersed = k
  BY <1>2, <1>3 DEF IsLists
<1>8. QED BY <1>4, <1>5, <1>6, <1>7 DEF IsLists, p, k, r

\* What an edge on the surface adds: it is on both sides.
LEMMA ListOnSurface ==
  ASSUME NEW S, NEW sides, NEW em, NEW im, NEW status, NEW i, NEW j,
         IsLists(S, sides, em, im, status, i, j), NEW o \in S
  PROVE  IsLists(S, AddOnSurface(sides, o),
                 Append(em, o), Append(im, o), status,
                 IF status = "immersed" THEN Len(Append(em, o)) ELSE i,
                 IF status = "emerged" THEN Len(Append(im, o)) ELSE j)
<1> DEFINE p == Append(em, o)
           q == Append(im, o)
           k == IF status = "immersed" THEN Len(p) ELSE i
           l == IF status = "emerged" THEN Len(q) ELSE j
           r == AddOnSurface(sides, o)
<1>1. /\ sides.emerged = em /\ sides.immersed = im /\ sides.status = status
      /\ sides.first_emerged = i /\ sides.first_immersed = j
      /\ em \in Seq(S) /\ im \in Seq(S) /\ i \in Nat /\ j \in Nat
  BY DEF IsLists
<1>2. p \in Seq(S) /\ q \in Seq(S) /\ k \in Nat /\ l \in Nat
  BY <1>1, AppendProperties
<1>3. r = [sides EXCEPT !.emerged = p, !.immersed = q, !.first_emerged = k,
                     !.first_immersed = l]
  BY <1>1 DEF AddOnSurface
<1> HIDE DEF p, q, k, l, r
<1>4. r \in [emerged : Seq(S), immersed : Seq(S),
            status : {"unknown", "emerged", "immersed"},
            first_emerged : Nat, first_immersed : Nat]
  BY <1>2, <1>3 DEF IsLists
<1>5. r.emerged = p /\ r.immersed = q
  BY <1>2, <1>3 DEF IsLists
<1>6. r.status = status
  BY <1>2, <1>3 DEF IsLists
<1>7. r.first_emerged = k /\ r.first_immersed = l
  BY <1>2, <1>3 DEF IsLists
<1>8. QED BY <1>4, <1>5, <1>6, <1>7 DEF IsLists, p, q, k, l, r

\* What an edge from the emerged to the immersed side adds.
LEMMA ListOutwards ==
  ASSUME NEW S, NEW sides, NEW em, NEW im, NEW status, NEW i, NEW j,
         IsLists(S, sides, em, im, status, i, j), NEW h \in S, NEW g \in S
  PROVE  IsLists(S, Outwards(sides, h, g),
                 Append(em, h), Append(im, g), "immersed", i, Len(im))
<1> DEFINE p == Append(em, h)
           q == Append(im, g)
           k == Len(im)
           r == Outwards(sides, h, g)
<1>1. /\ sides.emerged = em /\ sides.immersed = im /\ sides.status = status
      /\ sides.first_emerged = i /\ sides.first_immersed = j
      /\ em \in Seq(S) /\ im \in Seq(S) /\ i \in Nat /\ j \in Nat
  BY DEF IsLists
<1>2. p \in Seq(S) /\ q \in Seq(S) /\ k \in Nat
  BY <1>1, AppendProperties
<1>3. r = [sides EXCEPT !.emerged = p, !.first_immersed = k, !.immersed = q,
                     !.status = "immersed"]
  BY <1>1 DEF Outwards
<1> HIDE DEF p, q, k, r
<1>4. r \in [emerged : Seq(S), immersed : Seq(S),
            status : {"unknown", "emerged", "immersed"},
            first_emerged : Nat, first_immersed : Nat]
  BY <1>2, <1>3 DEF IsLists
<1>5. r.emerged = p /\ r.immersed = q
  BY <1>2, <1>3 DEF IsLists
<1>6. r.status = "immersed"
  BY <1>2, <1>3 DEF IsLists
<1>7. r.first_emerged = i /\ r.first_immersed = k
  BY <1>2, <1>3 DEF IsLists
<1>8. QED BY <1>4, <1>5, <1>6, <1>7 DEF IsLists, p, q, k, r

\* What an edge from the immersed to the emerged side adds.
LEMMA ListInwards ==
  ASSUME NEW S, NEW sides, NEW em, NEW im, NEW status, NEW i, NEW j,
         IsLists(S, sides, em, im, status, i, j), NEW h \in S, NEW g \in S
  PROVE  IsLists(S, Inwards(sides, h, g),
                 Append(em, g), Append(im, h), "emerged", Len(em), j)
<1> DEFINE p == Append(im, h)
           q == Append(em, g)
           k == Len(em)
           r == Inwards(sides, h, g)
<1>1. /\ sides.emerged = em /\ sides.immersed = im /\ sides.status = status
      /\ sides.first_emerged = i /\ sides.first_immersed = j
      /\ em \in Seq(S) /\ im \in Seq(S) /\ i \in Nat /\ j \in Nat
  BY DEF IsLists
<1>2. p \in Seq(S) /\ q \in Seq(S) /\ k \in Nat
  BY <1>1, AppendProperties
<1>3. r = [sides EXCEPT !.immersed = p, !.first_emerged = k, !.emerged = q,
                     !.status = "emerged"]
  BY <1>1 DEF Inwards
<1> HIDE DEF p, q, k, r
<1>4. r \in [emerged : Seq(S), immersed : Seq(S),
            status : {"unknown", "emerged", "immersed"},
            first_emerged : Nat, first_immersed : Nat]
  BY <1>2, <1>3 DEF IsLists
<1>5. r.emerged = q /\ r.immersed = p
  BY <1>2, <1>3 DEF IsLists
<1>6. r.status = "emerged"
  BY <1>2, <1>3 DEF IsLists
<1>7. r.first_emerged = k /\ r.first_immersed = j
  BY <1>2, <1>3 DEF IsLists
<1>8. QED BY <1>4, <1>5, <1>6, <1>7 DEF IsLists, p, q, k, r

\* The lists after each sequence of edges that a triangle may have: E is an emerged edge,
\* I an immersed one, S one on the surface, X runs from emerged to immersed and Y back.
LEMMA SidesX ==
  ASSUME NEW S, NEW h1 \in S, NEW g1 \in S
  PROVE  IsLists(S, Outwards(NoSides, h1, g1),
                 <<h1>>, <<g1>>, "immersed", 0, 0)
<1>1. IsLists(S, Outwards(NoSides, h1, g1),
        Append(<<>>, h1), Append(<<>>, g1), "immersed", 0, Len(<<>>))
  BY NoSidesIs, ListOutwards
<1>2. QED BY <1>1, AppendToTuples, LengthOfTuples

LEMMA SidesI ==
  ASSUME NEW S, NEW o1 \in S
  PROVE  IsLists(S, AddImmersed(NoSides, o1),
                 <<>>, <<o1>>, "immersed", 0, 0)
<1>1. IsLists(S, AddImmersed(NoSides, o1),
        <<>>, Append(<<>>, o1), "immersed", 0,
          IF "unknown" = "emerged" THEN Len(<<>>) ELSE 0)
  BY NoSidesIs, ListImmersed
<1>2. QED BY <1>1, AppendToTuples, LengthOfTuples

LEMMA SidesE ==
  ASSUME NEW S, NEW o1 \in S
  PROVE  IsLists(S, AddEmerged(NoSides, o1),
                 <<o1>>, <<>>, "emerged", 0, 0)
<1>1. IsLists(S, AddEmerged(NoSides, o1),
        Append(<<>>, o1), <<>>, "emerged",
          IF "unknown" = "immersed" THEN Len(<<>>) ELSE 0, 0)
  BY NoSidesIs, ListEmerged
<1>2. QED BY <1>1, AppendToTuples, LengthOfTuples

LEMMA SidesY ==
  ASSUME NEW S, NEW h1 \in S, NEW g1 \in S
  PROVE  IsLists(S, Inwards(NoSides, h1, g1),
                 <<g1>>, <<h1>>, "emerged", 0, 0)
<1>1. IsLists(S, Inwards(NoSides, h1, g1),
        Append(<<>>, g1), Append(<<>>, h1), "emerged", Len(<<>>), 0)
  BY NoSidesIs, ListInwards
<1>2. QED BY <1>1, AppendToTuples, LengthOfTuples

LEMMA SidesS ==
  ASSUME NEW S, NEW o1 \in S
  PROVE  IsLists(S, AddOnSurface(NoSides, o1),
                 <<o1>>, <<o1>>, "unknown", 0, 0)
<1>1. IsLists(S, AddOnSurface(NoSides, o1),
        Append(<<>>, o1), Append(<<>>, o1), "unknown",
          IF "unknown" = "immersed" THEN Len(Append(<<>>, o1)) ELSE 0,
          IF "unknown" = "emerged" THEN Len(Append(<<>>, o1)) ELSE 0)
  BY NoSidesIs, ListOnSurface
<1>2. QED BY <1>1, AppendToTuples, LengthOfTuples

LEMMA SidesXI ==
  ASSUME NEW S, NEW h1 \in S, NEW g1 \in S, NEW o2 \in S
  PROVE  IsLists(S, AddImmersed(Outwards(NoSides, h1, g1), o2),
                 <<h1>>, <<g1, o2>>, "immersed", 0, 0)
<1>1. IsLists(S, AddImmersed(Outwards(NoSides, h1, g1), o2),
        <<h1>>, Append(<<g1>>, o2), "immersed", 0,
          IF "immersed" = "emerged" THEN Len(<<g1>>) ELSE 0)
  BY SidesX, ListImmersed
<1>2. QED BY <1>1, AppendToTuples, LengthOfTuples

LEMMA SidesIE ==
  ASSUME NEW S, NEW o1 \in S, NEW o2 \in S
  PROVE  IsLists(S, AddEmerged(AddImmersed(NoSides, o1), o2),
                 <<o2>>, <<o1>>, "emerged", 0, 0)
<1>1. IsLists(S, AddEmerged(AddImmersed(NoSides, o1), o2),
        Append(<<>>, o2), <<o1>>, "emerged",
          IF "immersed" = "immersed" THEN Len(<<>>) ELSE 0, 0)
  BY SidesI, ListEmerged
<1>2. QED BY <1>1, AppendToTuples, LengthOfTuples

LEMMA SidesEX ==
  ASSUME NEW S, NEW o1 \in S, NEW h2 \in S, NEW g2 \in S
  PROVE  IsLists(S, Outwards(AddEmerged(NoSides, o1), h2, g2),
                 <<o1, h2>>, <<g2>>, "immersed", 0, 0)
<1>1. IsLists(S, Outwards(AddEmerged(NoSides, o1), h2, g2),
        Append(<<o1>>, h2), Append(<<>>, g2), "immersed", 0, Len(<<>>))
  BY SidesE, ListOutwards
<1>2. QED BY <1>1, AppendToTuples, LengthOfTuples

LEMMA SidesYE ==
  ASSUME NEW S, NEW h1 \in S, NEW g1 \in S, NEW o2 \in S
  PROVE  IsLists(S, AddEmerged(Inwards(NoSides, h1, g1), o2),
                 <<g1, o2>>, <<h1>>, "emerged", 0, 0)
<1>1. IsLists(S, AddEmerged(Inwards(NoSides, h1, g1), o2),
        Append(<<g1>>, o2), <<h1>>, "emerged",
          IF "emerged" = "immersed" THEN Len(<<g1>>) ELSE 0, 0)
  BY SidesY, ListEmerged
<1>2. QED BY <1>1, AppendToTuples, LengthOfTuples

LEMMA SidesEI ==
  ASSUME NEW S, NEW o1 \in S, NEW o2 \in S
  PROVE  IsLists(S, AddImmersed(AddEmerged(NoSides, o1), o2),
                 <<o1>>, <<o2>>, "immersed", 0, 0)
<1>1. IsLists(S, AddImmersed(AddEmerged(NoSides, o1), o2),
        <<o1>>, Append(<<>>, o2), "immersed", 0,
          IF "emerged" = "emerged" THEN Len(<<>>) ELSE 0)
  BY SidesE, ListImmersed
<1>2. QED BY <1>1, AppendToTuples, LengthOfTuples

LEMMA SidesIY ==
  ASSUME NEW S, NEW o1 \in S, NEW h2 \in S, NEW g2 \in S
  PROVE  IsLists(S, Inwards(AddImmersed(NoSides, o1), h2, g2),
                 <<g2>>, <<o1, h2>>, "emerged", 0, 0)
<1>1. IsLists(S, Inwards(AddImmersed(NoSides, o1), h2, g2),
        Append(<<>>, g2), Append(<<o1>>, h2), "emerged", Len(<<>>), 0)
  BY SidesI, ListInwards
<1>2. QED BY <1>1, AppendToTuples, LengthOfTuples

LEMMA SidesXY ==
  ASSUME NEW S, NEW h1 \in S, NEW g1 \in S, NEW h2 \in S, NEW g2 \in S
  PROVE  IsLists(S, Inwards(Outwards(NoSides, h1, g1), h2, g2),
                 <<h1, g2>>, <<g1, h2>>, "emerged", 1, 0)
<1>1. IsLists(S, Inwards(Outwards(NoSides, h1, g1), h2, g2),
        Append(<<h1>>, g2), Append(<<g1>>, h2), "emerged", Len(<<h1>>), 0)
  BY SidesX, ListInwards
<1>2. QED BY <1>1, AppendToTuples, LengthOfTuples

LEMMA SidesYX ==
  ASSUME NEW S, NEW h1 \in S, NEW g1 \in S, NEW h2 \in S, NEW g2 \in S
  PROVE  IsLists(S, Outwards(Inwards(NoSides, h1, g1), h2, g2),
                 <<g1, h2>>, <<h1, g2>>, "immersed", 0, 1)
<1>1. IsLists(S, Outwards(Inwards(NoSides, h1, g1), h2, g2),
        Append(<<g1>>, h2), Append(<<h1>>, g2), "immersed", 0, Len(<<h1>>))
  BY SidesY, ListOutwards
<1>2. QED BY <1>1, AppendToTuples, LengthOfTuples

LEMMA SidesEE ==
  ASSUME NEW S, NEW o1 \in S, NEW o2 \in S
  PROVE  IsLists(S, AddEmerged(AddEmerged(NoSides, o1), o2),
                 <<o1, o2>>, <<>>, "emerged", 0, 0)
<1>1. IsLists(S, AddEmerged(AddEmerged(NoSides, o1), o2),
        Append(<<o1>>, o2), <<>>, "emerged",
          IF "emerged" = "immersed" THEN Len(<<o1>>) ELSE 0, 0)
  BY SidesE, ListEmerged
<1>2. QED BY <1>1, AppendToTuples, LengthOfTuples

LEMMA SidesSE ==
  ASSUME NEW S, NEW o1 \in S, NEW o2 \in S
  PROVE  IsLists(S, AddEmerged(AddOnSurface(NoSides, o1), o2),
                 <<o1, o2>>, <<o1>>, "emerged", 0, 0)
<1>1. IsLists(S, AddEmerged(AddOnSurface(NoSides, o1), o2),
        Append(<<o1>>, o2), <<o1>>, "emerged",
          IF "unknown" = "immersed" THEN Len(<<o1>>) ELSE 0, 0)
  BY SidesS, ListEmerged
<1>2. QED BY <1>1, AppendToTuples, LengthOfTuples

LEMMA SidesES ==
  ASSUME NEW S, NEW o1 \in S, NEW o2 \in S
  PROVE  IsLists(S, AddOnSurface(AddEmerged(NoSides, o1), o2),
                 <<o1, o2>>, <<o2>>, "emerged", 0, 1)
<1>1. IsLists(S, AddOnSurface(AddEmerged(NoSides, o1), o2),
        Append(<<o1>>, o2), Append(<<>>, o2), "emerged",
          IF "emerged" = "immersed" THEN Len(Append(<<o1>>, o2)) ELSE 0,
          IF "emerged" = "emerged" THEN Len(Append(<<>>, o2)) ELSE 0)
  BY SidesE, ListOnSurface
<1>2. QED BY <1>1, AppendToTuples, LengthOfTuples

LEMMA SidesII ==
  ASSUME NEW S, NEW o1 \in S, NEW o2 \in S
  PROVE  IsLists(S, AddImmersed(AddImmersed(NoSides, o1), o2),
                 <<>>, <<o1, o2>>, "immersed", 0, 0)
<1>1. IsLists(S, AddImmersed(AddImmersed(NoSides, o1), o2),
        <<>>, Append(<<o1>>, o2), "immersed", 0,
          IF "immersed" = "emerged" THEN Len(<<o1>>) ELSE 0)
  BY SidesI, ListImmersed
<1>2. QED BY <1>1, AppendToTuples, LengthOfTuples

LEMMA SidesSI ==
  ASSUME NEW S, NEW o1 \in S, NEW o2 \in S
  PROVE  IsLists(S, AddImmersed(AddOnSurface(NoSides, o1), o2),
                 <<o1>>, <<o1, o2>>, "immersed", 0, 0)
<1>1. IsLists(S, AddImmersed(AddOnSurface(NoSides, o1), o2),
        <<o1>>, Append(<<o1>>, o2), "immersed", 0,
          IF "unknown" = "emerged" THEN Len(<<o1>>) ELSE 0)
  BY SidesS, ListImmersed
<1>2. QED BY <1>1, AppendToTuples, LengthOfTuples

LEMMA SidesIS ==
  ASSUME NEW S, NEW o1 \in S, NEW o2 \in S
  PROVE  IsLists(S, AddOnSurface(AddImmersed(NoSides, o1), o2),
                 <<o2>>, <<o1, o2>>, "immersed", 1, 0)
<1>1. IsLists(S, AddOnSurface(AddImmersed(NoSides, o1), o2),
        Append(<<>>, o2), Append(<<o1>>, o2), "immersed",
          IF "immersed" = "immersed" THEN Len(Append(<<>>, o2)) ELSE 0,
          IF "immersed" = "emerged" THEN Len(Append(<<o1>>, o2)) ELSE 0)
  BY SidesI, ListOnSurface
<1>2. QED BY <1>1, AppendToTuples, LengthOfTuples

LEMMA SidesSS ==
  ASSUME NEW S, NEW o1 \in S, NEW o2 \in S
  PROVE  IsLists(S, AddOnSurface(AddOnSurface(NoSides, o1), o2),
                 <<o1, o2>>, <<o1, o2>>, "unknown", 0, 0)
<1>1. IsLists(S, AddOnSurface(AddOnSurface(NoSides, o1), o2),
        Append(<<o1>>, o2), Append(<<o1>>, o2), "unknown",
          IF "unknown" = "immersed" THEN Len(Append(<<o1>>, o2)) ELSE 0,
          IF "unknown" = "emerged" THEN Len(Append(<<o1>>, o2)) ELSE 0)
  BY SidesS, ListOnSurface
<1>2. QED BY <1>1, AppendToTuples, LengthOfTuples

LEMMA SidesXIE ==
  ASSUME NEW S, NEW h1 \in S, NEW g1 \in S, NEW o2 \in S, NEW o3 \in S
  PROVE  IsLists(S, AddEmerged(AddImmersed(Outwards(NoSides, h1, g1), o2), o3),
                 <<h1, o3>>, <<g1, o2>>, "emerged", 1, 0)
<1>1. IsLists(S, AddEmerged(AddImmersed(Outwards(NoSides, h1, g1), o2), o3),
        Append(<<h1>>, o3), <<g1, o2>>, "emerged",
          IF "immersed" = "immersed" THEN Len(<<h1>>) ELSE 0, 0)
  BY SidesXI, ListEmerged
<1>2. QED BY <1>1, AppendToTuples, LengthOfTuples

LEMMA SidesIEX ==
  ASSUME NEW S, NEW o1 \in S, NEW o2 \in S, NEW h3 \in S, NEW g3 \in S
  PROVE  IsLists(S, Outwards(AddEmerged(AddImmersed(NoSides, o1), o2), h3, g3),
                 <<o2, h3>>, <<o1, g3>>, "immersed", 0, 1)
<1>1. IsLists(S, Outwards(AddEmerged(AddImmersed(NoSides, o1), o2), h3, g3),
        Append(<<o2>>, h3), Append(<<o1>>, g3), "immersed", 0, Len(<<o1>>))
  BY SidesIE, ListOutwards
<1>2. QED BY <1>1, AppendToTuples, LengthOfTuples

LEMMA SidesEXI ==
  ASSUME NEW S, NEW o1 \in S, NEW h2 \in S, NEW g2 \in S, NEW o3 \in S
  PROVE  IsLists(S, AddImmersed(Outwards(AddEmerged(NoSides, o1), h2, g2), o3),
                 <<o1, h2>>, <<g2, o3>>, "immersed", 0, 0)
<1>1. IsLists(S, AddImmersed(Outwards(AddEmerged(NoSides, o1), h2, g2), o3),
        <<o1, h2>>, Append(<<g2>>, o3), "immersed", 0,
          IF "immersed" = "emerged" THEN Len(<<g2>>) ELSE 0)
  BY SidesEX, ListImmersed
<1>2. QED BY <1>1, AppendToTuples, LengthOfTuples

LEMMA SidesYEI ==
  ASSUME NEW S, NEW h1 \in S, NEW g1 \in S, NEW o2 \in S, NEW o3 \in S
  PROVE  IsLists(S, AddImmersed(AddEmerged(Inwards(NoSides, h1, g1), o2), o3),
                 <<g1, o2>>, <<h1, o3>>, "immersed", 0, 1)
<1>1. IsLists(S, AddImmersed(AddEmerged(Inwards(NoSides, h1, g1), o2), o3),
        <<g1, o2>>, Append(<<h1>>, o3), "immersed", 0,
          IF "emerged" = "emerged" THEN Len(<<h1>>) ELSE 0)
  BY SidesYE, ListImmersed
<1>2. QED BY <1>1, AppendToTuples, LengthOfTuples

LEMMA SidesEIY ==
  ASSUME NEW S, NEW o1 \in S, NEW o2 \in S, NEW h3 \in S, NEW g3 \in S
  PROVE  IsLists(S, Inwards(AddImmersed(AddEmerged(NoSides, o1), o2), h3, g3),
                 <<o1, g3>>, <<o2, h3>>, "emerged", 1, 0)
<1>1. IsLists(S, Inwards(AddImmersed(AddEmerged(NoSides, o1), o2), h3, g3),
        Append(<<o1>>, g3), Append(<<o2>>, h3), "emerged", Len(<<o1>>), 0)
  BY SidesEI, ListInwards
<1>2. QED BY <1>1, AppendToTuples, LengthOfTuples

LEMMA SidesIYE ==
  ASSUME NEW S, NEW o1 \in S, NEW h2 \in S, NEW g2 \in S, NEW o3 \in S
  PROVE  IsLists(S, AddEmerged(Inwards(AddImmersed(NoSides, o1), h2, g2), o3),
                 <<g2, o3>>, <<o1, h2>>, "emerged", 0, 0)
<1>1. IsLists(S, AddEmerged(Inwards(AddImmersed(NoSides, o1), h2, g2), o3),
        Append(<<g2>>, o3), <<o1, h2>>, "emerged",
          IF "emerged" = "immersed" THEN Len(<<g2>>) ELSE 0, 0)
  BY SidesIY, ListEmerged
<1>2. QED BY <1>1, AppendToTuples, LengthOfTuples

LEMMA SidesEXY ==
  ASSUME NEW S, NEW o1 \in S, NEW h2 \in S, NEW g2 \in S, NEW h3 \in S, NEW g3 \in S
  PROVE  IsLists(S, Inwards(Outwards(AddEmerged(NoSides, o1), h2, g2), h3, g3),
                 <<o1, h2, g3>>, <<g2, h3>>, "emerged", 2, 0)
<1>1. IsLists(S, Inwards(Outwards(AddEmerged(NoSides, o1), h2, g2), h3, g3),
        Append(<<o1, h2>>, g3), Append(<<g2>>, h3), "emerged", Len(<<o1, h2>>), 0)
  BY SidesEX, ListInwards
<1>2. QED BY <1>1, AppendToTuples, LengthOfTuples

LEMMA SidesXYE ==
  ASSUME NEW S, NEW h1 \in S, NEW g1 \in S, NEW h2 \in S, NEW g2 \in S, NEW o3 \in S
  PROVE  IsLists(S, AddEmerged(Inwards(Outwards(NoSides, h1, g1), h2, g2), o3),
                 <<h1, g2, o3>>, <<g1, h2>>, "emerged", 1, 0)
<1>1. IsLists(S, AddEmerged(Inwards(Outwards(NoSides, h1, g1), h2, g2), o3),
        Append(<<h1, g2>>, o3), <<g1, h2>>, "emerged",
          IF "emerged" = "immersed" THEN Len(<<h1, g2>>) ELSE 1, 0)
  BY SidesXY, ListEmerged
<1>2. QED BY <1>1, AppendToTuples, LengthOfTuples

LEMMA SidesYEX ==
  ASSUME NEW S, NEW h1 \in S, NEW g1 \in S, NEW o2 \in S, NEW h3 \in S, NEW g3 \in S
  PROVE  IsLists(S, Outwards(AddEmerged(Inwards(NoSides, h1, g1), o2), h3, g3),
                 <<g1, o2, h3>>, <<h1, g3>>, "immersed", 0, 1)
<1>1. IsLists(S, Outwards(AddEmerged(Inwards(NoSides, h1, g1), o2), h3, g3),
        Append(<<g1, o2>>, h3), Append(<<h1>>, g3), "immersed", 0, Len(<<h1>>))
  BY SidesYE, ListOutwards
<1>2. QED BY <1>1, AppendToTuples, LengthOfTuples

LEMMA SidesIYX ==
  ASSUME NEW S, NEW o1 \in S, NEW h2 \in S, NEW g2 \in S, NEW h3 \in S, NEW g3 \in S
  PROVE  IsLists(S, Outwards(Inwards(AddImmersed(NoSides, o1), h2, g2), h3, g3),
                 <<g2, h3>>, <<o1, h2, g3>>, "immersed", 0, 2)
<1>1. IsLists(S, Outwards(Inwards(AddImmersed(NoSides, o1), h2, g2), h3, g3),
        Append(<<g2>>, h3), Append(<<o1, h2>>, g3), "immersed", 0, Len(<<o1, h2>>))
  BY SidesIY, ListOutwards
<1>2. QED BY <1>1, AppendToTuples, LengthOfTuples

LEMMA SidesYXI ==
  ASSUME NEW S, NEW h1 \in S, NEW g1 \in S, NEW h2 \in S, NEW g2 \in S, NEW o3 \in S
  PROVE  IsLists(S, AddImmersed(Outwards(Inwards(NoSides, h1, g1), h2, g2), o3),
                 <<g1, h2>>, <<h1, g2, o3>>, "immersed", 0, 1)
<1>1. IsLists(S, AddImmersed(Outwards(Inwards(NoSides, h1, g1), h2, g2), o3),
        <<g1, h2>>, Append(<<h1, g2>>, o3), "immersed", 0,
          IF "immersed" = "emerged" THEN Len(<<h1, g2>>) ELSE 1)
  BY SidesYX, ListImmersed
<1>2. QED BY <1>1, AppendToTuples, LengthOfTuples

LEMMA SidesXIY ==
  ASSUME NEW S, NEW h1 \in S, NEW g1 \in S, NEW o2 \in S, NEW h3 \in S, NEW g3 \in S
  PROVE  IsLists(S, Inwards(AddImmersed(Outwards(NoSides, h1, g1), o2), h3, g3),
                 <<h1, g3>>, <<g1, o2, h3>>, "emerged", 1, 0)
<1>1. IsLists(S, Inwards(AddImmersed(Outwards(NoSides, h1, g1), o2), h3, g3),
        Append(<<h1>>, g3), Append(<<g1, o2>>, h3), "emerged", Len(<<h1>>), 0)
  BY SidesXI, ListInwards
<1>2. QED BY <1>1, AppendToTuples, LengthOfTuples

LEMMA SidesEEE ==
  ASSUME NEW S, NEW o1 \in S, NEW o2 \in S, NEW o3 \in S
  PROVE  IsLists(S, AddEmerged(AddEmerged(AddEmerged(NoSides, o1), o2), o3),
                 <<o1, o2, o3>>, <<>>, "emerged", 0, 0)
<1>1. IsLists(S, AddEmerged(AddEmerged(AddEmerged(NoSides, o1), o2), o3),
        Append(<<o1, o2>>, o3), <<>>, "emerged",
          IF "emerged" = "immersed" THEN Len(<<o1, o2>>) ELSE 0, 0)
  BY SidesEE, ListEmerged
<1>2. QED BY <1>1, AppendToTuples, LengthOfTuples

LEMMA SidesSEE ==
  ASSUME NEW S, NEW o1 \in S, NEW o2 \in S, NEW o3 \in S
  PROVE  IsLists(S, AddEmerged(AddEmerged(AddOnSurface(NoSides, o1), o2), o3),
                 <<o1, o2, o3>>, <<o1>>, "emerged", 0, 0)
<1>1. IsLists(S, AddEmerged(AddEmerged(AddOnSurface(NoSides, o1), o2), o3),
        Append(<<o1, o2>>, o3), <<o1>>, "emerged",
          IF "emerged" = "immersed" THEN Len(<<o1, o2>>) ELSE 0, 0)
  BY SidesSE, ListEmerged
<1>2. QED BY <1>1, AppendToTuples, LengthOfTuples

LEMMA SidesESE ==
  ASSUME NEW S, NEW o1 \in S, NEW o2 \in S, NEW o3 \in S
  PROVE  IsLists(S, AddEmerged(AddOnSurface(AddEmerged(NoSides, o1), o2), o3),
                 <<o1, o2, o3>>, <<o2>>, "emerged", 0, 1)
<1>1. IsLists(S, AddEmerged(AddOnSurface(AddEmerged(NoSides, o1), o2), o3),
        Append(<<o1, o2>>, o3), <<o2>>, "emerged",
          IF "emerged" = "immersed" THEN Len(<<o1, o2>>) ELSE 0, 1)
  BY SidesES, ListEmerged
<1>2. QED BY <1>1, AppendToTuples, LengthOfTuples

LEMMA SidesEES ==
  ASSUME NEW S, NEW o1 \in S, NEW o2 \in S, NEW o3 \in S
  PROVE  IsLists(S, AddOnSurface(AddEmerged(AddEmerged(NoSides, o1), o2), o3),
                 <<o1, o2, o3>>, <<o3>>, "emerged", 0, 1)
<1>1. IsLists(S, AddOnSurface(AddEmerged(AddEmerged(NoSides, o1), o2), o3),
        Append(<<o1, o2>>, o3), Append(<<>>, o3), "emerged",
          IF "emerged" = "immersed" THEN Len(Append(<<o1, o2>>, o3)) ELSE 0,
          IF "emerged" = "emerged" THEN Len(Append(<<>>, o3)) ELSE 0)
  BY SidesEE, ListOnSurface
<1>2. QED BY <1>1, AppendToTuples, LengthOfTuples

LEMMA SidesIII ==
  ASSUME NEW S, NEW o1 \in S, NEW o2 \in S, NEW o3 \in S
  PROVE  IsLists(S, AddImmersed(AddImmersed(AddImmersed(NoSides, o1), o2), o3),
                 <<>>, <<o1, o2, o3>>, "immersed", 0, 0)
<1>1. IsLists(S, AddImmersed(AddImmersed(AddImmersed(NoSides, o1), o2), o3),
        <<>>, Append(<<o1, o2>>, o3), "immersed", 0,
          IF "immersed" = "emerged" THEN Len(<<o1, o2>>) ELSE 0)
  BY SidesII, ListImmersed
<1>2. QED BY <1>1, AppendToTuples, LengthOfTuples

LEMMA SidesSII ==
  ASSUME NEW S, NEW o1 \in S, NEW o2 \in S, NEW o3 \in S
  PROVE  IsLists(S, AddImmersed(AddImmersed(AddOnSurface(NoSides, o1), o2), o3),
                 <<o1>>, <<o1, o2, o3>>, "immersed", 0, 0)
<1>1. IsLists(S, AddImmersed(AddImmersed(AddOnSurface(NoSides, o1), o2), o3),
        <<o1>>, Append(<<o1, o2>>, o3), "immersed", 0,
          IF "immersed" = "emerged" THEN Len(<<o1, o2>>) ELSE 0)
  BY SidesSI, ListImmersed
<1>2. QED BY <1>1, AppendToTuples, LengthOfTuples

LEMMA SidesISI ==
  ASSUME NEW S, NEW o1 \in S, NEW o2 \in S, NEW o3 \in S
  PROVE  IsLists(S, AddImmersed(AddOnSurface(AddImmersed(NoSides, o1), o2), o3),
                 <<o2>>, <<o1, o2, o3>>, "immersed", 1, 0)
<1>1. IsLists(S, AddImmersed(AddOnSurface(AddImmersed(NoSides, o1), o2), o3),
        <<o2>>, Append(<<o1, o2>>, o3), "immersed", 1,
          IF "immersed" = "emerged" THEN Len(<<o1, o2>>) ELSE 0)
  BY SidesIS, ListImmersed
<1>2. QED BY <1>1, AppendToTuples, LengthOfTuples

LEMMA SidesIIS ==
  ASSUME NEW S, NEW o1 \in S, NEW o2 \in S, NEW o3 \in S
  PROVE  IsLists(S, AddOnSurface(AddImmersed(AddImmersed(NoSides, o1), o2), o3),
                 <<o3>>, <<o1, o2, o3>>, "immersed", 1, 0)
<1>1. IsLists(S, AddOnSurface(AddImmersed(AddImmersed(NoSides, o1), o2), o3),
        Append(<<>>, o3), Append(<<o1, o2>>, o3), "immersed",
          IF "immersed" = "immersed" THEN Len(Append(<<>>, o3)) ELSE 0,
          IF "immersed" = "emerged" THEN Len(Append(<<o1, o2>>, o3)) ELSE 0)
  BY SidesII, ListOnSurface
<1>2. QED BY <1>1, AppendToTuples, LengthOfTuples

LEMMA SidesSSS ==
  ASSUME NEW S, NEW o1 \in S, NEW o2 \in S, NEW o3 \in S
  PROVE  IsLists(S, AddOnSurface(AddOnSurface(AddOnSurface(NoSides, o1), o2), o3),
                 <<o1, o2, o3>>, <<o1, o2, o3>>, "unknown", 0, 0)
<1>1. IsLists(S, AddOnSurface(AddOnSurface(AddOnSurface(NoSides, o1), o2), o3),
        Append(<<o1, o2>>, o3), Append(<<o1, o2>>, o3), "unknown",
          IF "unknown" = "immersed" THEN Len(Append(<<o1, o2>>, o3)) ELSE 0,
          IF "unknown" = "emerged" THEN Len(Append(<<o1, o2>>, o3)) ELSE 0)
  BY SidesSS, ListOnSurface
<1>2. QED BY <1>1, AppendToTuples, LengthOfTuples

\* The edges of a triangle are added one after the other.
LEMMA ThreeEdges ==
  ASSUME NEW cut, NEW edges, Len(edges) = 3
  PROVE  EdgesOnEachSide(cut, edges)
           = AddEdge(cut, AddEdge(cut, AddEdge(cut, NoSides, edges[1]), edges[2]), edges[3])
<1> DEFINE one == AddEdge(cut, NoSides, edges[1])
           two == AddEdge(cut, one, edges[2])
           three == AddEdge(cut, two, edges[3])
           IsIt(g) == g = [i \in 0 .. 3 |-> IF i = 0 THEN NoSides
                                            ELSE AddEdge(cut, g[i - 1], edges[i])]
           it == CHOOSE g : IsIt(g)
           f == [i \in 0 .. 3 |-> IF i = 0 THEN NoSides ELSE IF i = 1 THEN one
                                  ELSE IF i = 2 THEN two ELSE three]
           h == [i \in 0 .. 3 |-> IF i = 0 THEN NoSides
                                  ELSE AddEdge(cut, f[i - 1], edges[i])]
<1>1. EdgesOnEachSide(cut, edges) = it[3]
  BY DEF EdgesOnEachSide
<1>2. \A i \in 0 .. 3 : f[i] = h[i]
  <2>1. f[0] = NoSides /\ f[1] = one /\ f[2] = two /\ f[3] = three
    <3> HIDE DEF one, two, three
    <3>1. QED OBVIOUS
  <2> HIDE DEF f
  <2>2. /\ h[0] = NoSides /\ h[1] = AddEdge(cut, f[0], edges[1])
        /\ h[2] = AddEdge(cut, f[1], edges[2]) /\ h[3] = AddEdge(cut, f[2], edges[3])
    OBVIOUS
  <2> HIDE DEF h
  <2>3. QED BY <2>1, <2>2
<1>3. f = h
  <2>1. f = [i \in 0 .. 3 |-> f[i]] /\ h = [i \in 0 .. 3 |-> h[i]]
    OBVIOUS
  <2> HIDE DEF f, h
  <2>2. QED BY <1>2, <2>1
<1>4. IsIt(f)
  BY <1>3
<1>5. IsIt(it)
  <2> HIDE DEF f, IsIt
  <2>1. QED BY <1>4
<1>6. it[3] = three
  <2> HIDE DEF it
  <2>1. \A i \in 0 .. 3 : it[i] = IF i = 0 THEN NoSides
                                  ELSE AddEdge(cut, it[i - 1], edges[i])
    BY <1>5
  <2>2. it[0] = NoSides
    BY <2>1
  <2>3. it[1] = AddEdge(cut, it[0], edges[1])
    BY <2>1
  <2>4. it[2] = AddEdge(cut, it[1], edges[2])
    BY <2>1
  <2>5. it[3] = AddEdge(cut, it[2], edges[3])
    BY <2>1
  <2>6. QED BY <2>2, <2>3, <2>4, <2>5
<1>7. QED BY <1>1, <1>6

\* M is L with o put behind number k.
Inserted(S, L, k, o, M) ==
  /\ M \in Seq(S) /\ Len(M) = Len(L) + 1 /\ M[k + 1] = o
  /\ \A i \in 1 .. k : M[i] = L[i]
  /\ \A i \in k + 2 .. Len(L) + 1 : M[i] = L[i - 1]

\* InsertAt puts an element behind a position and keeps the others in order.
LEMMA InsertAtIs ==
  ASSUME NEW S, NEW L \in Seq(S), NEW k \in 0 .. Len(L), NEW o \in S
  PROVE  Inserted(S, L, k, o, InsertAt(L, k + 1, o))
<1> DEFINE n == Len(L)
           before == SubSeq(L, 1, k)
           after == SubSeq(L, k + 1, n)
<1>1. n \in Nat /\ k \in Nat /\ k <= n
  BY LenProperties
<1>2. /\ before \in Seq(S) /\ Len(before) = k /\ \A i \in 1 .. k : before[i] = L[i]
  BY <1>1, SubSeqProperties
<1>3. /\ after \in Seq(S) /\ Len(after) = n - k
      /\ \A i \in 1 .. n - k : after[i] = L[k + i]
  <2>1. CASE k = n
    <3>1. after = <<>>
      BY <1>1, <2>1
    <3>2. QED BY <1>1, <2>1, <3>1
  <2>2. CASE k # n
    BY <1>1, <2>2, SubSeqProperties
  <2>3. QED BY <2>1, <2>2
<1>4. InsertAt(L, k + 1, o) = before \o <<o>> \o after
  <2>1. (k + 1) - 1 = k
    BY <1>1
  <2>2. InsertAt(L, k + 1, o) = SubSeq(L, 1, (k + 1) - 1) \o <<o>> \o SubSeq(L, k + 1, Len(L))
    BY DEF InsertAt
  <2>3. QED BY <2>1, <2>2
<1> HIDE DEF before, after, n
<1> DEFINE start == before \o <<o>>
<1>5. /\ start \in Seq(S) /\ Len(start) = k + 1 /\ start[k + 1] = o
      /\ \A i \in 1 .. k : start[i] = before[i]
  BY <1>1, <1>2, ConcatProperties
<1> HIDE DEF start
<1>6. /\ start \o after \in Seq(S) /\ Len(start \o after) = n + 1
      /\ \A i \in 1 .. k + 1 : (start \o after)[i] = start[i]
      /\ \A i \in k + 2 .. n + 1 : (start \o after)[i] = after[i - (k + 1)]
  BY <1>1, <1>3, <1>5, ConcatProperties
<1>7. \A i \in k + 2 .. n + 1 : after[i - (k + 1)] = L[i - 1]
  <2> TAKE i \in k + 2 .. n + 1
  <2>1. i - (k + 1) \in 1 .. n - k /\ k + (i - (k + 1)) = i - 1
    BY <1>1
  <2>2. QED BY <1>3, <2>1
<1> DEFINE M == InsertAt(L, k + 1, o)
<1>8. M = start \o after
  BY <1>4 DEF start
<1> HIDE DEF M
<1>9. M \in Seq(S) /\ Len(M) = n + 1 /\ M[k + 1] = o
  BY <1>1, <1>5, <1>6, <1>8
<1>10. \A i \in 1 .. k : M[i] = L[i]
  <2> TAKE i \in 1 .. k
  <2>1. i \in 1 .. k + 1
    BY <1>1
  <2>2. QED BY <1>2, <1>5, <1>6, <1>8, <2>1
<1>11. \A i \in k + 2 .. n + 1 : M[i] = L[i - 1]
  BY <1>6, <1>7, <1>8
<1>12. QED BY <1>9, <1>10, <1>11 DEF n, M, Inserted

\* The edges of a facet on one side, in which a closing edge is put behind number k:
\* they end at different nodes of that side, and the closing edge at another one. When
\* they surround the facet by themselves, it ends where the last one does.
SideCloses(cut, L, k, side) ==
  /\ L \in Seq(Along(1 .. Len(cut.mesh.edges))) /\ k \in 0 .. Len(L) - 1
  /\ \A i, j \in 1 .. Len(L) :
       i # j => second_vertex_of_oriented_edge(cut.mesh, L[i])
                 # second_vertex_of_oriented_edge(cut.mesh, L[j])
  /\ \A i \in 1 .. Len(L) :
       OnSide(cut, side, second_vertex_of_oriented_edge(cut.mesh, L[i]))
  /\ OnSide(cut, side, first_vertex_of_oriented_edge(cut.mesh, L[k + 1]))
  /\ \/ k = 0 /\ first_vertex_of_oriented_edge(cut.mesh, L[k + 1])
                   = second_vertex_of_oriented_edge(cut.mesh, L[Len(L)])
     \/ \A i \in 1 .. Len(L) : first_vertex_of_oriented_edge(cut.mesh, L[k + 1])
                                 # second_vertex_of_oriented_edge(cut.mesh, L[i])

\* The edges of a mesh that has grown still run between the same nodes.
LEMMA OrientedStay ==
  ASSUME NEW s \in Meshes, NEW m, Grown(s, m), NEW o \in Along(1 .. Len(s.edges))
  PROVE  /\ o \in Along(1 .. Len(m.edges))
         /\ first_vertex_of_oriented_edge(m, o) = first_vertex_of_oriented_edge(s, o)
         /\ second_vertex_of_oriented_edge(m, o) = second_vertex_of_oriented_edge(s, o)
<1>1. o.edge \in 1 .. Len(s.edges) /\ o = [edge |-> o.edge, reversed |-> o.reversed]
      /\ o.reversed \in BOOLEAN
  BY DEF Along
<1>2. Len(s.edges) \in Nat /\ Len(m.edges) \in Nat /\ Len(s.edges) <= Len(m.edges)
  BY MeshParts DEF Grown
<1>3. m.edges[o.edge] = s.edges[o.edge]
  BY <1>1 DEF Grown
<1>4. o.edge \in 1 .. Len(m.edges)
  BY <1>1, <1>2
<1>5. o \in Along(1 .. Len(m.edges))
  BY <1>1, <1>4 DEF Along
<1>6. QED BY <1>3, <1>5 DEF first_vertex_of_oriented_edge, second_vertex_of_oriented_edge

\* The facet made of the edges of a side and the closing edge is on that side.
LEMMA CloseSide ==
  ASSUME NEW cut, cut.mesh \in Meshes, NEW L, NEW k, NEW side,
         SideCloses(cut, L, k, side),
         NEW m, Grown(cut.mesh, m), EdgesExist(m), NEW o \in Along(1 .. Len(m.edges)),
         second_vertex_of_oriented_edge(m, o)
           = first_vertex_of_oriented_edge(cut.mesh, L[k + 1])
  PROVE  LET M == InsertAt(L, k + 1, o)
         IN /\ M \in Seq(Along(1 .. Len(m.edges)))
            /\ \A i \in 1 .. Len(NewFacet(m, M)) : OnSide(cut, side, NewFacet(m, M)[i])
<1> DEFINE n == Len(L)
           S == Along(1 .. Len(m.edges))
           M == InsertAt(L, k + 1, o)
           end(i) == second_vertex_of_oriented_edge(cut.mesh, L[i])
           t == first_vertex_of_oriented_edge(cut.mesh, L[k + 1])
           new(i) == second_vertex_of_oriented_edge(m, M[i])
<1>1. /\ n \in Nat /\ k \in Nat /\ k < n
      /\ \A i \in 1 .. n : L[i] \in Along(1 .. Len(cut.mesh.edges))
  <2>1. L \in Seq(Along(1 .. Len(cut.mesh.edges))) /\ k \in 0 .. n - 1
    BY DEF SideCloses
  <2>2. n \in Nat
    BY <2>1, LenProperties
  <2>3. \A i \in 1 .. n : L[i] \in Along(1 .. Len(cut.mesh.edges))
    BY <2>1, ElementOfSeq
  <2> HIDE DEF n
  <2>4. QED BY <2>1, <2>2, <2>3
<1>2. \A i \in 1 .. n : L[i] \in S /\ second_vertex_of_oriented_edge(m, L[i]) = end(i)
  BY <1>1, OrientedStay
<1>3. m \in Meshes /\ L \in Seq(S)
  <2>1. m \in Meshes
    BY DEF Grown
  <2>2. L \in Seq(Along(1 .. Len(cut.mesh.edges)))
    BY DEF SideCloses
  <2>3. L = [i \in 1 .. n |-> L[i]]
    BY <2>2, LenProperties
  <2> HIDE DEF S
  <2>4. QED BY <1>1, <1>2, <2>1, <2>3, IsASeq
<1>4. /\ M \in Seq(S) /\ Len(M) = n + 1 /\ M[k + 1] = o
      /\ \A i \in 1 .. k : M[i] = L[i]
      /\ \A i \in k + 2 .. n + 1 : M[i] = L[i - 1]
  <2>1. k \in 0 .. Len(L)
    BY <1>1
  <2>2. o \in S
    OBVIOUS
  <2> HIDE DEF S
  <2>3. Inserted(S, L, k, o, M)
    BY <1>3, <2>1, <2>2, InsertAtIs
  <2>4. QED BY <2>3 DEF Inserted
<1>5. /\ new(k + 1) = t
      /\ \A i \in 1 .. k : new(i) = end(i)
      /\ \A i \in k + 2 .. n + 1 : new(i) = end(i - 1)
  <2>1. new(k + 1) = t
    BY <1>4
  <2>2. ASSUME NEW i \in 1 .. k PROVE new(i) = end(i)
    <3>1. i \in 1 .. n
      BY <1>1
    <3>2. QED BY <1>2, <1>4, <3>1
  <2>3. ASSUME NEW i \in k + 2 .. n + 1 PROVE new(i) = end(i - 1)
    <3>1. i - 1 \in 1 .. n
      BY <1>1
    <3>2. QED BY <1>2, <1>4, <3>1
  <2>4. QED BY <2>1, <2>2, <2>3
<1>6. /\ \A i, j \in 1 .. n : i # j => end(i) # end(j)
      /\ \A i \in 1 .. n : OnSide(cut, side, end(i))
      /\ OnSide(cut, side, t)
      /\ (k = 0 /\ t = end(n)) \/ (\A i \in 1 .. n : t # end(i))
  BY DEF SideCloses
<1>7. \E r \in 0 .. Len(M) :
        /\ \A i \in 1 .. r : OnSide(cut, side, new(i))
        /\ \A i, j \in 1 .. r : i # j => new(i) # new(j)
        /\ \A i \in r + 1 .. Len(M) : \E j \in 1 .. r : new(i) = new(j)
  <2> HIDE DEF n, end, t, new, M, S
  <2>1. \A i \in 1 .. n + 1 : \/ i \in 1 .. k
                             \/ i = k + 1
                             \/ (i \in k + 2 .. n + 1 /\ i - 1 \in k + 1 .. n)
    BY <1>1
  <2>2. \A i \in 1 .. k : i \in 1 .. n
    BY <1>1
  <2>3. \A i \in k + 1 .. n : i \in 1 .. n
    BY <1>1
  <2>4. \A i \in 1 .. n + 1 : OnSide(cut, side, new(i))
    BY <1>5, <1>6, <2>1, <2>2, <2>3
  <2>5. CASE \A i \in 1 .. n : t # end(i)
    <3>1. \A i, j \in 1 .. n + 1 : i # j => new(i) # new(j)
      <4>0. ASSUME NEW i \in 1 .. n + 1, i # k + 1
            PROVE  \E a \in 1 .. n : /\ new(i) = end(a)
                                     /\ (i <= k /\ a = i) \/ (i > k + 1 /\ a = i - 1)
        <5>1. CASE i \in 1 .. k
          BY <1>1, <1>5, <2>2, <5>1
        <5>2. CASE i \in k + 2 .. n + 1
          BY <1>1, <1>5, <2>1, <2>3, <5>2
        <5>3. QED BY <2>1, <4>0, <5>1, <5>2
      <4> TAKE i, j \in 1 .. n + 1
      <4> HAVE i # j
      <4>1. CASE i = k + 1
        BY <1>5, <2>1, <2>2, <2>3, <2>5, <4>1
      <4>2. CASE j = k + 1
        BY <1>5, <2>1, <2>2, <2>3, <2>5, <4>2
      <4>3. CASE i # k + 1 /\ j # k + 1
        <5>1. PICK a \in 1 .. n : /\ new(i) = end(a)
                                  /\ (i <= k /\ a = i) \/ (i > k + 1 /\ a = i - 1)
          BY <4>0, <4>3
        <5>2. PICK b \in 1 .. n : /\ new(j) = end(b)
                                  /\ (j <= k /\ b = j) \/ (j > k + 1 /\ b = j - 1)
          BY <4>0, <4>3
        <5>3. a # b
          BY <1>1, <5>1, <5>2
        <5>4. QED BY <1>6, <5>1, <5>2, <5>3
      <4>4. QED BY <4>1, <4>2, <4>3
    <3>2. n + 1 \in 0 .. n + 1 /\ n + 1 + 1 .. n + 1 = {}
      BY <1>1
    <3>3. QED BY <1>4, <2>4, <3>1, <3>2
  <2>6. CASE k = 0 /\ t = end(n)
    <3>1. new(1) = end(n) /\ \A i \in 2 .. n + 1 : new(i) = end(i - 1)
      BY <1>1, <1>5, <2>6
    <3>2. \A i, j \in 1 .. n : i # j => new(i) # new(j)
      <4> TAKE i, j \in 1 .. n
      <4> HAVE i # j
      <4>1. PICK a \in 1 .. n : new(i) = end(a) /\ ((i = 1 /\ a = n) \/ (i > 1 /\ a = i - 1))
        BY <1>1, <3>1
      <4>2. PICK b \in 1 .. n : new(j) = end(b) /\ ((j = 1 /\ b = n) \/ (j > 1 /\ b = j - 1))
        BY <1>1, <3>1
      <4>3. a # b
        BY <1>1, <4>1, <4>2
      <4>4. QED BY <1>6, <4>1, <4>2, <4>3
    <3>3. \A i \in n + 1 .. n + 1 : \E j \in 1 .. n : new(i) = new(j)
      <4>1. new(n + 1) = new(1) /\ 1 \in 1 .. n
        BY <1>1, <3>1
      <4>2. QED BY <1>1, <4>1
    <3>4. n \in 0 .. n + 1 /\ \A i \in 1 .. n : i \in 1 .. n + 1
      BY <1>1
    <3>5. n \in 0 .. Len(M) /\ \A i \in 1 .. n : OnSide(cut, side, new(i))
      BY <1>4, <2>4, <3>4
    <3>6. \A i \in n + 1 .. Len(M) : \E j \in 1 .. n : new(i) = new(j)
      BY <1>4, <3>3
    <3>7. QED BY <3>2, <3>5, <3>6
  <2>7. QED BY <1>6, <2>5, <2>6
<1>8. PICK r \in 0 .. Len(M) :
        /\ \A i \in 1 .. r : OnSide(cut, side, new(i))
        /\ \A i, j \in 1 .. r : i # j => new(i) # new(j)
        /\ \A i \in r + 1 .. Len(M) : \E j \in 1 .. r : new(i) = new(j)
  BY <1>7
<1> HIDE DEF M
<1>9. Len(NewFacet(m, M)) = r /\ \A i \in 1 .. r : NewFacet(m, M)[i] = new(i)
  BY <1>3, <1>4, <1>8, NewFacetNodes, ZenonT(60)
<1>10. QED BY <1>4, <1>8, <1>9 DEF M

\* An oriented edge runs from one node to another.
Runs(m, o, v, w) ==
  /\ o \in Along(1 .. Len(m.edges))
  /\ first_vertex_of_oriented_edge(m, o) = v /\ second_vertex_of_oriented_edge(m, o) = w

\* Two edges that end at different nodes of a side bound a facet of it.
LEMMA PairCloses ==
  ASSUME NEW cut, NEW side, NEW a, NEW b, NEW u, NEW v, NEW x, NEW y,
         Runs(cut.mesh, a, u, v), Runs(cut.mesh, b, x, y),
         OnSide(cut, side, v), OnSide(cut, side, y), v # y
  PROVE  /\ OnSide(cut, side, u) /\ u # v /\ u # y => SideCloses(cut, <<a, b>>, 0, side)
         /\ OnSide(cut, side, x) /\ x # v /\ x # y => SideCloses(cut, <<a, b>>, 1, side)
<1> DEFINE L == <<a, b>>
<1>1. L \in Seq(Along(1 .. Len(cut.mesh.edges))) /\ Len(L) = 2 /\ L[1] = a /\ L[2] = b
  BY DEF Runs
<1> HIDE DEF L
<1>2. /\ first_vertex_of_oriented_edge(cut.mesh, L[1]) = u
      /\ second_vertex_of_oriented_edge(cut.mesh, L[1]) = v
      /\ first_vertex_of_oriented_edge(cut.mesh, L[2]) = x
      /\ second_vertex_of_oriented_edge(cut.mesh, L[2]) = y
  BY <1>1 DEF Runs
<1>3. 0 + 1 = 1 /\ 1 + 1 = 2 /\ 0 \in 0 .. Len(L) - 1 /\ 1 \in 0 .. Len(L) - 1
      /\ \A i \in 1 .. Len(L) : i = 1 \/ i = 2
  BY <1>1
<1>4. ASSUME OnSide(cut, side, u), u # v, u # y PROVE SideCloses(cut, L, 0, side)
  BY <1>1, <1>2, <1>3, <1>4 DEF SideCloses
<1>5. ASSUME OnSide(cut, side, x), x # v, x # y PROVE SideCloses(cut, L, 1, side)
  BY <1>1, <1>2, <1>3, <1>5 DEF SideCloses
<1>6. QED BY <1>4, <1>5 DEF L

\* Three edges that end at different nodes of a side bound a facet of it.
LEMMA TripleCloses ==
  ASSUME NEW cut, NEW side, NEW a, NEW b, NEW c,
         NEW u, NEW v, NEW x, NEW y, NEW p, NEW q,
         Runs(cut.mesh, a, u, v), Runs(cut.mesh, b, x, y), Runs(cut.mesh, c, p, q),
         OnSide(cut, side, v), OnSide(cut, side, y), OnSide(cut, side, q),
         v # y, v # q, y # q
  PROVE  /\ OnSide(cut, side, u) /\ u # v /\ u # y
              => SideCloses(cut, <<a, b, c>>, 0, side)
         /\ OnSide(cut, side, x) /\ x # v /\ x # y /\ x # q
              => SideCloses(cut, <<a, b, c>>, 1, side)
         /\ OnSide(cut, side, p) /\ p # v /\ p # y /\ p # q
              => SideCloses(cut, <<a, b, c>>, 2, side)
<1> DEFINE L == <<a, b, c>>
<1>1. /\ L \in Seq(Along(1 .. Len(cut.mesh.edges))) /\ Len(L) = 3
      /\ L[1] = a /\ L[2] = b /\ L[3] = c
  BY DEF Runs
<1> HIDE DEF L
<1>2. /\ first_vertex_of_oriented_edge(cut.mesh, L[1]) = u
      /\ second_vertex_of_oriented_edge(cut.mesh, L[1]) = v
      /\ first_vertex_of_oriented_edge(cut.mesh, L[2]) = x
      /\ second_vertex_of_oriented_edge(cut.mesh, L[2]) = y
      /\ first_vertex_of_oriented_edge(cut.mesh, L[3]) = p
      /\ second_vertex_of_oriented_edge(cut.mesh, L[3]) = q
  BY <1>1 DEF Runs
<1>3. /\ 0 + 1 = 1 /\ 1 + 1 = 2 /\ 2 + 1 = 3
      /\ 0 \in 0 .. Len(L) - 1 /\ 1 \in 0 .. Len(L) - 1 /\ 2 \in 0 .. Len(L) - 1
      /\ \A i \in 1 .. Len(L) : i = 1 \/ i = 2 \/ i = 3
  BY <1>1
<1>4. /\ \A i, j \in 1 .. Len(L) :
           i # j => second_vertex_of_oriented_edge(cut.mesh, L[i])
                     # second_vertex_of_oriented_edge(cut.mesh, L[j])
      /\ \A i \in 1 .. Len(L) :
           OnSide(cut, side, second_vertex_of_oriented_edge(cut.mesh, L[i]))
  BY <1>2, <1>3
<1>5. ASSUME OnSide(cut, side, u), u # v, u # y PROVE SideCloses(cut, L, 0, side)
  <2>1. \/ u = second_vertex_of_oriented_edge(cut.mesh, L[Len(L)])
        \/ \A i \in 1 .. Len(L) : u # second_vertex_of_oriented_edge(cut.mesh, L[i])
    BY <1>1, <1>2, <1>3, <1>5
  <2>2. QED BY <1>1, <1>2, <1>3, <1>4, <1>5, <2>1 DEF SideCloses
<1>6. ASSUME OnSide(cut, side, x), x # v, x # y, x # q PROVE SideCloses(cut, L, 1, side)
  <2>1. \A i \in 1 .. Len(L) : x # second_vertex_of_oriented_edge(cut.mesh, L[i])
    BY <1>2, <1>3, <1>6
  <2>2. QED BY <1>1, <1>2, <1>3, <1>4, <1>6, <2>1 DEF SideCloses
<1>7. ASSUME OnSide(cut, side, p), p # v, p # y, p # q PROVE SideCloses(cut, L, 2, side)
  <2>1. \A i \in 1 .. Len(L) : p # second_vertex_of_oriented_edge(cut.mesh, L[i])
    BY <1>2, <1>3, <1>7
  <2>2. QED BY <1>1, <1>2, <1>3, <1>4, <1>7, <2>1 DEF SideCloses
<1>8. QED BY <1>5, <1>6, <1>7 DEF L

\* The edge of a facet from node v to node w, where the immersions are p and q. When it
\* crosses the surface, its halves h and g meet in a new node.
Crossing(cut, v, w) ==
  \/ cut.immersions[v] < 0 /\ cut.immersions[w] > 0
  \/ cut.immersions[v] > 0 /\ cut.immersions[w] < 0
EdgeOf(cut, corners, o, h, g, v, w, middle) ==
  LET p == cut.immersions[v]
      q == cut.immersions[w]
  IN /\ p \in Int /\ q \in Int /\ Runs(cut.mesh, o, v, w)
     /\ Crossing(cut, v, w)
          => /\ Runs(cut.mesh, h, v, middle) /\ Runs(cut.mesh, g, middle, w)
             /\ cut.immersions[middle] = 0 /\ middle \notin corners
     /\ \A sides :
          /\ p = 0 /\ q = 0 => AddEdge(cut, sides, o) = AddOnSurface(sides, o)
          /\ p <= 0 /\ q <= 0 /\ (p < 0 \/ q < 0)
               => AddEdge(cut, sides, o) = AddEmerged(sides, o)
          /\ p >= 0 /\ q >= 0 /\ (p > 0 \/ q > 0)
               => AddEdge(cut, sides, o) = AddImmersed(sides, o)
          /\ p < 0 /\ q > 0 => AddEdge(cut, sides, o) = Outwards(sides, h, g)
          /\ p > 0 /\ q < 0 => AddEdge(cut, sides, o) = Inwards(sides, h, g)

\* The nodes of a facet that is kept whole are on one side; a facet that is split has
\* two parts that are.
Parted(cut, sides, v1, v2, v3) ==
  /\ sides.emerged \in Seq(Along(1 .. Len(cut.mesh.edges)))
  /\ sides.immersed \in Seq(Along(1 .. Len(cut.mesh.edges)))
  /\ IF Len(sides.emerged) <= 1
     THEN OnSide(cut, "immersed", v1) /\ OnSide(cut, "immersed", v2) /\ OnSide(cut, "immersed", v3)
     ELSE IF Len(sides.immersed) <= 1
     THEN OnSide(cut, "emerged", v1) /\ OnSide(cut, "emerged", v2) /\ OnSide(cut, "emerged", v3)
     ELSE /\ SideCloses(cut, sides.emerged, sides.first_emerged, "emerged")
          /\ SideCloses(cut, sides.immersed, sides.first_immersed, "immersed")

\* The corners of a facet, and its edges.
LEMMA FacetCorners ==
  ASSUME NEW s, NEW z, Given(s, z), NEW f \in 1 .. s.nb_of_static_facets
  PROVE  LET v == s.facets[f]
             o == s.oriented_edges_per_facet[f]
         IN /\ Len(v) = 3 /\ Len(o) = 3
            /\ v[1] # v[2] /\ v[2] # v[3] /\ v[3] # v[1]
            /\ \A i \in 1 .. 3 :
                 /\ o[i] \in Along(1 .. s.nb_of_static_edges)
                 /\ f \in ToSet(s.facets_per_edge[o[i].edge])
                 /\ v[i] \in 1 .. s.nb_of_static_nodes
                 /\ v[(i % 3) + 1] \in 1 .. s.nb_of_static_nodes
                 /\ first_vertex_of_oriented_edge(s, o[i]) = v[i]
                 /\ second_vertex_of_oriented_edge(s, o[i]) = v[(i % 3) + 1]
            /\ o[1].edge # o[2].edge /\ o[2].edge # o[3].edge /\ o[3].edge # o[1].edge
<1> DEFINE v == s.facets[f]
           o == s.oriented_edges_per_facet[f]
<1>1. /\ s \in Meshes /\ EdgesExist(s) /\ s.nb_of_static_facets = Len(s.facets)
      /\ s.nb_of_static_edges = Len(s.edges)
      /\ s.total_number_of_nodes = s.nb_of_static_nodes
      /\ Len(s.oriented_edges_per_facet) = Len(s.facets) /\ Triangle(s, f)
  BY DEF Given, Static
<1>2. o \in Seq(OrientedEdges)
  <2>1. s.oriented_edges_per_facet \in Seq(Seq(OrientedEdges))
    BY <1>1, MeshParts
  <2>2. QED BY <1>1, <2>1, ElementOfSeq
<1>3. /\ Len(v) = 3 /\ Len(o) = 3
      /\ \A i, j \in 1 .. 3 : i # j => v[i] # v[j]
      /\ \A i \in 1 .. 3 :
           /\ o[i].edge \in 1 .. Len(s.edges)
           /\ first_vertex_of_oriented_edge(s, o[i]) = v[i]
           /\ second_vertex_of_oriented_edge(s, o[i]) = v[(i % 3) + 1]
           /\ f \in ToSet(s.facets_per_edge[o[i].edge])
  BY <1>1 DEF Triangle
<1>4. ASSUME NEW i \in 1 .. 3 PROVE o[i] \in Along(1 .. s.nb_of_static_edges)
  <2>1. o[i] \in OrientedEdges
    BY <1>2, <1>3, ElementOfSeq
  <2>2. o[i].edge \in 1 .. s.nb_of_static_edges
    BY <1>1, <1>3
  <2> HIDE DEF o
  <2>3. QED BY <2>1, <2>2 DEF OrientedEdges, Along
<1>5. ASSUME NEW i \in 1 .. 3
      PROVE  v[i] \in 1 .. s.nb_of_static_nodes /\ v[(i % 3) + 1] \in 1 .. s.nb_of_static_nodes
  <2>1. o[i] \in Along(1 .. Len(s.edges))
    BY <1>1, <1>4
  <2>2. /\ first_vertex_of_oriented_edge(s, o[i]) \in 1 .. s.total_number_of_nodes
        /\ second_vertex_of_oriented_edge(s, o[i]) \in 1 .. s.total_number_of_nodes
    <3> HIDE DEF o
    <3>1. QED BY <1>1, <2>1, EndsOfOriented
  <2>3. /\ first_vertex_of_oriented_edge(s, o[i]) = v[i]
        /\ second_vertex_of_oriented_edge(s, o[i]) = v[(i % 3) + 1]
    BY <1>3
  <2> HIDE DEF v, o
  <2>4. QED BY <1>1, <2>2, <2>3
<1>6. v[1] # v[2] /\ v[2] # v[3] /\ v[3] # v[1]
  BY <1>3
<1>7. 1 % 3 = 1 /\ 2 % 3 = 2 /\ 3 % 3 = 0
  OBVIOUS
<1>8. \A i \in 1 .. 3 : \/ v[i] = s.edges[o[i].edge][1] /\ v[(i % 3) + 1] = s.edges[o[i].edge][2]
                        \/ v[i] = s.edges[o[i].edge][2] /\ v[(i % 3) + 1] = s.edges[o[i].edge][1]
  BY <1>3 DEF first_vertex_of_oriented_edge, second_vertex_of_oriented_edge
<1> HIDE DEF v, o
<1>9. o[1].edge # o[2].edge /\ o[2].edge # o[3].edge /\ o[3].edge # o[1].edge
  <2>1. /\ \/ v[1] = s.edges[o[1].edge][1] /\ v[2] = s.edges[o[1].edge][2]
           \/ v[1] = s.edges[o[1].edge][2] /\ v[2] = s.edges[o[1].edge][1]
        /\ \/ v[2] = s.edges[o[2].edge][1] /\ v[3] = s.edges[o[2].edge][2]
           \/ v[2] = s.edges[o[2].edge][2] /\ v[3] = s.edges[o[2].edge][1]
        /\ \/ v[3] = s.edges[o[3].edge][1] /\ v[1] = s.edges[o[3].edge][2]
           \/ v[3] = s.edges[o[3].edge][2] /\ v[1] = s.edges[o[3].edge][1]
    BY <1>7, <1>8
  <2>2. QED BY <1>6, <2>1
<1>10. QED BY <1>3, <1>4, <1>5, <1>6, <1>9 DEF v, o

\* The oriented edges of a facet are edges between its nodes, with a node of their own
\* where they cross the surface.
LEMMA EdgeOfFacet ==
  ASSUME NEW s, NEW z, Given(s, z), NEW cut, Classified(s, z, cut),
         NEW o \in Along(1 .. s.nb_of_static_edges),
         NEW corners, corners \subseteq 1 .. s.nb_of_static_nodes
  PROVE  LET v == first_vertex_of_oriented_edge(s, o)
             w == second_vertex_of_oriented_edge(s, o)
         IN /\ EdgeOf(cut, corners, o, Halves(cut, o)[1], Halves(cut, o)[2], v, w,
                      Middle(cut, o.edge))
            /\ Crossing(cut, v, w) <=> Crosses(s, z, o.edge)
            /\ cut.immersions[v] = z[v] /\ cut.immersions[w] = z[w]
<1> DEFINE v == first_vertex_of_oriented_edge(s, o)
           w == second_vertex_of_oriented_edge(s, o)
           h == Halves(cut, o)[1]
           g == Halves(cut, o)[2]
           middle == Middle(cut, o.edge)
<1>1. /\ v \in 1 .. s.nb_of_static_nodes /\ w \in 1 .. s.nb_of_static_nodes
      /\ z[v] \in Int /\ z[w] \in Int
      /\ Crosses(s, z, o.edge) <=> (z[v] < 0 /\ z[w] > 0) \/ (z[v] > 0 /\ z[w] < 0)
  BY KindOfEdge
<1>2. cut.immersions[v] = z[v] /\ cut.immersions[w] = z[w]
  BY <1>1 DEF Classified
<1>3. Crossing(cut, v, w) <=> Crosses(s, z, o.edge)
  BY <1>1, <1>2 DEF Crossing
<1>4. Runs(cut.mesh, o, v, w)
  <2>1. s \in Meshes /\ s.nb_of_static_edges = Len(s.edges) /\ Grown(s, cut.mesh)
    BY GivenParts DEF Classified
  <2>2. QED BY <2>1, OrientedStay DEF Runs
<1>5. ASSUME Crossing(cut, v, w)
      PROVE  /\ Runs(cut.mesh, h, v, middle) /\ Runs(cut.mesh, g, middle, w)
             /\ cut.immersions[middle] = 0 /\ middle \notin corners
  <2>1. Crosses(s, z, o.edge)
    BY <1>3, <1>5
  <2>2. /\ h \in Along(1 .. Len(cut.mesh.edges)) /\ g \in Along(1 .. Len(cut.mesh.edges))
        /\ first_vertex_of_oriented_edge(cut.mesh, h) = v
        /\ second_vertex_of_oriented_edge(cut.mesh, h) = middle
        /\ first_vertex_of_oriented_edge(cut.mesh, g) = middle
        /\ second_vertex_of_oriented_edge(cut.mesh, g) = w
        /\ middle \notin 1 .. s.nb_of_static_nodes
        /\ cut.immersions[middle] = 0
    BY <2>1, HalvesAre
  <2> HIDE DEF v, w, h, g, middle
  <2>3. QED BY <2>2 DEF Runs
<1>6. \A sides :
        /\ z[v] = 0 /\ z[w] = 0 => AddEdge(cut, sides, o) = AddOnSurface(sides, o)
        /\ z[v] <= 0 /\ z[w] <= 0 /\ (z[v] < 0 \/ z[w] < 0)
             => AddEdge(cut, sides, o) = AddEmerged(sides, o)
        /\ z[v] >= 0 /\ z[w] >= 0 /\ (z[v] > 0 \/ z[w] > 0)
             => AddEdge(cut, sides, o) = AddImmersed(sides, o)
        /\ z[v] < 0 /\ z[w] > 0 => AddEdge(cut, sides, o) = Outwards(sides, h, g)
        /\ z[v] > 0 /\ z[w] < 0 => AddEdge(cut, sides, o) = Inwards(sides, h, g)
  BY AddEdgeIs
<1> HIDE DEF v, w, h, g, middle
<1>7. EdgeOf(cut, corners, o, h, g, v, w, middle)
  BY <1>1, <1>2, <1>4, <1>5, <1>6 DEF EdgeOf
<1>8. QED BY <1>2, <1>3, <1>7 DEF v, w, h, g, middle

\* The facets of a mesh with a side from one node to another, and a mesh with as many in
\* one direction as in the other.
With(s, x, y) ==
  {f \in 1 .. Len(s.facets) :
     \E i \in 1 .. 3 : s.facets[f][i] = x /\ s.facets[f][(i % 3) + 1] = y}
Balanced(s) == \A x, y : Cardinality(With(s, x, y)) = Cardinality(With(s, y, x))

\* A facet has a side between two nodes where it has one between their corners.
LEMMA SameSides ==
  ASSUME NEW hull, DOMAIN hull = 1 .. Len(hull), NEW s, SameCorners(s, hull),
         NEW f \in 1 .. Len(hull), NEW i \in 1 .. 3, NEW j \in 1 .. 3
  PROVE  With(s, s.facets[f][i], s.facets[f][j]) = FacetsWith(hull, hull[f][i], hull[f][j])
<1>1. Len(s.facets) = Len(hull)
  BY DEF SameCorners
<1>2. ASSUME NEW g \in 1 .. Len(hull), NEW k \in 1 .. 3, NEW l \in 1 .. 3
      PROVE  s.facets[g][k] = s.facets[f][l] <=> hull[g][k] = hull[f][l]
  BY ZenonT(60) DEF SameCorners
<1>3. ASSUME NEW g \in 1 .. Len(hull), NEW k \in 1 .. 3
      PROVE  /\ s.facets[g][k] = s.facets[f][i] <=> hull[g][k] = hull[f][i]
             /\ s.facets[g][(k % 3) + 1] = s.facets[f][j] <=> hull[g][(k % 3) + 1] = hull[f][j]
  <2>1. (k % 3) + 1 \in 1 .. 3
    OBVIOUS
  <2>2. QED BY <1>2, <2>1, Zenon
<1>4. QED BY <1>1, <1>3, ZenonT(60) DEF With, FacetsWith

\* The mesh of a closed hull is balanced.
LEMMA ClosedIsBalanced ==
  ASSUME HullsAreClosed, NEW hull \in Hulls, NEW s, SameCorners(s, hull)
  PROVE  Balanced(s)
<1>1. hull \in Seq(Triangles)
  BY HullsAssumption
<1>2. DOMAIN hull = 1 .. Len(hull)
  BY <1>1, LenProperties
<1>3. ASSUME NEW x, NEW y, With(s, x, y) # {}
      PROVE  Cardinality(With(s, x, y)) = Cardinality(With(s, y, x))
  <2>1. PICK f \in 1 .. Len(s.facets), i \in 1 .. 3 :
          s.facets[f][i] = x /\ s.facets[f][(i % 3) + 1] = y
    BY <1>3 DEF With
  <2> DEFINE j == (i % 3) + 1
  <2>2. j \in 1 .. 3
    OBVIOUS
  <2>3. f \in 1 .. Len(hull) /\ x = s.facets[f][i] /\ y = s.facets[f][j]
    BY <2>1 DEF SameCorners
  <2> HIDE DEF j
  <2>4. /\ With(s, x, y) = FacetsWith(hull, hull[f][i], hull[f][j])
        /\ With(s, y, x) = FacetsWith(hull, hull[f][j], hull[f][i])
    BY <1>2, <2>2, <2>3, SameSides
  <2>5. hull[f][i] \in Corners /\ hull[f][j] \in Corners
    <3>1. hull[f] \in Triangles
      BY <1>1, <2>3, ElementOfSeq
    <3>2. hull[f] \in [1 .. 3 -> Corners]
      BY <3>1 DEF Triangles
    <3>3. QED BY <2>2, <3>2
  <2>6. QED BY <2>4, <2>5 DEF HullsAreClosed
<1>4. ASSUME NEW x, NEW y
      PROVE  Cardinality(With(s, x, y)) = Cardinality(With(s, y, x))
  <2>1. CASE With(s, x, y) # {}
    BY <1>3, <2>1
  <2>2. CASE With(s, y, x) # {}
    BY <1>3, <2>2
  <2>3. CASE With(s, x, y) = {} /\ With(s, y, x) = {}
    BY <2>3
  <2>4. QED BY <2>1, <2>2, <2>3
<1>5. QED BY <1>4 DEF Balanced

\* A side of the hull, in two pieces where it crosses the surface.
PieceOf(cut, v, w, middle) ==
  IF Crossing(cut, v, w) THEN {<<v, middle>>, <<middle, w>>} ELSE {<<v, w>>}
Piece(s, cut, f, i) ==
  PieceOf(cut, s.facets[f][i], s.facets[f][(i % 3) + 1],
          Middle(cut, s.oriented_edges_per_facet[f][i].edge))
Pieces(s, cut, f) == UNION {Piece(s, cut, f, i) : i \in 1 .. 3}
PiecedBy(s, cut, p) == {f \in 1 .. Len(s.facets) : p \in Pieces(s, cut, f)}

\* The edges of a facet of the hull run along its sides.
EdgesKnown(s, f) ==
  \A j \in 1 .. 3 :
    /\ s.oriented_edges_per_facet[f][j] \in Along(1 .. s.nb_of_static_edges)
    /\ s.facets[f][j] \in 1 .. s.nb_of_static_nodes
    /\ s.facets[f][(j % 3) + 1] \in 1 .. s.nb_of_static_nodes
    /\ first_vertex_of_oriented_edge(s, s.oriented_edges_per_facet[f][j])
         = s.facets[f][j]
    /\ second_vertex_of_oriented_edge(s, s.oriented_edges_per_facet[f][j])
         = s.facets[f][(j % 3) + 1]

\* They do.
LEMMA EdgesAlongSides ==
  ASSUME NEW s, NEW z, Given(s, z), NEW f \in 1 .. Len(s.facets)
  PROVE  EdgesKnown(s, f)
<1> DEFINE v == s.facets[f]
           o == s.oriented_edges_per_facet[f]
<1>1. f \in 1 .. s.nb_of_static_facets
  BY GivenParts
<1>2. \A j \in 1 .. 3 :
        /\ o[j] \in Along(1 .. s.nb_of_static_edges)
        /\ f \in ToSet(s.facets_per_edge[o[j].edge])
        /\ v[j] \in 1 .. s.nb_of_static_nodes
        /\ v[(j % 3) + 1] \in 1 .. s.nb_of_static_nodes
        /\ first_vertex_of_oriented_edge(s, o[j]) = v[j]
        /\ second_vertex_of_oriented_edge(s, o[j]) = v[(j % 3) + 1]
  BY <1>1, FacetCorners, ZenonT(60)
<1> HIDE DEF v, o
<1>3. \A j \in 1 .. 3 :
        /\ o[j] \in Along(1 .. s.nb_of_static_edges)
        /\ v[j] \in 1 .. s.nb_of_static_nodes
        /\ v[(j % 3) + 1] \in 1 .. s.nb_of_static_nodes
        /\ first_vertex_of_oriented_edge(s, o[j]) = v[j]
        /\ second_vertex_of_oriented_edge(s, o[j]) = v[(j % 3) + 1]
  BY <1>2, ZenonT(60)
<1>4. QED BY <1>3, ZenonT(60) DEF EdgesKnown, v, o

\* Side i of facet f runs from node v to node w along edge e.
IsSide(s, f, i, v, w, e) ==
  /\ f \in 1 .. Len(s.facets) /\ i \in 1 .. 3
  /\ v = s.facets[f][i] /\ w = s.facets[f][(i % 3) + 1]
  /\ e = s.oriented_edges_per_facet[f][i].edge
Between(s, e, v, w) == {s.edges[e][1], s.edges[e][2]} = {v, w}

\* The sides of a facet of the hull.
LEMMA SideOfFacet ==
  ASSUME NEW s, NEW z, Given(s, z), NEW cut, Classified(s, z, cut),
         NEW f, NEW i, NEW v, NEW w, NEW e, IsSide(s, f, i, v, w, e)
  PROVE  /\ v \in 1 .. s.nb_of_static_nodes /\ w \in 1 .. s.nb_of_static_nodes
         /\ e \in 1 .. s.nb_of_static_edges
         /\ Between(s, e, v, w)
         /\ Crossing(cut, v, w) <=> Crosses(s, z, e)
         /\ Crossing(cut, v, w) => Middle(cut, e) \notin 1 .. s.nb_of_static_nodes
<1> DEFINE o == s.oriented_edges_per_facet[f][i]
<1>3. /\ o \in Along(1 .. s.nb_of_static_edges)
      /\ v \in 1 .. s.nb_of_static_nodes /\ w \in 1 .. s.nb_of_static_nodes
      /\ first_vertex_of_oriented_edge(s, o) = v
      /\ second_vertex_of_oriented_edge(s, o) = w
      /\ o.edge = e
  BY EdgesAlongSides, ZenonT(60) DEF IsSide, EdgesKnown
<1> HIDE DEF o
<1>4. e \in 1 .. s.nb_of_static_edges /\ o.reversed \in BOOLEAN
  BY <1>3 DEF Along
<1>5. Between(s, e, v, w)
  <2>1. /\ o.reversed => v = s.edges[e][2] /\ w = s.edges[e][1]
        /\ ~o.reversed => v = s.edges[e][1] /\ w = s.edges[e][2]
    BY <1>3, Zenon DEF first_vertex_of_oriented_edge, second_vertex_of_oriented_edge
  <2>2. QED BY <2>1 DEF Between
<1>6. Crossing(cut, v, w) <=> Crosses(s, z, e)
  <2>1. {} \subseteq 1 .. s.nb_of_static_nodes
    OBVIOUS
  <2>2. QED BY <1>3, <2>1, EdgeOfFacet
<1>7. Crosses(s, z, e) => Middle(cut, e) \notin 1 .. s.nb_of_static_nodes
  BY <1>3, HalvesAre
<1>8. QED BY <1>3, <1>4, <1>5, <1>6, <1>7

\* The facets that have a piece are those that have the side, when the piece is on no other.
LEMMA PiecedByWith ==
  ASSUME NEW s, NEW cut, NEW x, NEW y, NEW p,
         \A f \in 1 .. Len(s.facets) : \A i \in 1 .. 3 :
           p \in Piece(s, cut, f, i) <=> s.facets[f][i] = x /\ s.facets[f][(i % 3) + 1] = y
  PROVE  PiecedBy(s, cut, p) = With(s, x, y)
<1>1. ASSUME NEW f \in 1 .. Len(s.facets)
      PROVE  p \in Pieces(s, cut, f)
               <=> \E i \in 1 .. 3 : s.facets[f][i] = x /\ s.facets[f][(i % 3) + 1] = y
  <2>1. p \in Pieces(s, cut, f) <=> \E i \in 1 .. 3 : p \in Piece(s, cut, f, i)
    BY ZenonT(60) DEF Pieces
  <2>2. QED BY <2>1, ZenonT(60)
<1>2. ASSUME NEW f \in 1 .. Len(s.facets)
      PROVE  f \in PiecedBy(s, cut, p) <=> f \in With(s, x, y)
  BY <1>1, ZenonT(60) DEF PiecedBy, With
<1>3. /\ PiecedBy(s, cut, p) \subseteq 1 .. Len(s.facets)
      /\ With(s, x, y) \subseteq 1 .. Len(s.facets)
  BY ZenonT(60) DEF PiecedBy, With
<1>4. QED BY <1>2, <1>3, ZenonT(60)

\* Where a side does not cross the surface, the facets that have it as a piece are those
\* that have it as a side.
LEMMA WholePiece ==
  ASSUME NEW s, NEW z, Given(s, z), NEW cut, Classified(s, z, cut),
         NEW x \in 1 .. s.nb_of_static_nodes, NEW y \in 1 .. s.nb_of_static_nodes,
         ~Crossing(cut, x, y)
  PROVE  PiecedBy(s, cut, <<x, y>>) = With(s, x, y)
<1>1. ASSUME NEW f \in 1 .. Len(s.facets), NEW i \in 1 .. 3
      PROVE  <<x, y>> \in Piece(s, cut, f, i)
               <=> s.facets[f][i] = x /\ s.facets[f][(i % 3) + 1] = y
  <2>0. PICK v, w, d : IsSide(s, f, i, v, w, d)
    BY DEF IsSide
  <2> DEFINE middle == Middle(cut, d)
  <2>1. Crossing(cut, v, w) => middle \notin 1 .. s.nb_of_static_nodes
    BY <2>0, SideOfFacet, ZenonT(60)
  <2>3. Piece(s, cut, f, i) = PieceOf(cut, v, w, middle)
    BY <2>0, Zenon DEF Piece, IsSide
  <2> HIDE DEF middle
  <2>2. <<x, y>> \in PieceOf(cut, v, w, middle) <=> v = x /\ w = y
    BY <2>1 DEF PieceOf
  <2>4. QED BY <2>0, <2>2, <2>3 DEF IsSide
<1>2. QED BY <1>1, PiecedByWith

\* Where it does, both pieces are had by the facets that have the side.
LEMMA HalfPiece ==
  ASSUME NEW s, NEW z, Given(s, z), EdgesDiffer(s.edges), NEW cut, Classified(s, z, cut),
         NEW e \in 1 .. s.nb_of_static_edges, Crosses(s, z, e),
         NEW x \in 1 .. s.nb_of_static_nodes, NEW y \in 1 .. s.nb_of_static_nodes,
         Between(s, e, x, y), Crossing(cut, x, y),
         NEW m, m = Middle(cut, e)
  PROVE  /\ PiecedBy(s, cut, <<x, m>>) = With(s, x, y)
         /\ PiecedBy(s, cut, <<m, y>>) = With(s, x, y)
<1>0. x # y
  <2>1. z[x] = cut.immersions[x] /\ z[y] = cut.immersions[y] /\ z[x] \in Int /\ z[y] \in Int
    BY GivenParts DEF Classified
  <2>2. QED BY <2>1 DEF Crossing
<1>1. m \notin 1 .. s.nb_of_static_nodes
  <2>1. IsSplit(s, z, cut, e) /\ s.nb_of_static_nodes \in Nat
    BY GivenParts DEF Classified
  <2>2. m \in s.nb_of_static_nodes + 1 .. cut.mesh.total_number_of_nodes
    BY <2>1 DEF IsSplit
  <2>3. QED BY <2>1, <2>2
<1>2. ASSUME NEW f \in 1 .. Len(s.facets), NEW i \in 1 .. 3
      PROVE  /\ <<x, m>> \in Piece(s, cut, f, i)
                  <=> s.facets[f][i] = x /\ s.facets[f][(i % 3) + 1] = y
             /\ <<m, y>> \in Piece(s, cut, f, i)
                  <=> s.facets[f][i] = x /\ s.facets[f][(i % 3) + 1] = y
  <2>0. PICK v, w, d : IsSide(s, f, i, v, w, d)
    BY DEF IsSide
  <2> DEFINE middle == Middle(cut, d)
  <2>p. Piece(s, cut, f, i) = PieceOf(cut, v, w, middle)
    BY <2>0, Zenon DEF Piece, IsSide
  <2>1. /\ v \in 1 .. s.nb_of_static_nodes /\ w \in 1 .. s.nb_of_static_nodes
        /\ d \in 1 .. s.nb_of_static_edges /\ Between(s, d, v, w)
        /\ Crossing(cut, v, w) <=> Crosses(s, z, d)
        /\ Crossing(cut, v, w) => middle \notin 1 .. s.nb_of_static_nodes
    BY <2>0, SideOfFacet, ZenonT(60)
  <2>2. {v, w} = {x, y} => d = e
    <3>1. Len(s.edges) = s.nb_of_static_edges
      BY GivenParts, Zenon
    <3>2. {s.edges[d][1], s.edges[d][2]} = {s.edges[e][1], s.edges[e][2]} => d = e
      BY <2>1, <3>1 DEF EdgesDiffer, Joins
    <3>3. QED BY <2>1, <3>2 DEF Between
  <2>3. Crossing(cut, v, w) /\ middle = m => d = e
    BY <2>1 DEF Classified
  <2>4. d = e => {v, w} = {x, y}
    BY <2>1 DEF Between
  <2>5. d = e => middle = m
    OBVIOUS
  <2> HIDE DEF middle
  <2>6. CASE Crossing(cut, v, w)
    <3>1. PieceOf(cut, v, w, middle) = {<<v, middle>>, <<middle, w>>}
      BY <2>6 DEF PieceOf
    <3>2. /\ <<x, m>> \in PieceOf(cut, v, w, middle) <=> x = v /\ m = middle
          /\ <<m, y>> \in PieceOf(cut, v, w, middle) <=> y = w /\ m = middle
      BY <1>1, <2>1, <2>6, <3>1
    <3>3. x = v /\ m = middle <=> v = x /\ w = y
      BY <1>0, <2>2, <2>3, <2>4, <2>5, <2>6
    <3>4. y = w /\ m = middle <=> v = x /\ w = y
      BY <1>0, <2>2, <2>3, <2>4, <2>5, <2>6
    <3>5. QED BY <2>0, <2>p, <3>2, <3>3, <3>4 DEF IsSide
  <2>7. CASE ~Crossing(cut, v, w)
    <3>1. /\ <<x, m>> \notin PieceOf(cut, v, w, middle)
          /\ <<m, y>> \notin PieceOf(cut, v, w, middle)
      BY <1>1, <2>1, <2>7 DEF PieceOf
    <3>2. ~(v = x /\ w = y)
      BY <2>7
    <3>3. QED BY <2>0, <2>p, <3>1, <3>2 DEF IsSide
  <2>8. QED BY <2>6, <2>7
<1>3. PiecedBy(s, cut, <<x, m>>) = With(s, x, y)
  <2> DEFINE p == <<x, m>>
  <2>1. \A f \in 1 .. Len(s.facets) : \A i \in 1 .. 3 :
          p \in Piece(s, cut, f, i) <=> s.facets[f][i] = x /\ s.facets[f][(i % 3) + 1] = y
    BY <1>2
  <2> HIDE DEF p
  <2>2. PiecedBy(s, cut, p) = With(s, x, y)
    BY <2>1, PiecedByWith
  <2>3. QED BY <2>2 DEF p
<1>4. PiecedBy(s, cut, <<m, y>>) = With(s, x, y)
  <2> DEFINE p == <<m, y>>
  <2>1. \A f \in 1 .. Len(s.facets) : \A i \in 1 .. 3 :
          p \in Piece(s, cut, f, i) <=> s.facets[f][i] = x /\ s.facets[f][(i % 3) + 1] = y
    BY <1>2
  <2> HIDE DEF p
  <2>2. PiecedBy(s, cut, p) = With(s, x, y)
    BY <2>1, PiecedByWith
  <2>3. QED BY <2>2 DEF p
<1>5. QED BY <1>3, <1>4

\* The pieces of a closed hull are run through as often in one direction as in the other.
LEMMA PiecesBalance ==
  ASSUME NEW s, NEW z, Given(s, z), EdgesDiffer(s.edges), Balanced(s),
         NEW cut, Classified(s, z, cut), NEW x, NEW y
  PROVE  Cardinality(PiecedBy(s, cut, <<x, y>>)) = Cardinality(PiecedBy(s, cut, <<y, x>>))
<1>1. ASSUME NEW a, NEW b, PiecedBy(s, cut, <<a, b>>) # {}
      PROVE  \E v, w : PiecedBy(s, cut, <<a, b>>) = With(s, v, w)
                       /\ PiecedBy(s, cut, <<b, a>>) = With(s, w, v)
  <2>1. PICK f \in 1 .. Len(s.facets), i \in 1 .. 3 : <<a, b>> \in Piece(s, cut, f, i)
    BY <1>1, ZenonT(60) DEF PiecedBy, Pieces
  <2>0. PICK v, w, d : IsSide(s, f, i, v, w, d)
    BY DEF IsSide
  <2> DEFINE middle == Middle(cut, d)
  <2>p. Piece(s, cut, f, i) = PieceOf(cut, v, w, middle)
    BY <2>0, Zenon DEF Piece, IsSide
  <2>2. /\ v \in 1 .. s.nb_of_static_nodes /\ w \in 1 .. s.nb_of_static_nodes
        /\ d \in 1 .. s.nb_of_static_edges /\ Between(s, d, v, w)
        /\ Crossing(cut, v, w) <=> Crosses(s, z, d)
    BY <2>0, SideOfFacet, ZenonT(60)
  <2>3. <<a, b>> \in PieceOf(cut, v, w, middle)
    BY <2>1, <2>p
  <2>4. Crossing(cut, v, w) => Crossing(cut, w, v)
    BY Zenon DEF Crossing
  <2>5. Crossing(cut, w, v) => Crossing(cut, v, w)
    BY Zenon DEF Crossing
  <2>6. Between(s, d, w, v)
    BY <2>2 DEF Between
  <2>7. CASE Crossing(cut, v, w)
    <3>0. Crosses(s, z, d) /\ Crossing(cut, w, v) /\ middle = Middle(cut, d)
      BY <2>2, <2>4, <2>7
    <3> HIDE DEF middle
    <3>1. /\ PiecedBy(s, cut, <<v, middle>>) = With(s, v, w)
          /\ PiecedBy(s, cut, <<middle, w>>) = With(s, v, w)
      BY <2>2, <2>7, <3>0, HalfPiece, SMTT(30)
    <3>2. /\ PiecedBy(s, cut, <<w, middle>>) = With(s, w, v)
          /\ PiecedBy(s, cut, <<middle, v>>) = With(s, w, v)
      BY <2>2, <2>6, <3>0, HalfPiece, SMTT(30)
    <3>3. (a = v /\ b = middle) \/ (a = middle /\ b = w)
      <4>1. PieceOf(cut, v, w, middle) = {<<v, middle>>, <<middle, w>>}
        BY <2>7, Zenon DEF PieceOf
      <4>2. <<a, b>> \in {<<v, middle>>, <<middle, w>>}
        BY <2>3, <4>1
      <4>3. QED BY <4>2
    <3>4. QED BY <3>1, <3>2, <3>3
  <2>8. CASE ~Crossing(cut, v, w)
    <3>1. a = v /\ b = w
      BY <2>3, <2>8 DEF PieceOf
    <3>2. PiecedBy(s, cut, <<v, w>>) = With(s, v, w)
      BY <2>2, <2>8, WholePiece
    <3>3. PiecedBy(s, cut, <<w, v>>) = With(s, w, v)
      BY <2>2, <2>5, <2>8, WholePiece
    <3>4. QED BY <3>1, <3>2, <3>3
  <2>9. QED BY <2>7, <2>8
<1>2. CASE PiecedBy(s, cut, <<x, y>>) # {}
  BY <1>1, <1>2 DEF Balanced
<1>3. CASE PiecedBy(s, cut, <<y, x>>) # {}
  BY <1>1, <1>3 DEF Balanced
<1>4. QED BY <1>2, <1>3

\* The directions in which some edges run.
Dirs(m, L) ==
  {<<first_vertex_of_oriented_edge(m, L[i]), second_vertex_of_oriented_edge(m, L[i])>> :
     i \in 1 .. Len(L)}

\* Some edges and a closing edge from one node to another behind number k run round.
RunsRound(m, L, k, from, to) ==
  /\ first_vertex_of_oriented_edge(m, L[k + 1]) = to
  /\ second_vertex_of_oriented_edge(m, L[IF k = 0 THEN Len(L) ELSE k]) = from
  /\ \A i \in 1 .. Len(L) - 1 :
       i # k => second_vertex_of_oriented_edge(m, L[i])
                 = first_vertex_of_oriented_edge(m, L[i + 1])
  /\ k # 0 => second_vertex_of_oriented_edge(m, L[Len(L)])
               = first_vertex_of_oriented_edge(m, L[1])

\* A side with nothing immersed, or nothing emerged, that is not on the surface.
Above(cut, v, w) ==
  /\ cut.immersions[v] <= 0 /\ cut.immersions[w] <= 0
  /\ cut.immersions[v] < 0 \/ cut.immersions[w] < 0
Below(cut, v, w) ==
  /\ cut.immersions[v] >= 0 /\ cut.immersions[w] >= 0
  /\ cut.immersions[v] > 0 \/ cut.immersions[w] > 0
AllAbove(cut, dirs) == \A d \in dirs : Above(cut, d[1], d[2])
AllBelow(cut, dirs) == \A d \in dirs : Below(cut, d[1], d[2])

\* Two edges, and where they run.
LEMMA PairDirs ==
  ASSUME NEW m, NEW a, NEW b, NEW u, NEW v, NEW x, NEW y,
         Runs(m, a, u, v), Runs(m, b, x, y)
  PROVE  Dirs(m, <<a, b>>) = {<<u, v>>, <<x, y>>}
<1> DEFINE L == <<a, b>>
<1>1. Len(L) = 2 /\ L[1] = a /\ L[2] = b
  OBVIOUS
<1> HIDE DEF L
<1>2. /\ first_vertex_of_oriented_edge(m, L[1]) = u /\ second_vertex_of_oriented_edge(m, L[1]) = v
      /\ first_vertex_of_oriented_edge(m, L[2]) = x /\ second_vertex_of_oriented_edge(m, L[2]) = y
  BY <1>1 DEF Runs
<1>3. 1 .. Len(L) = {1, 2}
  BY <1>1
<1>4. Dirs(m, L) = {<<u, v>>, <<x, y>>}
  BY <1>2, <1>3 DEF Dirs
<1>5. QED BY <1>4 DEF L

\* The first leads to the second, or the second to the first.
LEMMA PairRuns ==
  ASSUME NEW m, NEW a, NEW b, NEW u, NEW v, NEW w, Runs(m, a, u, v), Runs(m, b, v, w)
  PROVE  RunsRound(m, <<a, b>>, 0, w, u) /\ RunsRound(m, <<b, a>>, 1, w, u)
<1> DEFINE L == <<a, b>>
           M == <<b, a>>
<1>1. /\ Len(L) = 2 /\ L[1] = a /\ L[2] = b /\ Len(M) = 2 /\ M[1] = b /\ M[2] = a
  OBVIOUS
<1> HIDE DEF L, M
<1>2. /\ first_vertex_of_oriented_edge(m, a) = u /\ second_vertex_of_oriented_edge(m, a) = v
      /\ first_vertex_of_oriented_edge(m, b) = v /\ second_vertex_of_oriented_edge(m, b) = w
  BY DEF Runs
<1>3. /\ 0 + 1 = 1 /\ 1 + 1 = 2
      /\ \A i \in 1 .. Len(L) - 1 : i = 1
      /\ \A i \in 1 .. Len(M) - 1 : i = 1
  BY <1>1
<1>4. RunsRound(m, L, 0, w, u)
  BY <1>1, <1>2, <1>3 DEF RunsRound
<1>5. RunsRound(m, M, 1, w, u)
  BY <1>1, <1>2, <1>3 DEF RunsRound
<1>6. QED BY <1>4, <1>5 DEF L, M

\* Three edges, and where they run.
LEMMA TripleDirs ==
  ASSUME NEW m, NEW a, NEW b, NEW c, NEW u, NEW v, NEW x, NEW y, NEW p, NEW q,
         Runs(m, a, u, v), Runs(m, b, x, y), Runs(m, c, p, q)
  PROVE  Dirs(m, <<a, b, c>>) = {<<u, v>>, <<x, y>>, <<p, q>>}
<1> DEFINE L == <<a, b, c>>
<1>1. Len(L) = 3 /\ L[1] = a /\ L[2] = b /\ L[3] = c
  OBVIOUS
<1> HIDE DEF L
<1>2. /\ first_vertex_of_oriented_edge(m, L[1]) = u /\ second_vertex_of_oriented_edge(m, L[1]) = v
      /\ first_vertex_of_oriented_edge(m, L[2]) = x /\ second_vertex_of_oriented_edge(m, L[2]) = y
      /\ first_vertex_of_oriented_edge(m, L[3]) = p /\ second_vertex_of_oriented_edge(m, L[3]) = q
  BY <1>1 DEF Runs
<1>3. 1 .. Len(L) = {1, 2, 3}
  BY <1>1
<1>4. Dirs(m, L) = {<<u, v>>, <<x, y>>, <<p, q>>}
  BY <1>2, <1>3 DEF Dirs
<1>5. QED BY <1>4 DEF L

\* Each leads to the next one, the first of them at any place.
LEMMA TripleRuns ==
  ASSUME NEW m, NEW a, NEW b, NEW c, NEW u, NEW v, NEW w, NEW x,
         Runs(m, a, u, v), Runs(m, b, v, w), Runs(m, c, w, x)
  PROVE  /\ RunsRound(m, <<a, b, c>>, 0, x, u)
         /\ RunsRound(m, <<c, a, b>>, 1, x, u)
         /\ RunsRound(m, <<b, c, a>>, 2, x, u)
<1> DEFINE L == <<a, b, c>>
           M == <<c, a, b>>
           N == <<b, c, a>>
<1>1. /\ Len(L) = 3 /\ L[1] = a /\ L[2] = b /\ L[3] = c
      /\ Len(M) = 3 /\ M[1] = c /\ M[2] = a /\ M[3] = b
      /\ Len(N) = 3 /\ N[1] = b /\ N[2] = c /\ N[3] = a
  OBVIOUS
<1> HIDE DEF L, M, N
<1>2. /\ first_vertex_of_oriented_edge(m, a) = u /\ second_vertex_of_oriented_edge(m, a) = v
      /\ first_vertex_of_oriented_edge(m, b) = v /\ second_vertex_of_oriented_edge(m, b) = w
      /\ first_vertex_of_oriented_edge(m, c) = w /\ second_vertex_of_oriented_edge(m, c) = x
  BY DEF Runs
<1>3. /\ 0 + 1 = 1 /\ 1 + 1 = 2 /\ 2 + 1 = 3
      /\ \A i \in 1 .. Len(L) - 1 : i = 1 \/ i = 2
      /\ \A i \in 1 .. Len(M) - 1 : i = 1 \/ i = 2
      /\ \A i \in 1 .. Len(N) - 1 : i = 1 \/ i = 2
  BY <1>1
<1>4. RunsRound(m, L, 0, x, u)
  BY <1>1, <1>2, <1>3 DEF RunsRound
<1>5. RunsRound(m, M, 1, x, u)
  BY <1>1, <1>2, <1>3 DEF RunsRound
<1>6. RunsRound(m, N, 2, x, u)
  BY <1>1, <1>2, <1>3 DEF RunsRound
<1>7. QED BY <1>4, <1>5, <1>6 DEF L, M, N

\* The parts of a facet that is split between two nodes on the surface: both run round,
\* and their edges are the pieces of the sides of the facet, each on its own side.
Cleft(cut, sides, from, to, pieces) ==
  /\ from # to /\ cut.immersions[from] = 0 /\ cut.immersions[to] = 0
  /\ RunsRound(cut.mesh, sides.emerged, sides.first_emerged, from, to)
  /\ RunsRound(cut.mesh, sides.immersed, sides.first_immersed, to, from)
  /\ AllAbove(cut, Dirs(cut.mesh, sides.emerged))
  /\ AllBelow(cut, Dirs(cut.mesh, sides.immersed))
  /\ Dirs(cut.mesh, sides.emerged) \cup Dirs(cut.mesh, sides.immersed) = pieces

\* A facet that lies on the surface counts as both.
Flat(cut, sides, v1, v2, v3) ==
  /\ cut.immersions[v1] = 0 /\ cut.immersions[v2] = 0 /\ cut.immersions[v3] = 0
  /\ sides.emerged = sides.immersed /\ Len(sides.immersed) = 3
  /\ sides.first_emerged = 0 /\ sides.first_immersed = 0
  /\ Runs(cut.mesh, sides.immersed[1], v1, v2) /\ Runs(cut.mesh, sides.immersed[2], v2, v3)
  /\ Runs(cut.mesh, sides.immersed[3], v3, v1)

Cleaved(cut, sides, v1, v2, v3, pieces) ==
  Len(sides.emerged) <= 1
    \/ IF Len(sides.immersed) <= 1
       THEN cut.immersions[v1] < 0 \/ cut.immersions[v2] < 0 \/ cut.immersions[v3] < 0
       ELSE Flat(cut, sides, v1, v2, v3) \/ \E from, to : Cleft(cut, sides, from, to, pieces)

\* Whatever the immersions of its three nodes, a triangle is either kept, with its nodes on
\* one side, or has two parts, each of which closes on its own side, and the parts have the
\* pieces of its sides.
LEMMA FacetIsParted ==
  ASSUME NEW cut, NEW v1, NEW v2, NEW v3, v1 # v2, v2 # v3, v3 # v1,
         NEW o1, NEW h1, NEW g1, NEW m1,
         EdgeOf(cut, {v1, v2, v3}, o1, h1, g1, v1, v2, m1),
         NEW o2, NEW h2, NEW g2, NEW m2,
         EdgeOf(cut, {v1, v2, v3}, o2, h2, g2, v2, v3, m2),
         NEW o3, NEW h3, NEW g3, NEW m3,
         EdgeOf(cut, {v1, v2, v3}, o3, h3, g3, v3, v1, m3),
         Crossing(cut, v1, v2) /\ Crossing(cut, v2, v3) => m1 # m2,
         Crossing(cut, v2, v3) /\ Crossing(cut, v3, v1) => m2 # m3,
         Crossing(cut, v3, v1) /\ Crossing(cut, v1, v2) => m3 # m1
  PROVE  LET sides == AddEdge(cut, AddEdge(cut, AddEdge(cut, NoSides, o1), o2), o3)
         IN /\ Parted(cut, sides, v1, v2, v3)
            /\ Cleaved(cut, sides, v1, v2, v3,
                       PieceOf(cut, v1, v2, m1) \cup PieceOf(cut, v2, v3, m2)
                         \cup PieceOf(cut, v3, v1, m3))
<1> DEFINE S == Along(1 .. Len(cut.mesh.edges))
           z1 == cut.immersions[v1]
           z2 == cut.immersions[v2]
           z3 == cut.immersions[v3]
           sides == AddEdge(cut, AddEdge(cut, AddEdge(cut, NoSides, o1), o2), o3)
           side1 == PieceOf(cut, v1, v2, m1)
           side2 == PieceOf(cut, v2, v3, m2)
           side3 == PieceOf(cut, v3, v1, m3)
           pieces == side1 \cup side2 \cup side3
<1> SUFFICES Parted(cut, sides, v1, v2, v3) /\ Cleaved(cut, sides, v1, v2, v3, pieces)
  OBVIOUS
<1>1. /\ z1 \in Int /\ z2 \in Int /\ z3 \in Int
      /\ o1 \in S /\ o2 \in S /\ o3 \in S
      /\ Runs(cut.mesh, o1, v1, v2) /\ Runs(cut.mesh, o2, v2, v3)
      /\ Runs(cut.mesh, o3, v3, v1)
  BY DEF EdgeOf, Runs
<1>2. \A x :
        /\ z1 = 0 /\ z2 = 0 => AddEdge(cut, x, o1) = AddOnSurface(x, o1)
        /\ z1 <= 0 /\ z2 <= 0 /\ (z1 < 0 \/ z2 < 0)
             => AddEdge(cut, x, o1) = AddEmerged(x, o1)
        /\ z1 >= 0 /\ z2 >= 0 /\ (z1 > 0 \/ z2 > 0)
             => AddEdge(cut, x, o1) = AddImmersed(x, o1)
        /\ z1 < 0 /\ z2 > 0 => AddEdge(cut, x, o1) = Outwards(x, h1, g1)
        /\ z1 > 0 /\ z2 < 0 => AddEdge(cut, x, o1) = Inwards(x, h1, g1)
  BY DEF EdgeOf
<1>3. \A x :
        /\ z2 = 0 /\ z3 = 0 => AddEdge(cut, x, o2) = AddOnSurface(x, o2)
        /\ z2 <= 0 /\ z3 <= 0 /\ (z2 < 0 \/ z3 < 0)
             => AddEdge(cut, x, o2) = AddEmerged(x, o2)
        /\ z2 >= 0 /\ z3 >= 0 /\ (z2 > 0 \/ z3 > 0)
             => AddEdge(cut, x, o2) = AddImmersed(x, o2)
        /\ z2 < 0 /\ z3 > 0 => AddEdge(cut, x, o2) = Outwards(x, h2, g2)
        /\ z2 > 0 /\ z3 < 0 => AddEdge(cut, x, o2) = Inwards(x, h2, g2)
  BY DEF EdgeOf
<1>4. \A x :
        /\ z3 = 0 /\ z1 = 0 => AddEdge(cut, x, o3) = AddOnSurface(x, o3)
        /\ z3 <= 0 /\ z1 <= 0 /\ (z3 < 0 \/ z1 < 0)
             => AddEdge(cut, x, o3) = AddEmerged(x, o3)
        /\ z3 >= 0 /\ z1 >= 0 /\ (z3 > 0 \/ z1 > 0)
             => AddEdge(cut, x, o3) = AddImmersed(x, o3)
        /\ z3 < 0 /\ z1 > 0 => AddEdge(cut, x, o3) = Outwards(x, h3, g3)
        /\ z3 > 0 /\ z1 < 0 => AddEdge(cut, x, o3) = Inwards(x, h3, g3)
  BY DEF EdgeOf
<1>5. (z1 < 0 /\ z2 > 0) \/ (z1 > 0 /\ z2 < 0)
        => /\ Runs(cut.mesh, h1, v1, m1) /\ Runs(cut.mesh, g1, m1, v2)
           /\ h1 \in S /\ g1 \in S
           /\ OnSide(cut, "emerged", m1) /\ OnSide(cut, "immersed", m1)
           /\ m1 # v1 /\ m1 # v2 /\ m1 # v3
  BY DEF EdgeOf, Crossing, Runs, OnSide
<1>6. (z2 < 0 /\ z3 > 0) \/ (z2 > 0 /\ z3 < 0)
        => /\ Runs(cut.mesh, h2, v2, m2) /\ Runs(cut.mesh, g2, m2, v3)
           /\ h2 \in S /\ g2 \in S
           /\ OnSide(cut, "emerged", m2) /\ OnSide(cut, "immersed", m2)
           /\ m2 # v1 /\ m2 # v2 /\ m2 # v3
  BY DEF EdgeOf, Crossing, Runs, OnSide
<1>7. (z3 < 0 /\ z1 > 0) \/ (z3 > 0 /\ z1 < 0)
        => /\ Runs(cut.mesh, h3, v3, m3) /\ Runs(cut.mesh, g3, m3, v1)
           /\ h3 \in S /\ g3 \in S
           /\ OnSide(cut, "emerged", m3) /\ OnSide(cut, "immersed", m3)
           /\ m3 # v1 /\ m3 # v2 /\ m3 # v3
  BY DEF EdgeOf, Crossing, Runs, OnSide
<1>8. /\ z1 <= 0 => OnSide(cut, "emerged", v1)
      /\ z2 <= 0 => OnSide(cut, "emerged", v2)
      /\ z3 <= 0 => OnSide(cut, "emerged", v3)
      /\ z1 >= 0 => OnSide(cut, "immersed", v1)
      /\ z2 >= 0 => OnSide(cut, "immersed", v2)
      /\ z3 >= 0 => OnSide(cut, "immersed", v3)
  BY DEF OnSide
<1>9. /\ ((z1 < 0 /\ z2 > 0) \/ (z1 > 0 /\ z2 < 0))
         /\ ((z2 < 0 /\ z3 > 0) \/ (z2 > 0 /\ z3 < 0)) => m1 # m2
      /\ ((z2 < 0 /\ z3 > 0) \/ (z2 > 0 /\ z3 < 0))
         /\ ((z3 < 0 /\ z1 > 0) \/ (z3 > 0 /\ z1 < 0)) => m2 # m3
      /\ ((z3 < 0 /\ z1 > 0) \/ (z3 > 0 /\ z1 < 0))
         /\ ((z1 < 0 /\ z2 > 0) \/ (z1 > 0 /\ z2 < 0)) => m3 # m1
  BY DEF Crossing
<1>32. /\ z1 < 0 \/ z2 < 0 \/ z3 < 0
           => cut.immersions[v1] < 0 \/ cut.immersions[v2] < 0 \/ cut.immersions[v3] < 0
       /\ z1 = 0 => cut.immersions[v1] = 0
       /\ z2 = 0 => cut.immersions[v2] = 0
       /\ z3 = 0 => cut.immersions[v3] = 0
       /\ (z1 < 0 /\ z2 > 0) \/ (z1 > 0 /\ z2 < 0) => cut.immersions[m1] = 0
       /\ (z2 < 0 /\ z3 > 0) \/ (z2 > 0 /\ z3 < 0) => cut.immersions[m2] = 0
       /\ (z3 < 0 /\ z1 > 0) \/ (z3 > 0 /\ z1 < 0) => cut.immersions[m3] = 0
  BY DEF EdgeOf, Crossing
<1>33. /\ (z1 < 0 /\ z2 > 0) \/ (z1 > 0 /\ z2 < 0)
            => side1 = {<<v1, m1>>, <<m1, v2>>}
       /\ ~((z1 < 0 /\ z2 > 0) \/ (z1 > 0 /\ z2 < 0)) => side1 = {<<v1, v2>>}
  BY DEF Crossing, PieceOf
<1>34. /\ z1 < 0 /\ z2 > 0 => Above(cut, v1, m1) /\ Below(cut, m1, v2)
       /\ z1 > 0 /\ z2 < 0 => Below(cut, v1, m1) /\ Above(cut, m1, v2)
       /\ z1 <= 0 /\ z2 <= 0 /\ (z1 < 0 \/ z2 < 0) => Above(cut, v1, v2)
       /\ z1 >= 0 /\ z2 >= 0 /\ (z1 > 0 \/ z2 > 0) => Below(cut, v1, v2)
  BY <1>1, <1>32 DEF Above, Below
<1>35. /\ (z2 < 0 /\ z3 > 0) \/ (z2 > 0 /\ z3 < 0)
            => side2 = {<<v2, m2>>, <<m2, v3>>}
       /\ ~((z2 < 0 /\ z3 > 0) \/ (z2 > 0 /\ z3 < 0)) => side2 = {<<v2, v3>>}
  BY DEF Crossing, PieceOf
<1>36. /\ z2 < 0 /\ z3 > 0 => Above(cut, v2, m2) /\ Below(cut, m2, v3)
       /\ z2 > 0 /\ z3 < 0 => Below(cut, v2, m2) /\ Above(cut, m2, v3)
       /\ z2 <= 0 /\ z3 <= 0 /\ (z2 < 0 \/ z3 < 0) => Above(cut, v2, v3)
       /\ z2 >= 0 /\ z3 >= 0 /\ (z2 > 0 \/ z3 > 0) => Below(cut, v2, v3)
  BY <1>1, <1>32 DEF Above, Below
<1>37. /\ (z3 < 0 /\ z1 > 0) \/ (z3 > 0 /\ z1 < 0)
            => side3 = {<<v3, m3>>, <<m3, v1>>}
       /\ ~((z3 < 0 /\ z1 > 0) \/ (z3 > 0 /\ z1 < 0)) => side3 = {<<v3, v1>>}
  BY DEF Crossing, PieceOf
<1>38. /\ z3 < 0 /\ z1 > 0 => Above(cut, v3, m3) /\ Below(cut, m3, v1)
       /\ z3 > 0 /\ z1 < 0 => Below(cut, v3, m3) /\ Above(cut, m3, v1)
       /\ z3 <= 0 /\ z1 <= 0 /\ (z3 < 0 \/ z1 < 0) => Above(cut, v3, v1)
       /\ z3 >= 0 /\ z1 >= 0 /\ (z3 > 0 \/ z1 > 0) => Below(cut, v3, v1)
  BY <1>1, <1>32 DEF Above, Below
<1> HIDE DEF S, sides, z1, z2, z3, side1, side2, side3, pieces
<1>10. CASE z1 < 0 /\ z2 > 0 /\ z3 = 0
  <2>1. sides = AddEmerged(AddImmersed(Outwards(NoSides, h1, g1), o2), o3)
    BY <1>1, <1>2, <1>3, <1>4, <1>10 DEF sides
  <2>2. g1 \in S /\ h1 \in S /\ o2 \in S /\ o3 \in S
    BY <1>1, <1>5, <1>10
  <2>3. IsLists(Along(1 .. Len(cut.mesh.edges)), sides,
           <<h1, o3>>, <<g1, o2>>, "emerged", 1, 0)
    BY <2>1, <2>2, SidesXIE DEF S
  <2>4. /\ Len(sides.emerged) = 2 /\ Len(sides.immersed) = 2
        /\ sides.emerged \in Seq(Along(1 .. Len(cut.mesh.edges)))
        /\ sides.immersed \in Seq(Along(1 .. Len(cut.mesh.edges)))
    BY <2>3, LengthOfTuples DEF IsLists
  <2>5. /\ Runs(cut.mesh, h1, v1, m1)
        /\ Runs(cut.mesh, o3, v3, v1)
    BY <1>1, <1>5, <1>10
  <2>6. /\ Runs(cut.mesh, g1, m1, v2)
        /\ Runs(cut.mesh, o2, v2, v3)
    BY <1>1, <1>5, <1>10
  <2>7. SideCloses(cut, sides.emerged, sides.first_emerged, "emerged")
    <3>1. /\ OnSide(cut, "emerged", m1) /\ OnSide(cut, "emerged", v1)
          /\ OnSide(cut, "emerged", v3)
      BY <1>1, <1>8, <1>5, <1>10
    <3>2. m1 # v1 /\ m1 # v3 /\ v1 # v3
      BY <1>9, <1>5, <1>10
    <3>3. SideCloses(cut, <<h1, o3>>, 1, "emerged")
      BY <2>5, <3>1, <3>2, PairCloses
    <3>4. QED BY <2>3, <3>3 DEF IsLists
  <2>8. SideCloses(cut, sides.immersed, sides.first_immersed, "immersed")
    <3>1. /\ OnSide(cut, "immersed", v2) /\ OnSide(cut, "immersed", v3)
          /\ OnSide(cut, "immersed", m1)
      BY <1>1, <1>8, <1>5, <1>10
    <3>2. v2 # v3 /\ v2 # m1 /\ v3 # m1
      BY <1>9, <1>5, <1>10
    <3>3. SideCloses(cut, <<g1, o2>>, 0, "immersed")
      BY <2>6, <3>1, <3>2, PairCloses
    <3>4. QED BY <2>3, <3>3 DEF IsLists
  <2>9. /\ RunsRound(cut.mesh, <<h1, o3>>, 1, m1, v3)
        /\ Dirs(cut.mesh, <<h1, o3>>) = {<<v1, m1>>, <<v3, v1>>}
        /\ AllAbove(cut, Dirs(cut.mesh, <<h1, o3>>))
    <3>1. Above(cut, v1, m1) /\ Above(cut, v3, v1)
      BY <1>1, <1>34, <1>36, <1>38, <1>10
    <3>2. RunsRound(cut.mesh, <<h1, o3>>, 1, m1, v3)
      BY <2>5, PairRuns
    <3>3. Dirs(cut.mesh, <<h1, o3>>) = {<<v1, m1>>, <<v3, v1>>}
      BY <2>5, PairDirs
    <3>4. QED BY <3>1, <3>2, <3>3 DEF AllAbove
  <2>10. /\ RunsRound(cut.mesh, <<g1, o2>>, 0, v3, m1)
        /\ Dirs(cut.mesh, <<g1, o2>>) = {<<m1, v2>>, <<v2, v3>>}
        /\ AllBelow(cut, Dirs(cut.mesh, <<g1, o2>>))
    <3>1. Below(cut, m1, v2) /\ Below(cut, v2, v3)
      BY <1>1, <1>34, <1>36, <1>38, <1>10
    <3>2. RunsRound(cut.mesh, <<g1, o2>>, 0, v3, m1)
      BY <2>6, PairRuns
    <3>3. Dirs(cut.mesh, <<g1, o2>>) = {<<m1, v2>>, <<v2, v3>>}
      BY <2>6, PairDirs
    <3>4. QED BY <3>1, <3>2, <3>3 DEF AllBelow
  <2>11. Dirs(cut.mesh, <<h1, o3>>) \cup Dirs(cut.mesh, <<g1, o2>>) = pieces
    BY <1>1, <1>33, <1>35, <1>37, <1>10, <2>9, <2>10 DEF pieces
  <2>12. m1 # v3 /\ cut.immersions[m1] = 0 /\ cut.immersions[v3] = 0
    BY <1>1, <1>5, <1>6, <1>7, <1>9, <1>32, <1>10
  <2>13. Cleft(cut, sides, m1, v3, pieces)
    BY <2>3, <2>9, <2>10, <2>11, <2>12 DEF Cleft, IsLists
  <2>14. Cleaved(cut, sides, v1, v2, v3, pieces)
    BY <2>4, <2>13 DEF Cleaved
  <2>15. QED BY <2>4, <2>7, <2>8, <2>14 DEF Parted
<1>11. CASE z1 > 0 /\ z2 = 0 /\ z3 < 0
  <2>1. sides = Outwards(AddEmerged(AddImmersed(NoSides, o1), o2), h3, g3)
    BY <1>1, <1>2, <1>3, <1>4, <1>11 DEF sides
  <2>2. g3 \in S /\ h3 \in S /\ o1 \in S /\ o2 \in S
    BY <1>1, <1>7, <1>11
  <2>3. IsLists(Along(1 .. Len(cut.mesh.edges)), sides,
           <<o2, h3>>, <<o1, g3>>, "immersed", 0, 1)
    BY <2>1, <2>2, SidesIEX DEF S
  <2>4. /\ Len(sides.emerged) = 2 /\ Len(sides.immersed) = 2
        /\ sides.emerged \in Seq(Along(1 .. Len(cut.mesh.edges)))
        /\ sides.immersed \in Seq(Along(1 .. Len(cut.mesh.edges)))
    BY <2>3, LengthOfTuples DEF IsLists
  <2>5. /\ Runs(cut.mesh, o2, v2, v3)
        /\ Runs(cut.mesh, h3, v3, m3)
    BY <1>1, <1>7, <1>11
  <2>6. /\ Runs(cut.mesh, o1, v1, v2)
        /\ Runs(cut.mesh, g3, m3, v1)
    BY <1>1, <1>7, <1>11
  <2>7. SideCloses(cut, sides.emerged, sides.first_emerged, "emerged")
    <3>1. /\ OnSide(cut, "emerged", v3) /\ OnSide(cut, "emerged", m3)
          /\ OnSide(cut, "emerged", v2)
      BY <1>1, <1>8, <1>7, <1>11
    <3>2. v3 # m3 /\ v3 # v2 /\ m3 # v2
      BY <1>9, <1>7, <1>11
    <3>3. SideCloses(cut, <<o2, h3>>, 0, "emerged")
      BY <2>5, <3>1, <3>2, PairCloses
    <3>4. QED BY <2>3, <3>3 DEF IsLists
  <2>8. SideCloses(cut, sides.immersed, sides.first_immersed, "immersed")
    <3>1. /\ OnSide(cut, "immersed", v2) /\ OnSide(cut, "immersed", v1)
          /\ OnSide(cut, "immersed", m3)
      BY <1>1, <1>8, <1>7, <1>11
    <3>2. v2 # v1 /\ v2 # m3 /\ v1 # m3
      BY <1>9, <1>7, <1>11
    <3>3. SideCloses(cut, <<o1, g3>>, 1, "immersed")
      BY <2>6, <3>1, <3>2, PairCloses
    <3>4. QED BY <2>3, <3>3 DEF IsLists
  <2>9. /\ RunsRound(cut.mesh, <<o2, h3>>, 0, m3, v2)
        /\ Dirs(cut.mesh, <<o2, h3>>) = {<<v2, v3>>, <<v3, m3>>}
        /\ AllAbove(cut, Dirs(cut.mesh, <<o2, h3>>))
    <3>1. Above(cut, v2, v3) /\ Above(cut, v3, m3)
      BY <1>1, <1>34, <1>36, <1>38, <1>11
    <3>2. RunsRound(cut.mesh, <<o2, h3>>, 0, m3, v2)
      BY <2>5, PairRuns
    <3>3. Dirs(cut.mesh, <<o2, h3>>) = {<<v2, v3>>, <<v3, m3>>}
      BY <2>5, PairDirs
    <3>4. QED BY <3>1, <3>2, <3>3 DEF AllAbove
  <2>10. /\ RunsRound(cut.mesh, <<o1, g3>>, 1, v2, m3)
        /\ Dirs(cut.mesh, <<o1, g3>>) = {<<v1, v2>>, <<m3, v1>>}
        /\ AllBelow(cut, Dirs(cut.mesh, <<o1, g3>>))
    <3>1. Below(cut, v1, v2) /\ Below(cut, m3, v1)
      BY <1>1, <1>34, <1>36, <1>38, <1>11
    <3>2. RunsRound(cut.mesh, <<o1, g3>>, 1, v2, m3)
      BY <2>6, PairRuns
    <3>3. Dirs(cut.mesh, <<o1, g3>>) = {<<v1, v2>>, <<m3, v1>>}
      BY <2>6, PairDirs
    <3>4. QED BY <3>1, <3>2, <3>3 DEF AllBelow
  <2>11. Dirs(cut.mesh, <<o2, h3>>) \cup Dirs(cut.mesh, <<o1, g3>>) = pieces
    BY <1>1, <1>33, <1>35, <1>37, <1>11, <2>9, <2>10 DEF pieces
  <2>12. m3 # v2 /\ cut.immersions[m3] = 0 /\ cut.immersions[v2] = 0
    BY <1>1, <1>5, <1>6, <1>7, <1>9, <1>32, <1>11
  <2>13. Cleft(cut, sides, m3, v2, pieces)
    BY <2>3, <2>9, <2>10, <2>11, <2>12 DEF Cleft, IsLists
  <2>14. Cleaved(cut, sides, v1, v2, v3, pieces)
    BY <2>4, <2>13 DEF Cleaved
  <2>15. QED BY <2>4, <2>7, <2>8, <2>14 DEF Parted
<1>12. CASE z1 = 0 /\ z2 < 0 /\ z3 > 0
  <2>1. sides = AddImmersed(Outwards(AddEmerged(NoSides, o1), h2, g2), o3)
    BY <1>1, <1>2, <1>3, <1>4, <1>12 DEF sides
  <2>2. g2 \in S /\ h2 \in S /\ o1 \in S /\ o3 \in S
    BY <1>1, <1>6, <1>12
  <2>3. IsLists(Along(1 .. Len(cut.mesh.edges)), sides,
           <<o1, h2>>, <<g2, o3>>, "immersed", 0, 0)
    BY <2>1, <2>2, SidesEXI DEF S
  <2>4. /\ Len(sides.emerged) = 2 /\ Len(sides.immersed) = 2
        /\ sides.emerged \in Seq(Along(1 .. Len(cut.mesh.edges)))
        /\ sides.immersed \in Seq(Along(1 .. Len(cut.mesh.edges)))
    BY <2>3, LengthOfTuples DEF IsLists
  <2>5. /\ Runs(cut.mesh, o1, v1, v2)
        /\ Runs(cut.mesh, h2, v2, m2)
    BY <1>1, <1>6, <1>12
  <2>6. /\ Runs(cut.mesh, g2, m2, v3)
        /\ Runs(cut.mesh, o3, v3, v1)
    BY <1>1, <1>6, <1>12
  <2>7. SideCloses(cut, sides.emerged, sides.first_emerged, "emerged")
    <3>1. /\ OnSide(cut, "emerged", v2) /\ OnSide(cut, "emerged", m2)
          /\ OnSide(cut, "emerged", v1)
      BY <1>1, <1>8, <1>6, <1>12
    <3>2. v2 # m2 /\ v2 # v1 /\ m2 # v1
      BY <1>9, <1>6, <1>12
    <3>3. SideCloses(cut, <<o1, h2>>, 0, "emerged")
      BY <2>5, <3>1, <3>2, PairCloses
    <3>4. QED BY <2>3, <3>3 DEF IsLists
  <2>8. SideCloses(cut, sides.immersed, sides.first_immersed, "immersed")
    <3>1. /\ OnSide(cut, "immersed", v3) /\ OnSide(cut, "immersed", v1)
          /\ OnSide(cut, "immersed", m2)
      BY <1>1, <1>8, <1>6, <1>12
    <3>2. v3 # v1 /\ v3 # m2 /\ v1 # m2
      BY <1>9, <1>6, <1>12
    <3>3. SideCloses(cut, <<g2, o3>>, 0, "immersed")
      BY <2>6, <3>1, <3>2, PairCloses
    <3>4. QED BY <2>3, <3>3 DEF IsLists
  <2>9. /\ RunsRound(cut.mesh, <<o1, h2>>, 0, m2, v1)
        /\ Dirs(cut.mesh, <<o1, h2>>) = {<<v1, v2>>, <<v2, m2>>}
        /\ AllAbove(cut, Dirs(cut.mesh, <<o1, h2>>))
    <3>1. Above(cut, v1, v2) /\ Above(cut, v2, m2)
      BY <1>1, <1>34, <1>36, <1>38, <1>12
    <3>2. RunsRound(cut.mesh, <<o1, h2>>, 0, m2, v1)
      BY <2>5, PairRuns
    <3>3. Dirs(cut.mesh, <<o1, h2>>) = {<<v1, v2>>, <<v2, m2>>}
      BY <2>5, PairDirs
    <3>4. QED BY <3>1, <3>2, <3>3 DEF AllAbove
  <2>10. /\ RunsRound(cut.mesh, <<g2, o3>>, 0, v1, m2)
        /\ Dirs(cut.mesh, <<g2, o3>>) = {<<m2, v3>>, <<v3, v1>>}
        /\ AllBelow(cut, Dirs(cut.mesh, <<g2, o3>>))
    <3>1. Below(cut, m2, v3) /\ Below(cut, v3, v1)
      BY <1>1, <1>34, <1>36, <1>38, <1>12
    <3>2. RunsRound(cut.mesh, <<g2, o3>>, 0, v1, m2)
      BY <2>6, PairRuns
    <3>3. Dirs(cut.mesh, <<g2, o3>>) = {<<m2, v3>>, <<v3, v1>>}
      BY <2>6, PairDirs
    <3>4. QED BY <3>1, <3>2, <3>3 DEF AllBelow
  <2>11. Dirs(cut.mesh, <<o1, h2>>) \cup Dirs(cut.mesh, <<g2, o3>>) = pieces
    BY <1>1, <1>33, <1>35, <1>37, <1>12, <2>9, <2>10 DEF pieces
  <2>12. m2 # v1 /\ cut.immersions[m2] = 0 /\ cut.immersions[v1] = 0
    BY <1>1, <1>5, <1>6, <1>7, <1>9, <1>32, <1>12
  <2>13. Cleft(cut, sides, m2, v1, pieces)
    BY <2>3, <2>9, <2>10, <2>11, <2>12 DEF Cleft, IsLists
  <2>14. Cleaved(cut, sides, v1, v2, v3, pieces)
    BY <2>4, <2>13 DEF Cleaved
  <2>15. QED BY <2>4, <2>7, <2>8, <2>14 DEF Parted
<1>13. CASE z1 > 0 /\ z2 < 0 /\ z3 = 0
  <2>1. sides = AddImmersed(AddEmerged(Inwards(NoSides, h1, g1), o2), o3)
    BY <1>1, <1>2, <1>3, <1>4, <1>13 DEF sides
  <2>2. g1 \in S /\ h1 \in S /\ o2 \in S /\ o3 \in S
    BY <1>1, <1>5, <1>13
  <2>3. IsLists(Along(1 .. Len(cut.mesh.edges)), sides,
           <<g1, o2>>, <<h1, o3>>, "immersed", 0, 1)
    BY <2>1, <2>2, SidesYEI DEF S
  <2>4. /\ Len(sides.emerged) = 2 /\ Len(sides.immersed) = 2
        /\ sides.emerged \in Seq(Along(1 .. Len(cut.mesh.edges)))
        /\ sides.immersed \in Seq(Along(1 .. Len(cut.mesh.edges)))
    BY <2>3, LengthOfTuples DEF IsLists
  <2>5. /\ Runs(cut.mesh, g1, m1, v2)
        /\ Runs(cut.mesh, o2, v2, v3)
    BY <1>1, <1>5, <1>13
  <2>6. /\ Runs(cut.mesh, h1, v1, m1)
        /\ Runs(cut.mesh, o3, v3, v1)
    BY <1>1, <1>5, <1>13
  <2>7. SideCloses(cut, sides.emerged, sides.first_emerged, "emerged")
    <3>1. /\ OnSide(cut, "emerged", v2) /\ OnSide(cut, "emerged", v3)
          /\ OnSide(cut, "emerged", m1)
      BY <1>1, <1>8, <1>5, <1>13
    <3>2. v2 # v3 /\ v2 # m1 /\ v3 # m1
      BY <1>9, <1>5, <1>13
    <3>3. SideCloses(cut, <<g1, o2>>, 0, "emerged")
      BY <2>5, <3>1, <3>2, PairCloses
    <3>4. QED BY <2>3, <3>3 DEF IsLists
  <2>8. SideCloses(cut, sides.immersed, sides.first_immersed, "immersed")
    <3>1. /\ OnSide(cut, "immersed", m1) /\ OnSide(cut, "immersed", v1)
          /\ OnSide(cut, "immersed", v3)
      BY <1>1, <1>8, <1>5, <1>13
    <3>2. m1 # v1 /\ m1 # v3 /\ v1 # v3
      BY <1>9, <1>5, <1>13
    <3>3. SideCloses(cut, <<h1, o3>>, 1, "immersed")
      BY <2>6, <3>1, <3>2, PairCloses
    <3>4. QED BY <2>3, <3>3 DEF IsLists
  <2>9. /\ RunsRound(cut.mesh, <<g1, o2>>, 0, v3, m1)
        /\ Dirs(cut.mesh, <<g1, o2>>) = {<<m1, v2>>, <<v2, v3>>}
        /\ AllAbove(cut, Dirs(cut.mesh, <<g1, o2>>))
    <3>1. Above(cut, m1, v2) /\ Above(cut, v2, v3)
      BY <1>1, <1>34, <1>36, <1>38, <1>13
    <3>2. RunsRound(cut.mesh, <<g1, o2>>, 0, v3, m1)
      BY <2>5, PairRuns
    <3>3. Dirs(cut.mesh, <<g1, o2>>) = {<<m1, v2>>, <<v2, v3>>}
      BY <2>5, PairDirs
    <3>4. QED BY <3>1, <3>2, <3>3 DEF AllAbove
  <2>10. /\ RunsRound(cut.mesh, <<h1, o3>>, 1, m1, v3)
        /\ Dirs(cut.mesh, <<h1, o3>>) = {<<v1, m1>>, <<v3, v1>>}
        /\ AllBelow(cut, Dirs(cut.mesh, <<h1, o3>>))
    <3>1. Below(cut, v1, m1) /\ Below(cut, v3, v1)
      BY <1>1, <1>34, <1>36, <1>38, <1>13
    <3>2. RunsRound(cut.mesh, <<h1, o3>>, 1, m1, v3)
      BY <2>6, PairRuns
    <3>3. Dirs(cut.mesh, <<h1, o3>>) = {<<v1, m1>>, <<v3, v1>>}
      BY <2>6, PairDirs
    <3>4. QED BY <3>1, <3>2, <3>3 DEF AllBelow
  <2>11. Dirs(cut.mesh, <<g1, o2>>) \cup Dirs(cut.mesh, <<h1, o3>>) = pieces
    BY <1>1, <1>33, <1>35, <1>37, <1>13, <2>9, <2>10 DEF pieces
  <2>12. v3 # m1 /\ cut.immersions[v3] = 0 /\ cut.immersions[m1] = 0
    BY <1>1, <1>5, <1>6, <1>7, <1>9, <1>32, <1>13
  <2>13. Cleft(cut, sides, v3, m1, pieces)
    BY <2>3, <2>9, <2>10, <2>11, <2>12 DEF Cleft, IsLists
  <2>14. Cleaved(cut, sides, v1, v2, v3, pieces)
    BY <2>4, <2>13 DEF Cleaved
  <2>15. QED BY <2>4, <2>7, <2>8, <2>14 DEF Parted
<1>14. CASE z1 < 0 /\ z2 = 0 /\ z3 > 0
  <2>1. sides = Inwards(AddImmersed(AddEmerged(NoSides, o1), o2), h3, g3)
    BY <1>1, <1>2, <1>3, <1>4, <1>14 DEF sides
  <2>2. g3 \in S /\ h3 \in S /\ o1 \in S /\ o2 \in S
    BY <1>1, <1>7, <1>14
  <2>3. IsLists(Along(1 .. Len(cut.mesh.edges)), sides,
           <<o1, g3>>, <<o2, h3>>, "emerged", 1, 0)
    BY <2>1, <2>2, SidesEIY DEF S
  <2>4. /\ Len(sides.emerged) = 2 /\ Len(sides.immersed) = 2
        /\ sides.emerged \in Seq(Along(1 .. Len(cut.mesh.edges)))
        /\ sides.immersed \in Seq(Along(1 .. Len(cut.mesh.edges)))
    BY <2>3, LengthOfTuples DEF IsLists
  <2>5. /\ Runs(cut.mesh, o1, v1, v2)
        /\ Runs(cut.mesh, g3, m3, v1)
    BY <1>1, <1>7, <1>14
  <2>6. /\ Runs(cut.mesh, o2, v2, v3)
        /\ Runs(cut.mesh, h3, v3, m3)
    BY <1>1, <1>7, <1>14
  <2>7. SideCloses(cut, sides.emerged, sides.first_emerged, "emerged")
    <3>1. /\ OnSide(cut, "emerged", v2) /\ OnSide(cut, "emerged", v1)
          /\ OnSide(cut, "emerged", m3)
      BY <1>1, <1>8, <1>7, <1>14
    <3>2. v2 # v1 /\ v2 # m3 /\ v1 # m3
      BY <1>9, <1>7, <1>14
    <3>3. SideCloses(cut, <<o1, g3>>, 1, "emerged")
      BY <2>5, <3>1, <3>2, PairCloses
    <3>4. QED BY <2>3, <3>3 DEF IsLists
  <2>8. SideCloses(cut, sides.immersed, sides.first_immersed, "immersed")
    <3>1. /\ OnSide(cut, "immersed", v3) /\ OnSide(cut, "immersed", m3)
          /\ OnSide(cut, "immersed", v2)
      BY <1>1, <1>8, <1>7, <1>14
    <3>2. v3 # m3 /\ v3 # v2 /\ m3 # v2
      BY <1>9, <1>7, <1>14
    <3>3. SideCloses(cut, <<o2, h3>>, 0, "immersed")
      BY <2>6, <3>1, <3>2, PairCloses
    <3>4. QED BY <2>3, <3>3 DEF IsLists
  <2>9. /\ RunsRound(cut.mesh, <<o1, g3>>, 1, v2, m3)
        /\ Dirs(cut.mesh, <<o1, g3>>) = {<<v1, v2>>, <<m3, v1>>}
        /\ AllAbove(cut, Dirs(cut.mesh, <<o1, g3>>))
    <3>1. Above(cut, v1, v2) /\ Above(cut, m3, v1)
      BY <1>1, <1>34, <1>36, <1>38, <1>14
    <3>2. RunsRound(cut.mesh, <<o1, g3>>, 1, v2, m3)
      BY <2>5, PairRuns
    <3>3. Dirs(cut.mesh, <<o1, g3>>) = {<<v1, v2>>, <<m3, v1>>}
      BY <2>5, PairDirs
    <3>4. QED BY <3>1, <3>2, <3>3 DEF AllAbove
  <2>10. /\ RunsRound(cut.mesh, <<o2, h3>>, 0, m3, v2)
        /\ Dirs(cut.mesh, <<o2, h3>>) = {<<v2, v3>>, <<v3, m3>>}
        /\ AllBelow(cut, Dirs(cut.mesh, <<o2, h3>>))
    <3>1. Below(cut, v2, v3) /\ Below(cut, v3, m3)
      BY <1>1, <1>34, <1>36, <1>38, <1>14
    <3>2. RunsRound(cut.mesh, <<o2, h3>>, 0, m3, v2)
      BY <2>6, PairRuns
    <3>3. Dirs(cut.mesh, <<o2, h3>>) = {<<v2, v3>>, <<v3, m3>>}
      BY <2>6, PairDirs
    <3>4. QED BY <3>1, <3>2, <3>3 DEF AllBelow
  <2>11. Dirs(cut.mesh, <<o1, g3>>) \cup Dirs(cut.mesh, <<o2, h3>>) = pieces
    BY <1>1, <1>33, <1>35, <1>37, <1>14, <2>9, <2>10 DEF pieces
  <2>12. v2 # m3 /\ cut.immersions[v2] = 0 /\ cut.immersions[m3] = 0
    BY <1>1, <1>5, <1>6, <1>7, <1>9, <1>32, <1>14
  <2>13. Cleft(cut, sides, v2, m3, pieces)
    BY <2>3, <2>9, <2>10, <2>11, <2>12 DEF Cleft, IsLists
  <2>14. Cleaved(cut, sides, v1, v2, v3, pieces)
    BY <2>4, <2>13 DEF Cleaved
  <2>15. QED BY <2>4, <2>7, <2>8, <2>14 DEF Parted
<1>15. CASE z1 = 0 /\ z2 > 0 /\ z3 < 0
  <2>1. sides = AddEmerged(Inwards(AddImmersed(NoSides, o1), h2, g2), o3)
    BY <1>1, <1>2, <1>3, <1>4, <1>15 DEF sides
  <2>2. g2 \in S /\ h2 \in S /\ o1 \in S /\ o3 \in S
    BY <1>1, <1>6, <1>15
  <2>3. IsLists(Along(1 .. Len(cut.mesh.edges)), sides,
           <<g2, o3>>, <<o1, h2>>, "emerged", 0, 0)
    BY <2>1, <2>2, SidesIYE DEF S
  <2>4. /\ Len(sides.emerged) = 2 /\ Len(sides.immersed) = 2
        /\ sides.emerged \in Seq(Along(1 .. Len(cut.mesh.edges)))
        /\ sides.immersed \in Seq(Along(1 .. Len(cut.mesh.edges)))
    BY <2>3, LengthOfTuples DEF IsLists
  <2>5. /\ Runs(cut.mesh, g2, m2, v3)
        /\ Runs(cut.mesh, o3, v3, v1)
    BY <1>1, <1>6, <1>15
  <2>6. /\ Runs(cut.mesh, o1, v1, v2)
        /\ Runs(cut.mesh, h2, v2, m2)
    BY <1>1, <1>6, <1>15
  <2>7. SideCloses(cut, sides.emerged, sides.first_emerged, "emerged")
    <3>1. /\ OnSide(cut, "emerged", v3) /\ OnSide(cut, "emerged", v1)
          /\ OnSide(cut, "emerged", m2)
      BY <1>1, <1>8, <1>6, <1>15
    <3>2. v3 # v1 /\ v3 # m2 /\ v1 # m2
      BY <1>9, <1>6, <1>15
    <3>3. SideCloses(cut, <<g2, o3>>, 0, "emerged")
      BY <2>5, <3>1, <3>2, PairCloses
    <3>4. QED BY <2>3, <3>3 DEF IsLists
  <2>8. SideCloses(cut, sides.immersed, sides.first_immersed, "immersed")
    <3>1. /\ OnSide(cut, "immersed", v2) /\ OnSide(cut, "immersed", m2)
          /\ OnSide(cut, "immersed", v1)
      BY <1>1, <1>8, <1>6, <1>15
    <3>2. v2 # m2 /\ v2 # v1 /\ m2 # v1
      BY <1>9, <1>6, <1>15
    <3>3. SideCloses(cut, <<o1, h2>>, 0, "immersed")
      BY <2>6, <3>1, <3>2, PairCloses
    <3>4. QED BY <2>3, <3>3 DEF IsLists
  <2>9. /\ RunsRound(cut.mesh, <<g2, o3>>, 0, v1, m2)
        /\ Dirs(cut.mesh, <<g2, o3>>) = {<<m2, v3>>, <<v3, v1>>}
        /\ AllAbove(cut, Dirs(cut.mesh, <<g2, o3>>))
    <3>1. Above(cut, m2, v3) /\ Above(cut, v3, v1)
      BY <1>1, <1>34, <1>36, <1>38, <1>15
    <3>2. RunsRound(cut.mesh, <<g2, o3>>, 0, v1, m2)
      BY <2>5, PairRuns
    <3>3. Dirs(cut.mesh, <<g2, o3>>) = {<<m2, v3>>, <<v3, v1>>}
      BY <2>5, PairDirs
    <3>4. QED BY <3>1, <3>2, <3>3 DEF AllAbove
  <2>10. /\ RunsRound(cut.mesh, <<o1, h2>>, 0, m2, v1)
        /\ Dirs(cut.mesh, <<o1, h2>>) = {<<v1, v2>>, <<v2, m2>>}
        /\ AllBelow(cut, Dirs(cut.mesh, <<o1, h2>>))
    <3>1. Below(cut, v1, v2) /\ Below(cut, v2, m2)
      BY <1>1, <1>34, <1>36, <1>38, <1>15
    <3>2. RunsRound(cut.mesh, <<o1, h2>>, 0, m2, v1)
      BY <2>6, PairRuns
    <3>3. Dirs(cut.mesh, <<o1, h2>>) = {<<v1, v2>>, <<v2, m2>>}
      BY <2>6, PairDirs
    <3>4. QED BY <3>1, <3>2, <3>3 DEF AllBelow
  <2>11. Dirs(cut.mesh, <<g2, o3>>) \cup Dirs(cut.mesh, <<o1, h2>>) = pieces
    BY <1>1, <1>33, <1>35, <1>37, <1>15, <2>9, <2>10 DEF pieces
  <2>12. v1 # m2 /\ cut.immersions[v1] = 0 /\ cut.immersions[m2] = 0
    BY <1>1, <1>5, <1>6, <1>7, <1>9, <1>32, <1>15
  <2>13. Cleft(cut, sides, v1, m2, pieces)
    BY <2>3, <2>9, <2>10, <2>11, <2>12 DEF Cleft, IsLists
  <2>14. Cleaved(cut, sides, v1, v2, v3, pieces)
    BY <2>4, <2>13 DEF Cleaved
  <2>15. QED BY <2>4, <2>7, <2>8, <2>14 DEF Parted
<1>16. CASE z1 < 0 /\ z2 < 0 /\ z3 > 0
  <2>1. sides = Inwards(Outwards(AddEmerged(NoSides, o1), h2, g2), h3, g3)
    BY <1>1, <1>2, <1>3, <1>4, <1>16 DEF sides
  <2>2. g2 \in S /\ g3 \in S /\ h2 \in S /\ h3 \in S /\ o1 \in S
    BY <1>1, <1>6, <1>7, <1>16
  <2>3. IsLists(Along(1 .. Len(cut.mesh.edges)), sides,
           <<o1, h2, g3>>, <<g2, h3>>, "emerged", 2, 0)
    BY <2>1, <2>2, SidesEXY DEF S
  <2>4. /\ Len(sides.emerged) = 3 /\ Len(sides.immersed) = 2
        /\ sides.emerged \in Seq(Along(1 .. Len(cut.mesh.edges)))
        /\ sides.immersed \in Seq(Along(1 .. Len(cut.mesh.edges)))
    BY <2>3, LengthOfTuples DEF IsLists
  <2>5. /\ Runs(cut.mesh, o1, v1, v2)
        /\ Runs(cut.mesh, h2, v2, m2)
        /\ Runs(cut.mesh, g3, m3, v1)
    BY <1>1, <1>6, <1>7, <1>16
  <2>6. /\ Runs(cut.mesh, g2, m2, v3)
        /\ Runs(cut.mesh, h3, v3, m3)
    BY <1>1, <1>6, <1>7, <1>16
  <2>7. SideCloses(cut, sides.emerged, sides.first_emerged, "emerged")
    <3>1. /\ OnSide(cut, "emerged", v2) /\ OnSide(cut, "emerged", m2)
          /\ OnSide(cut, "emerged", v1) /\ OnSide(cut, "emerged", m3)
      BY <1>1, <1>8, <1>6, <1>7, <1>16
    <3>2. v2 # m2 /\ v2 # v1 /\ v2 # m3 /\ m2 # v1 /\ m2 # m3 /\ v1 # m3
      BY <1>9, <1>6, <1>7, <1>16
    <3>3. SideCloses(cut, <<o1, h2, g3>>, 2, "emerged")
      BY <2>5, <3>1, <3>2, TripleCloses
    <3>4. QED BY <2>3, <3>3 DEF IsLists
  <2>8. SideCloses(cut, sides.immersed, sides.first_immersed, "immersed")
    <3>1. /\ OnSide(cut, "immersed", v3) /\ OnSide(cut, "immersed", m3)
          /\ OnSide(cut, "immersed", m2)
      BY <1>1, <1>8, <1>6, <1>7, <1>16
    <3>2. v3 # m3 /\ v3 # m2 /\ m3 # m2
      BY <1>9, <1>6, <1>7, <1>16
    <3>3. SideCloses(cut, <<g2, h3>>, 0, "immersed")
      BY <2>6, <3>1, <3>2, PairCloses
    <3>4. QED BY <2>3, <3>3 DEF IsLists
  <2>9. /\ RunsRound(cut.mesh, <<o1, h2, g3>>, 2, m2, m3)
        /\ Dirs(cut.mesh, <<o1, h2, g3>>) = {<<v1, v2>>, <<v2, m2>>, <<m3, v1>>}
        /\ AllAbove(cut, Dirs(cut.mesh, <<o1, h2, g3>>))
    <3>1. Above(cut, v1, v2) /\ Above(cut, v2, m2) /\ Above(cut, m3, v1)
      BY <1>1, <1>34, <1>36, <1>38, <1>16
    <3>2. RunsRound(cut.mesh, <<o1, h2, g3>>, 2, m2, m3)
      BY <2>5, TripleRuns
    <3>3. Dirs(cut.mesh, <<o1, h2, g3>>) = {<<v1, v2>>, <<v2, m2>>, <<m3, v1>>}
      BY <2>5, TripleDirs
    <3>4. QED BY <3>1, <3>2, <3>3 DEF AllAbove
  <2>10. /\ RunsRound(cut.mesh, <<g2, h3>>, 0, m3, m2)
        /\ Dirs(cut.mesh, <<g2, h3>>) = {<<m2, v3>>, <<v3, m3>>}
        /\ AllBelow(cut, Dirs(cut.mesh, <<g2, h3>>))
    <3>1. Below(cut, m2, v3) /\ Below(cut, v3, m3)
      BY <1>1, <1>34, <1>36, <1>38, <1>16
    <3>2. RunsRound(cut.mesh, <<g2, h3>>, 0, m3, m2)
      BY <2>6, PairRuns
    <3>3. Dirs(cut.mesh, <<g2, h3>>) = {<<m2, v3>>, <<v3, m3>>}
      BY <2>6, PairDirs
    <3>4. QED BY <3>1, <3>2, <3>3 DEF AllBelow
  <2>11. Dirs(cut.mesh, <<o1, h2, g3>>) \cup Dirs(cut.mesh, <<g2, h3>>) = pieces
    BY <1>1, <1>33, <1>35, <1>37, <1>16, <2>9, <2>10 DEF pieces
  <2>12. m2 # m3 /\ cut.immersions[m2] = 0 /\ cut.immersions[m3] = 0
    BY <1>1, <1>5, <1>6, <1>7, <1>9, <1>32, <1>16
  <2>13. Cleft(cut, sides, m2, m3, pieces)
    BY <2>3, <2>9, <2>10, <2>11, <2>12 DEF Cleft, IsLists
  <2>14. Cleaved(cut, sides, v1, v2, v3, pieces)
    BY <2>4, <2>13 DEF Cleaved
  <2>15. QED BY <2>4, <2>7, <2>8, <2>14 DEF Parted
<1>17. CASE z1 < 0 /\ z2 > 0 /\ z3 < 0
  <2>1. sides = AddEmerged(Inwards(Outwards(NoSides, h1, g1), h2, g2), o3)
    BY <1>1, <1>2, <1>3, <1>4, <1>17 DEF sides
  <2>2. g1 \in S /\ g2 \in S /\ h1 \in S /\ h2 \in S /\ o3 \in S
    BY <1>1, <1>5, <1>6, <1>17
  <2>3. IsLists(Along(1 .. Len(cut.mesh.edges)), sides,
           <<h1, g2, o3>>, <<g1, h2>>, "emerged", 1, 0)
    BY <2>1, <2>2, SidesXYE DEF S
  <2>4. /\ Len(sides.emerged) = 3 /\ Len(sides.immersed) = 2
        /\ sides.emerged \in Seq(Along(1 .. Len(cut.mesh.edges)))
        /\ sides.immersed \in Seq(Along(1 .. Len(cut.mesh.edges)))
    BY <2>3, LengthOfTuples DEF IsLists
  <2>5. /\ Runs(cut.mesh, h1, v1, m1)
        /\ Runs(cut.mesh, g2, m2, v3)
        /\ Runs(cut.mesh, o3, v3, v1)
    BY <1>1, <1>5, <1>6, <1>17
  <2>6. /\ Runs(cut.mesh, g1, m1, v2)
        /\ Runs(cut.mesh, h2, v2, m2)
    BY <1>1, <1>5, <1>6, <1>17
  <2>7. SideCloses(cut, sides.emerged, sides.first_emerged, "emerged")
    <3>1. /\ OnSide(cut, "emerged", m1) /\ OnSide(cut, "emerged", v3)
          /\ OnSide(cut, "emerged", v1) /\ OnSide(cut, "emerged", m2)
      BY <1>1, <1>8, <1>5, <1>6, <1>17
    <3>2. m1 # v3 /\ m1 # v1 /\ m1 # m2 /\ v3 # v1 /\ v3 # m2 /\ v1 # m2
      BY <1>9, <1>5, <1>6, <1>17
    <3>3. SideCloses(cut, <<h1, g2, o3>>, 1, "emerged")
      BY <2>5, <3>1, <3>2, TripleCloses
    <3>4. QED BY <2>3, <3>3 DEF IsLists
  <2>8. SideCloses(cut, sides.immersed, sides.first_immersed, "immersed")
    <3>1. /\ OnSide(cut, "immersed", v2) /\ OnSide(cut, "immersed", m2)
          /\ OnSide(cut, "immersed", m1)
      BY <1>1, <1>8, <1>5, <1>6, <1>17
    <3>2. v2 # m2 /\ v2 # m1 /\ m2 # m1
      BY <1>9, <1>5, <1>6, <1>17
    <3>3. SideCloses(cut, <<g1, h2>>, 0, "immersed")
      BY <2>6, <3>1, <3>2, PairCloses
    <3>4. QED BY <2>3, <3>3 DEF IsLists
  <2>9. /\ RunsRound(cut.mesh, <<h1, g2, o3>>, 1, m1, m2)
        /\ Dirs(cut.mesh, <<h1, g2, o3>>) = {<<v1, m1>>, <<m2, v3>>, <<v3, v1>>}
        /\ AllAbove(cut, Dirs(cut.mesh, <<h1, g2, o3>>))
    <3>1. Above(cut, v1, m1) /\ Above(cut, m2, v3) /\ Above(cut, v3, v1)
      BY <1>1, <1>34, <1>36, <1>38, <1>17
    <3>2. RunsRound(cut.mesh, <<h1, g2, o3>>, 1, m1, m2)
      BY <2>5, TripleRuns
    <3>3. Dirs(cut.mesh, <<h1, g2, o3>>) = {<<v1, m1>>, <<m2, v3>>, <<v3, v1>>}
      BY <2>5, TripleDirs
    <3>4. QED BY <3>1, <3>2, <3>3 DEF AllAbove
  <2>10. /\ RunsRound(cut.mesh, <<g1, h2>>, 0, m2, m1)
        /\ Dirs(cut.mesh, <<g1, h2>>) = {<<m1, v2>>, <<v2, m2>>}
        /\ AllBelow(cut, Dirs(cut.mesh, <<g1, h2>>))
    <3>1. Below(cut, m1, v2) /\ Below(cut, v2, m2)
      BY <1>1, <1>34, <1>36, <1>38, <1>17
    <3>2. RunsRound(cut.mesh, <<g1, h2>>, 0, m2, m1)
      BY <2>6, PairRuns
    <3>3. Dirs(cut.mesh, <<g1, h2>>) = {<<m1, v2>>, <<v2, m2>>}
      BY <2>6, PairDirs
    <3>4. QED BY <3>1, <3>2, <3>3 DEF AllBelow
  <2>11. Dirs(cut.mesh, <<h1, g2, o3>>) \cup Dirs(cut.mesh, <<g1, h2>>) = pieces
    BY <1>1, <1>33, <1>35, <1>37, <1>17, <2>9, <2>10 DEF pieces
  <2>12. m1 # m2 /\ cut.immersions[m1] = 0 /\ cut.immersions[m2] = 0
    BY <1>1, <1>5, <1>6, <1>7, <1>9, <1>32, <1>17
  <2>13. Cleft(cut, sides, m1, m2, pieces)
    BY <2>3, <2>9, <2>10, <2>11, <2>12 DEF Cleft, IsLists
  <2>14. Cleaved(cut, sides, v1, v2, v3, pieces)
    BY <2>4, <2>13 DEF Cleaved
  <2>15. QED BY <2>4, <2>7, <2>8, <2>14 DEF Parted
<1>18. CASE z1 > 0 /\ z2 < 0 /\ z3 < 0
  <2>1. sides = Outwards(AddEmerged(Inwards(NoSides, h1, g1), o2), h3, g3)
    BY <1>1, <1>2, <1>3, <1>4, <1>18 DEF sides
  <2>2. g1 \in S /\ g3 \in S /\ h1 \in S /\ h3 \in S /\ o2 \in S
    BY <1>1, <1>5, <1>7, <1>18
  <2>3. IsLists(Along(1 .. Len(cut.mesh.edges)), sides,
           <<g1, o2, h3>>, <<h1, g3>>, "immersed", 0, 1)
    BY <2>1, <2>2, SidesYEX DEF S
  <2>4. /\ Len(sides.emerged) = 3 /\ Len(sides.immersed) = 2
        /\ sides.emerged \in Seq(Along(1 .. Len(cut.mesh.edges)))
        /\ sides.immersed \in Seq(Along(1 .. Len(cut.mesh.edges)))
    BY <2>3, LengthOfTuples DEF IsLists
  <2>5. /\ Runs(cut.mesh, g1, m1, v2)
        /\ Runs(cut.mesh, o2, v2, v3)
        /\ Runs(cut.mesh, h3, v3, m3)
    BY <1>1, <1>5, <1>7, <1>18
  <2>6. /\ Runs(cut.mesh, h1, v1, m1)
        /\ Runs(cut.mesh, g3, m3, v1)
    BY <1>1, <1>5, <1>7, <1>18
  <2>7. SideCloses(cut, sides.emerged, sides.first_emerged, "emerged")
    <3>1. /\ OnSide(cut, "emerged", v2) /\ OnSide(cut, "emerged", v3)
          /\ OnSide(cut, "emerged", m3) /\ OnSide(cut, "emerged", m1)
      BY <1>1, <1>8, <1>5, <1>7, <1>18
    <3>2. v2 # v3 /\ v2 # m3 /\ v2 # m1 /\ v3 # m3 /\ v3 # m1 /\ m3 # m1
      BY <1>9, <1>5, <1>7, <1>18
    <3>3. SideCloses(cut, <<g1, o2, h3>>, 0, "emerged")
      BY <2>5, <3>1, <3>2, TripleCloses
    <3>4. QED BY <2>3, <3>3 DEF IsLists
  <2>8. SideCloses(cut, sides.immersed, sides.first_immersed, "immersed")
    <3>1. /\ OnSide(cut, "immersed", m1) /\ OnSide(cut, "immersed", v1)
          /\ OnSide(cut, "immersed", m3)
      BY <1>1, <1>8, <1>5, <1>7, <1>18
    <3>2. m1 # v1 /\ m1 # m3 /\ v1 # m3
      BY <1>9, <1>5, <1>7, <1>18
    <3>3. SideCloses(cut, <<h1, g3>>, 1, "immersed")
      BY <2>6, <3>1, <3>2, PairCloses
    <3>4. QED BY <2>3, <3>3 DEF IsLists
  <2>9. /\ RunsRound(cut.mesh, <<g1, o2, h3>>, 0, m3, m1)
        /\ Dirs(cut.mesh, <<g1, o2, h3>>) = {<<m1, v2>>, <<v2, v3>>, <<v3, m3>>}
        /\ AllAbove(cut, Dirs(cut.mesh, <<g1, o2, h3>>))
    <3>1. Above(cut, m1, v2) /\ Above(cut, v2, v3) /\ Above(cut, v3, m3)
      BY <1>1, <1>34, <1>36, <1>38, <1>18
    <3>2. RunsRound(cut.mesh, <<g1, o2, h3>>, 0, m3, m1)
      BY <2>5, TripleRuns
    <3>3. Dirs(cut.mesh, <<g1, o2, h3>>) = {<<m1, v2>>, <<v2, v3>>, <<v3, m3>>}
      BY <2>5, TripleDirs
    <3>4. QED BY <3>1, <3>2, <3>3 DEF AllAbove
  <2>10. /\ RunsRound(cut.mesh, <<h1, g3>>, 1, m1, m3)
        /\ Dirs(cut.mesh, <<h1, g3>>) = {<<v1, m1>>, <<m3, v1>>}
        /\ AllBelow(cut, Dirs(cut.mesh, <<h1, g3>>))
    <3>1. Below(cut, v1, m1) /\ Below(cut, m3, v1)
      BY <1>1, <1>34, <1>36, <1>38, <1>18
    <3>2. RunsRound(cut.mesh, <<h1, g3>>, 1, m1, m3)
      BY <2>6, PairRuns
    <3>3. Dirs(cut.mesh, <<h1, g3>>) = {<<v1, m1>>, <<m3, v1>>}
      BY <2>6, PairDirs
    <3>4. QED BY <3>1, <3>2, <3>3 DEF AllBelow
  <2>11. Dirs(cut.mesh, <<g1, o2, h3>>) \cup Dirs(cut.mesh, <<h1, g3>>) = pieces
    BY <1>1, <1>33, <1>35, <1>37, <1>18, <2>9, <2>10 DEF pieces
  <2>12. m3 # m1 /\ cut.immersions[m3] = 0 /\ cut.immersions[m1] = 0
    BY <1>1, <1>5, <1>6, <1>7, <1>9, <1>32, <1>18
  <2>13. Cleft(cut, sides, m3, m1, pieces)
    BY <2>3, <2>9, <2>10, <2>11, <2>12 DEF Cleft, IsLists
  <2>14. Cleaved(cut, sides, v1, v2, v3, pieces)
    BY <2>4, <2>13 DEF Cleaved
  <2>15. QED BY <2>4, <2>7, <2>8, <2>14 DEF Parted
<1>19. CASE z1 > 0 /\ z2 > 0 /\ z3 < 0
  <2>1. sides = Outwards(Inwards(AddImmersed(NoSides, o1), h2, g2), h3, g3)
    BY <1>1, <1>2, <1>3, <1>4, <1>19 DEF sides
  <2>2. g2 \in S /\ g3 \in S /\ h2 \in S /\ h3 \in S /\ o1 \in S
    BY <1>1, <1>6, <1>7, <1>19
  <2>3. IsLists(Along(1 .. Len(cut.mesh.edges)), sides,
           <<g2, h3>>, <<o1, h2, g3>>, "immersed", 0, 2)
    BY <2>1, <2>2, SidesIYX DEF S
  <2>4. /\ Len(sides.emerged) = 2 /\ Len(sides.immersed) = 3
        /\ sides.emerged \in Seq(Along(1 .. Len(cut.mesh.edges)))
        /\ sides.immersed \in Seq(Along(1 .. Len(cut.mesh.edges)))
    BY <2>3, LengthOfTuples DEF IsLists
  <2>5. /\ Runs(cut.mesh, g2, m2, v3)
        /\ Runs(cut.mesh, h3, v3, m3)
    BY <1>1, <1>6, <1>7, <1>19
  <2>6. /\ Runs(cut.mesh, o1, v1, v2)
        /\ Runs(cut.mesh, h2, v2, m2)
        /\ Runs(cut.mesh, g3, m3, v1)
    BY <1>1, <1>6, <1>7, <1>19
  <2>7. SideCloses(cut, sides.emerged, sides.first_emerged, "emerged")
    <3>1. /\ OnSide(cut, "emerged", v3) /\ OnSide(cut, "emerged", m3)
          /\ OnSide(cut, "emerged", m2)
      BY <1>1, <1>8, <1>6, <1>7, <1>19
    <3>2. v3 # m3 /\ v3 # m2 /\ m3 # m2
      BY <1>9, <1>6, <1>7, <1>19
    <3>3. SideCloses(cut, <<g2, h3>>, 0, "emerged")
      BY <2>5, <3>1, <3>2, PairCloses
    <3>4. QED BY <2>3, <3>3 DEF IsLists
  <2>8. SideCloses(cut, sides.immersed, sides.first_immersed, "immersed")
    <3>1. /\ OnSide(cut, "immersed", v2) /\ OnSide(cut, "immersed", m2)
          /\ OnSide(cut, "immersed", v1) /\ OnSide(cut, "immersed", m3)
      BY <1>1, <1>8, <1>6, <1>7, <1>19
    <3>2. v2 # m2 /\ v2 # v1 /\ v2 # m3 /\ m2 # v1 /\ m2 # m3 /\ v1 # m3
      BY <1>9, <1>6, <1>7, <1>19
    <3>3. SideCloses(cut, <<o1, h2, g3>>, 2, "immersed")
      BY <2>6, <3>1, <3>2, TripleCloses
    <3>4. QED BY <2>3, <3>3 DEF IsLists
  <2>9. /\ RunsRound(cut.mesh, <<g2, h3>>, 0, m3, m2)
        /\ Dirs(cut.mesh, <<g2, h3>>) = {<<m2, v3>>, <<v3, m3>>}
        /\ AllAbove(cut, Dirs(cut.mesh, <<g2, h3>>))
    <3>1. Above(cut, m2, v3) /\ Above(cut, v3, m3)
      BY <1>1, <1>34, <1>36, <1>38, <1>19
    <3>2. RunsRound(cut.mesh, <<g2, h3>>, 0, m3, m2)
      BY <2>5, PairRuns
    <3>3. Dirs(cut.mesh, <<g2, h3>>) = {<<m2, v3>>, <<v3, m3>>}
      BY <2>5, PairDirs
    <3>4. QED BY <3>1, <3>2, <3>3 DEF AllAbove
  <2>10. /\ RunsRound(cut.mesh, <<o1, h2, g3>>, 2, m2, m3)
        /\ Dirs(cut.mesh, <<o1, h2, g3>>) = {<<v1, v2>>, <<v2, m2>>, <<m3, v1>>}
        /\ AllBelow(cut, Dirs(cut.mesh, <<o1, h2, g3>>))
    <3>1. Below(cut, v1, v2) /\ Below(cut, v2, m2) /\ Below(cut, m3, v1)
      BY <1>1, <1>34, <1>36, <1>38, <1>19
    <3>2. RunsRound(cut.mesh, <<o1, h2, g3>>, 2, m2, m3)
      BY <2>6, TripleRuns
    <3>3. Dirs(cut.mesh, <<o1, h2, g3>>) = {<<v1, v2>>, <<v2, m2>>, <<m3, v1>>}
      BY <2>6, TripleDirs
    <3>4. QED BY <3>1, <3>2, <3>3 DEF AllBelow
  <2>11. Dirs(cut.mesh, <<g2, h3>>) \cup Dirs(cut.mesh, <<o1, h2, g3>>) = pieces
    BY <1>1, <1>33, <1>35, <1>37, <1>19, <2>9, <2>10 DEF pieces
  <2>12. m3 # m2 /\ cut.immersions[m3] = 0 /\ cut.immersions[m2] = 0
    BY <1>1, <1>5, <1>6, <1>7, <1>9, <1>32, <1>19
  <2>13. Cleft(cut, sides, m3, m2, pieces)
    BY <2>3, <2>9, <2>10, <2>11, <2>12 DEF Cleft, IsLists
  <2>14. Cleaved(cut, sides, v1, v2, v3, pieces)
    BY <2>4, <2>13 DEF Cleaved
  <2>15. QED BY <2>4, <2>7, <2>8, <2>14 DEF Parted
<1>20. CASE z1 > 0 /\ z2 < 0 /\ z3 > 0
  <2>1. sides = AddImmersed(Outwards(Inwards(NoSides, h1, g1), h2, g2), o3)
    BY <1>1, <1>2, <1>3, <1>4, <1>20 DEF sides
  <2>2. g1 \in S /\ g2 \in S /\ h1 \in S /\ h2 \in S /\ o3 \in S
    BY <1>1, <1>5, <1>6, <1>20
  <2>3. IsLists(Along(1 .. Len(cut.mesh.edges)), sides,
           <<g1, h2>>, <<h1, g2, o3>>, "immersed", 0, 1)
    BY <2>1, <2>2, SidesYXI DEF S
  <2>4. /\ Len(sides.emerged) = 2 /\ Len(sides.immersed) = 3
        /\ sides.emerged \in Seq(Along(1 .. Len(cut.mesh.edges)))
        /\ sides.immersed \in Seq(Along(1 .. Len(cut.mesh.edges)))
    BY <2>3, LengthOfTuples DEF IsLists
  <2>5. /\ Runs(cut.mesh, g1, m1, v2)
        /\ Runs(cut.mesh, h2, v2, m2)
    BY <1>1, <1>5, <1>6, <1>20
  <2>6. /\ Runs(cut.mesh, h1, v1, m1)
        /\ Runs(cut.mesh, g2, m2, v3)
        /\ Runs(cut.mesh, o3, v3, v1)
    BY <1>1, <1>5, <1>6, <1>20
  <2>7. SideCloses(cut, sides.emerged, sides.first_emerged, "emerged")
    <3>1. /\ OnSide(cut, "emerged", v2) /\ OnSide(cut, "emerged", m2)
          /\ OnSide(cut, "emerged", m1)
      BY <1>1, <1>8, <1>5, <1>6, <1>20
    <3>2. v2 # m2 /\ v2 # m1 /\ m2 # m1
      BY <1>9, <1>5, <1>6, <1>20
    <3>3. SideCloses(cut, <<g1, h2>>, 0, "emerged")
      BY <2>5, <3>1, <3>2, PairCloses
    <3>4. QED BY <2>3, <3>3 DEF IsLists
  <2>8. SideCloses(cut, sides.immersed, sides.first_immersed, "immersed")
    <3>1. /\ OnSide(cut, "immersed", m1) /\ OnSide(cut, "immersed", v3)
          /\ OnSide(cut, "immersed", v1) /\ OnSide(cut, "immersed", m2)
      BY <1>1, <1>8, <1>5, <1>6, <1>20
    <3>2. m1 # v3 /\ m1 # v1 /\ m1 # m2 /\ v3 # v1 /\ v3 # m2 /\ v1 # m2
      BY <1>9, <1>5, <1>6, <1>20
    <3>3. SideCloses(cut, <<h1, g2, o3>>, 1, "immersed")
      BY <2>6, <3>1, <3>2, TripleCloses
    <3>4. QED BY <2>3, <3>3 DEF IsLists
  <2>9. /\ RunsRound(cut.mesh, <<g1, h2>>, 0, m2, m1)
        /\ Dirs(cut.mesh, <<g1, h2>>) = {<<m1, v2>>, <<v2, m2>>}
        /\ AllAbove(cut, Dirs(cut.mesh, <<g1, h2>>))
    <3>1. Above(cut, m1, v2) /\ Above(cut, v2, m2)
      BY <1>1, <1>34, <1>36, <1>38, <1>20
    <3>2. RunsRound(cut.mesh, <<g1, h2>>, 0, m2, m1)
      BY <2>5, PairRuns
    <3>3. Dirs(cut.mesh, <<g1, h2>>) = {<<m1, v2>>, <<v2, m2>>}
      BY <2>5, PairDirs
    <3>4. QED BY <3>1, <3>2, <3>3 DEF AllAbove
  <2>10. /\ RunsRound(cut.mesh, <<h1, g2, o3>>, 1, m1, m2)
        /\ Dirs(cut.mesh, <<h1, g2, o3>>) = {<<v1, m1>>, <<m2, v3>>, <<v3, v1>>}
        /\ AllBelow(cut, Dirs(cut.mesh, <<h1, g2, o3>>))
    <3>1. Below(cut, v1, m1) /\ Below(cut, m2, v3) /\ Below(cut, v3, v1)
      BY <1>1, <1>34, <1>36, <1>38, <1>20
    <3>2. RunsRound(cut.mesh, <<h1, g2, o3>>, 1, m1, m2)
      BY <2>6, TripleRuns
    <3>3. Dirs(cut.mesh, <<h1, g2, o3>>) = {<<v1, m1>>, <<m2, v3>>, <<v3, v1>>}
      BY <2>6, TripleDirs
    <3>4. QED BY <3>1, <3>2, <3>3 DEF AllBelow
  <2>11. Dirs(cut.mesh, <<g1, h2>>) \cup Dirs(cut.mesh, <<h1, g2, o3>>) = pieces
    BY <1>1, <1>33, <1>35, <1>37, <1>20, <2>9, <2>10 DEF pieces
  <2>12. m2 # m1 /\ cut.immersions[m2] = 0 /\ cut.immersions[m1] = 0
    BY <1>1, <1>5, <1>6, <1>7, <1>9, <1>32, <1>20
  <2>13. Cleft(cut, sides, m2, m1, pieces)
    BY <2>3, <2>9, <2>10, <2>11, <2>12 DEF Cleft, IsLists
  <2>14. Cleaved(cut, sides, v1, v2, v3, pieces)
    BY <2>4, <2>13 DEF Cleaved
  <2>15. QED BY <2>4, <2>7, <2>8, <2>14 DEF Parted
<1>21. CASE z1 < 0 /\ z2 > 0 /\ z3 > 0
  <2>1. sides = Inwards(AddImmersed(Outwards(NoSides, h1, g1), o2), h3, g3)
    BY <1>1, <1>2, <1>3, <1>4, <1>21 DEF sides
  <2>2. g1 \in S /\ g3 \in S /\ h1 \in S /\ h3 \in S /\ o2 \in S
    BY <1>1, <1>5, <1>7, <1>21
  <2>3. IsLists(Along(1 .. Len(cut.mesh.edges)), sides,
           <<h1, g3>>, <<g1, o2, h3>>, "emerged", 1, 0)
    BY <2>1, <2>2, SidesXIY DEF S
  <2>4. /\ Len(sides.emerged) = 2 /\ Len(sides.immersed) = 3
        /\ sides.emerged \in Seq(Along(1 .. Len(cut.mesh.edges)))
        /\ sides.immersed \in Seq(Along(1 .. Len(cut.mesh.edges)))
    BY <2>3, LengthOfTuples DEF IsLists
  <2>5. /\ Runs(cut.mesh, h1, v1, m1)
        /\ Runs(cut.mesh, g3, m3, v1)
    BY <1>1, <1>5, <1>7, <1>21
  <2>6. /\ Runs(cut.mesh, g1, m1, v2)
        /\ Runs(cut.mesh, o2, v2, v3)
        /\ Runs(cut.mesh, h3, v3, m3)
    BY <1>1, <1>5, <1>7, <1>21
  <2>7. SideCloses(cut, sides.emerged, sides.first_emerged, "emerged")
    <3>1. /\ OnSide(cut, "emerged", m1) /\ OnSide(cut, "emerged", v1)
          /\ OnSide(cut, "emerged", m3)
      BY <1>1, <1>8, <1>5, <1>7, <1>21
    <3>2. m1 # v1 /\ m1 # m3 /\ v1 # m3
      BY <1>9, <1>5, <1>7, <1>21
    <3>3. SideCloses(cut, <<h1, g3>>, 1, "emerged")
      BY <2>5, <3>1, <3>2, PairCloses
    <3>4. QED BY <2>3, <3>3 DEF IsLists
  <2>8. SideCloses(cut, sides.immersed, sides.first_immersed, "immersed")
    <3>1. /\ OnSide(cut, "immersed", v2) /\ OnSide(cut, "immersed", v3)
          /\ OnSide(cut, "immersed", m3) /\ OnSide(cut, "immersed", m1)
      BY <1>1, <1>8, <1>5, <1>7, <1>21
    <3>2. v2 # v3 /\ v2 # m3 /\ v2 # m1 /\ v3 # m3 /\ v3 # m1 /\ m3 # m1
      BY <1>9, <1>5, <1>7, <1>21
    <3>3. SideCloses(cut, <<g1, o2, h3>>, 0, "immersed")
      BY <2>6, <3>1, <3>2, TripleCloses
    <3>4. QED BY <2>3, <3>3 DEF IsLists
  <2>9. /\ RunsRound(cut.mesh, <<h1, g3>>, 1, m1, m3)
        /\ Dirs(cut.mesh, <<h1, g3>>) = {<<v1, m1>>, <<m3, v1>>}
        /\ AllAbove(cut, Dirs(cut.mesh, <<h1, g3>>))
    <3>1. Above(cut, v1, m1) /\ Above(cut, m3, v1)
      BY <1>1, <1>34, <1>36, <1>38, <1>21
    <3>2. RunsRound(cut.mesh, <<h1, g3>>, 1, m1, m3)
      BY <2>5, PairRuns
    <3>3. Dirs(cut.mesh, <<h1, g3>>) = {<<v1, m1>>, <<m3, v1>>}
      BY <2>5, PairDirs
    <3>4. QED BY <3>1, <3>2, <3>3 DEF AllAbove
  <2>10. /\ RunsRound(cut.mesh, <<g1, o2, h3>>, 0, m3, m1)
        /\ Dirs(cut.mesh, <<g1, o2, h3>>) = {<<m1, v2>>, <<v2, v3>>, <<v3, m3>>}
        /\ AllBelow(cut, Dirs(cut.mesh, <<g1, o2, h3>>))
    <3>1. Below(cut, m1, v2) /\ Below(cut, v2, v3) /\ Below(cut, v3, m3)
      BY <1>1, <1>34, <1>36, <1>38, <1>21
    <3>2. RunsRound(cut.mesh, <<g1, o2, h3>>, 0, m3, m1)
      BY <2>6, TripleRuns
    <3>3. Dirs(cut.mesh, <<g1, o2, h3>>) = {<<m1, v2>>, <<v2, v3>>, <<v3, m3>>}
      BY <2>6, TripleDirs
    <3>4. QED BY <3>1, <3>2, <3>3 DEF AllBelow
  <2>11. Dirs(cut.mesh, <<h1, g3>>) \cup Dirs(cut.mesh, <<g1, o2, h3>>) = pieces
    BY <1>1, <1>33, <1>35, <1>37, <1>21, <2>9, <2>10 DEF pieces
  <2>12. m1 # m3 /\ cut.immersions[m1] = 0 /\ cut.immersions[m3] = 0
    BY <1>1, <1>5, <1>6, <1>7, <1>9, <1>32, <1>21
  <2>13. Cleft(cut, sides, m1, m3, pieces)
    BY <2>3, <2>9, <2>10, <2>11, <2>12 DEF Cleft, IsLists
  <2>14. Cleaved(cut, sides, v1, v2, v3, pieces)
    BY <2>4, <2>13 DEF Cleaved
  <2>15. QED BY <2>4, <2>7, <2>8, <2>14 DEF Parted
<1>22. CASE z1 <= 0 /\ z2 <= 0 /\ z3 <= 0 /\ (z1 < 0 \/ z2 < 0)
           /\ (z2 < 0 \/ z3 < 0) /\ (z3 < 0 \/ z1 < 0)
  <2>1. sides = AddEmerged(AddEmerged(AddEmerged(NoSides, o1), o2), o3)
    BY <1>1, <1>2, <1>3, <1>4, <1>22 DEF sides
  <2>2. IsLists(Along(1 .. Len(cut.mesh.edges)), sides,
           <<o1, o2, o3>>, <<>>, "emerged", 0, 0)
    BY <1>1, <2>1, SidesEEE DEF S
  <2>3. /\ Len(sides.emerged) = 3 /\ Len(sides.immersed) = 0
        /\ sides.emerged \in Seq(Along(1 .. Len(cut.mesh.edges)))
        /\ sides.immersed \in Seq(Along(1 .. Len(cut.mesh.edges)))
    BY <2>2, LengthOfTuples DEF IsLists
  <2>4. /\ OnSide(cut, "emerged", v1) /\ OnSide(cut, "emerged", v2)
        /\ OnSide(cut, "emerged", v3)
    BY <1>1, <1>8, <1>22
  <2>5. Cleaved(cut, sides, v1, v2, v3, pieces)
    BY <1>1, <1>32, <1>22, <2>3 DEF Cleaved
  <2>6. QED BY <2>3, <2>4, <2>5 DEF Parted
<1>23. CASE z1 = 0 /\ z2 = 0 /\ z3 < 0
  <2>1. sides = AddEmerged(AddEmerged(AddOnSurface(NoSides, o1), o2), o3)
    BY <1>1, <1>2, <1>3, <1>4, <1>23 DEF sides
  <2>2. IsLists(Along(1 .. Len(cut.mesh.edges)), sides,
           <<o1, o2, o3>>, <<o1>>, "emerged", 0, 0)
    BY <1>1, <2>1, SidesSEE DEF S
  <2>3. /\ Len(sides.emerged) = 3 /\ Len(sides.immersed) = 1
        /\ sides.emerged \in Seq(Along(1 .. Len(cut.mesh.edges)))
        /\ sides.immersed \in Seq(Along(1 .. Len(cut.mesh.edges)))
    BY <2>2, LengthOfTuples DEF IsLists
  <2>4. /\ OnSide(cut, "emerged", v1) /\ OnSide(cut, "emerged", v2)
        /\ OnSide(cut, "emerged", v3)
    BY <1>1, <1>8, <1>23
  <2>5. Cleaved(cut, sides, v1, v2, v3, pieces)
    BY <1>1, <1>32, <1>23, <2>3 DEF Cleaved
  <2>6. QED BY <2>3, <2>4, <2>5 DEF Parted
<1>24. CASE z1 < 0 /\ z2 = 0 /\ z3 = 0
  <2>1. sides = AddEmerged(AddOnSurface(AddEmerged(NoSides, o1), o2), o3)
    BY <1>1, <1>2, <1>3, <1>4, <1>24 DEF sides
  <2>2. IsLists(Along(1 .. Len(cut.mesh.edges)), sides,
           <<o1, o2, o3>>, <<o2>>, "emerged", 0, 1)
    BY <1>1, <2>1, SidesESE DEF S
  <2>3. /\ Len(sides.emerged) = 3 /\ Len(sides.immersed) = 1
        /\ sides.emerged \in Seq(Along(1 .. Len(cut.mesh.edges)))
        /\ sides.immersed \in Seq(Along(1 .. Len(cut.mesh.edges)))
    BY <2>2, LengthOfTuples DEF IsLists
  <2>4. /\ OnSide(cut, "emerged", v1) /\ OnSide(cut, "emerged", v2)
        /\ OnSide(cut, "emerged", v3)
    BY <1>1, <1>8, <1>24
  <2>5. Cleaved(cut, sides, v1, v2, v3, pieces)
    BY <1>1, <1>32, <1>24, <2>3 DEF Cleaved
  <2>6. QED BY <2>3, <2>4, <2>5 DEF Parted
<1>25. CASE z1 = 0 /\ z2 < 0 /\ z3 = 0
  <2>1. sides = AddOnSurface(AddEmerged(AddEmerged(NoSides, o1), o2), o3)
    BY <1>1, <1>2, <1>3, <1>4, <1>25 DEF sides
  <2>2. IsLists(Along(1 .. Len(cut.mesh.edges)), sides,
           <<o1, o2, o3>>, <<o3>>, "emerged", 0, 1)
    BY <1>1, <2>1, SidesEES DEF S
  <2>3. /\ Len(sides.emerged) = 3 /\ Len(sides.immersed) = 1
        /\ sides.emerged \in Seq(Along(1 .. Len(cut.mesh.edges)))
        /\ sides.immersed \in Seq(Along(1 .. Len(cut.mesh.edges)))
    BY <2>2, LengthOfTuples DEF IsLists
  <2>4. /\ OnSide(cut, "emerged", v1) /\ OnSide(cut, "emerged", v2)
        /\ OnSide(cut, "emerged", v3)
    BY <1>1, <1>8, <1>25
  <2>5. Cleaved(cut, sides, v1, v2, v3, pieces)
    BY <1>1, <1>32, <1>25, <2>3 DEF Cleaved
  <2>6. QED BY <2>3, <2>4, <2>5 DEF Parted
<1>26. CASE z1 >= 0 /\ z2 >= 0 /\ z3 >= 0 /\ (z1 > 0 \/ z2 > 0)
           /\ (z2 > 0 \/ z3 > 0) /\ (z3 > 0 \/ z1 > 0)
  <2>1. sides = AddImmersed(AddImmersed(AddImmersed(NoSides, o1), o2), o3)
    BY <1>1, <1>2, <1>3, <1>4, <1>26 DEF sides
  <2>2. IsLists(Along(1 .. Len(cut.mesh.edges)), sides,
           <<>>, <<o1, o2, o3>>, "immersed", 0, 0)
    BY <1>1, <2>1, SidesIII DEF S
  <2>3. /\ Len(sides.emerged) = 0 /\ Len(sides.immersed) = 3
        /\ sides.emerged \in Seq(Along(1 .. Len(cut.mesh.edges)))
        /\ sides.immersed \in Seq(Along(1 .. Len(cut.mesh.edges)))
    BY <2>2, LengthOfTuples DEF IsLists
  <2>4. /\ OnSide(cut, "immersed", v1) /\ OnSide(cut, "immersed", v2)
        /\ OnSide(cut, "immersed", v3)
    BY <1>1, <1>8, <1>26
  <2>5. Cleaved(cut, sides, v1, v2, v3, pieces)
    BY <1>1, <1>32, <1>26, <2>3 DEF Cleaved
  <2>6. QED BY <2>3, <2>4, <2>5 DEF Parted
<1>27. CASE z1 = 0 /\ z2 = 0 /\ z3 > 0
  <2>1. sides = AddImmersed(AddImmersed(AddOnSurface(NoSides, o1), o2), o3)
    BY <1>1, <1>2, <1>3, <1>4, <1>27 DEF sides
  <2>2. IsLists(Along(1 .. Len(cut.mesh.edges)), sides,
           <<o1>>, <<o1, o2, o3>>, "immersed", 0, 0)
    BY <1>1, <2>1, SidesSII DEF S
  <2>3. /\ Len(sides.emerged) = 1 /\ Len(sides.immersed) = 3
        /\ sides.emerged \in Seq(Along(1 .. Len(cut.mesh.edges)))
        /\ sides.immersed \in Seq(Along(1 .. Len(cut.mesh.edges)))
    BY <2>2, LengthOfTuples DEF IsLists
  <2>4. /\ OnSide(cut, "immersed", v1) /\ OnSide(cut, "immersed", v2)
        /\ OnSide(cut, "immersed", v3)
    BY <1>1, <1>8, <1>27
  <2>5. Cleaved(cut, sides, v1, v2, v3, pieces)
    BY <1>1, <1>32, <1>27, <2>3 DEF Cleaved
  <2>6. QED BY <2>3, <2>4, <2>5 DEF Parted
<1>28. CASE z1 > 0 /\ z2 = 0 /\ z3 = 0
  <2>1. sides = AddImmersed(AddOnSurface(AddImmersed(NoSides, o1), o2), o3)
    BY <1>1, <1>2, <1>3, <1>4, <1>28 DEF sides
  <2>2. IsLists(Along(1 .. Len(cut.mesh.edges)), sides,
           <<o2>>, <<o1, o2, o3>>, "immersed", 1, 0)
    BY <1>1, <2>1, SidesISI DEF S
  <2>3. /\ Len(sides.emerged) = 1 /\ Len(sides.immersed) = 3
        /\ sides.emerged \in Seq(Along(1 .. Len(cut.mesh.edges)))
        /\ sides.immersed \in Seq(Along(1 .. Len(cut.mesh.edges)))
    BY <2>2, LengthOfTuples DEF IsLists
  <2>4. /\ OnSide(cut, "immersed", v1) /\ OnSide(cut, "immersed", v2)
        /\ OnSide(cut, "immersed", v3)
    BY <1>1, <1>8, <1>28
  <2>5. Cleaved(cut, sides, v1, v2, v3, pieces)
    BY <1>1, <1>32, <1>28, <2>3 DEF Cleaved
  <2>6. QED BY <2>3, <2>4, <2>5 DEF Parted
<1>29. CASE z1 = 0 /\ z2 > 0 /\ z3 = 0
  <2>1. sides = AddOnSurface(AddImmersed(AddImmersed(NoSides, o1), o2), o3)
    BY <1>1, <1>2, <1>3, <1>4, <1>29 DEF sides
  <2>2. IsLists(Along(1 .. Len(cut.mesh.edges)), sides,
           <<o3>>, <<o1, o2, o3>>, "immersed", 1, 0)
    BY <1>1, <2>1, SidesIIS DEF S
  <2>3. /\ Len(sides.emerged) = 1 /\ Len(sides.immersed) = 3
        /\ sides.emerged \in Seq(Along(1 .. Len(cut.mesh.edges)))
        /\ sides.immersed \in Seq(Along(1 .. Len(cut.mesh.edges)))
    BY <2>2, LengthOfTuples DEF IsLists
  <2>4. /\ OnSide(cut, "immersed", v1) /\ OnSide(cut, "immersed", v2)
        /\ OnSide(cut, "immersed", v3)
    BY <1>1, <1>8, <1>29
  <2>5. Cleaved(cut, sides, v1, v2, v3, pieces)
    BY <1>1, <1>32, <1>29, <2>3 DEF Cleaved
  <2>6. QED BY <2>3, <2>4, <2>5 DEF Parted
<1>30. CASE z1 = 0 /\ z2 = 0 /\ z3 = 0
  <2>1. sides = AddOnSurface(AddOnSurface(AddOnSurface(NoSides, o1), o2), o3)
    BY <1>1, <1>2, <1>3, <1>4, <1>30 DEF sides
  <2>2. IsLists(Along(1 .. Len(cut.mesh.edges)), sides,
           <<o1, o2, o3>>, <<o1, o2, o3>>, "unknown", 0, 0)
    BY <1>1, <2>1, SidesSSS DEF S
  <2>3. /\ Len(sides.emerged) = 3 /\ Len(sides.immersed) = 3
        /\ sides.emerged \in Seq(Along(1 .. Len(cut.mesh.edges)))
        /\ sides.immersed \in Seq(Along(1 .. Len(cut.mesh.edges)))
    BY <2>2, LengthOfTuples DEF IsLists
  <2>4. SideCloses(cut, sides.emerged, sides.first_emerged, "emerged")
    <3>1. /\ Runs(cut.mesh, o1, v1, v2)
          /\ Runs(cut.mesh, o2, v2, v3)
          /\ Runs(cut.mesh, o3, v3, v1)
      BY <1>1, <1>30
    <3>2. /\ OnSide(cut, "emerged", v2) /\ OnSide(cut, "emerged", v3)
          /\ OnSide(cut, "emerged", v1)
      BY <1>1, <1>8, <1>30
    <3>3. v2 # v3 /\ v2 # v1 /\ v3 # v1
      BY <1>9, <1>30
    <3>4. SideCloses(cut, <<o1, o2, o3>>, 0, "emerged")
      BY <3>1, <3>2, <3>3, TripleCloses
    <3>5. QED BY <2>2, <3>4 DEF IsLists
  <2>5. SideCloses(cut, sides.immersed, sides.first_immersed, "immersed")
    <3>1. /\ Runs(cut.mesh, o1, v1, v2)
          /\ Runs(cut.mesh, o2, v2, v3)
          /\ Runs(cut.mesh, o3, v3, v1)
      BY <1>1, <1>30
    <3>2. /\ OnSide(cut, "immersed", v2) /\ OnSide(cut, "immersed", v3)
          /\ OnSide(cut, "immersed", v1)
      BY <1>1, <1>8, <1>30
    <3>3. v2 # v3 /\ v2 # v1 /\ v3 # v1
      BY <1>9, <1>30
    <3>4. SideCloses(cut, <<o1, o2, o3>>, 0, "immersed")
      BY <3>1, <3>2, <3>3, TripleCloses
    <3>5. QED BY <2>2, <3>4 DEF IsLists
  <2>6. Flat(cut, sides, v1, v2, v3)
    <3>1. sides.emerged = <<o1, o2, o3>> /\ sides.immersed = <<o1, o2, o3>>
          /\ sides.first_emerged = 0 /\ sides.first_immersed = 0
      BY <2>2 DEF IsLists
    <3>2. QED BY <1>1, <1>32, <1>30, <3>1 DEF Flat
  <2>7. Cleaved(cut, sides, v1, v2, v3, pieces)
    BY <2>3, <2>6 DEF Cleaved
  <2>8. QED BY <2>3, <2>4, <2>5, <2>7 DEF Parted
<1>31. QED BY <1>1, <1>10, <1>11, <1>12, <1>13, <1>14, <1>15, <1>16, <1>17, <1>18, <1>19, <1>20, <1>21, <1>22, <1>23, <1>24, <1>25, <1>26, <1>27, <1>28, <1>29, <1>30

\* The facet made of the edges of a part and its closing edge has their directions as its
\* sides.
LEMMA RoundFacet ==
  ASSUME NEW cut, cut.mesh \in Meshes, NEW L, NEW k, NEW side,
         SideCloses(cut, L, k, side), NEW from, NEW to, from # to,
         RunsRound(cut.mesh, L, k, from, to),
         NEW m, Grown(cut.mesh, m), EdgesExist(m), NEW o, Runs(m, o, from, to)
  PROVE  SidesOfNodes(NewFacet(m, InsertAt(L, k + 1, o)))
           = Dirs(cut.mesh, L) \cup {<<from, to>>}
<1> DEFINE n == Len(L)
           S == Along(1 .. Len(m.edges))
           M == InsertAt(L, k + 1, o)
           start(i) == first_vertex_of_oriented_edge(cut.mesh, L[i])
           end(i) == second_vertex_of_oriented_edge(cut.mesh, L[i])
           a(i) == first_vertex_of_oriented_edge(m, M[i])
           b(i) == second_vertex_of_oriented_edge(m, M[i])
<1>1. /\ n \in Nat /\ k \in Nat /\ k < n
      /\ \A i \in 1 .. n : L[i] \in Along(1 .. Len(cut.mesh.edges))
  <2>1. L \in Seq(Along(1 .. Len(cut.mesh.edges))) /\ k \in 0 .. n - 1
    BY DEF SideCloses
  <2>2. n \in Nat
    BY <2>1, LenProperties
  <2>3. \A i \in 1 .. n : L[i] \in Along(1 .. Len(cut.mesh.edges))
    BY <2>1, ElementOfSeq
  <2> HIDE DEF n
  <2>4. QED BY <2>1, <2>2, <2>3
<1>2. \A i \in 1 .. n : /\ L[i] \in S
                        /\ first_vertex_of_oriented_edge(m, L[i]) = start(i)
                        /\ second_vertex_of_oriented_edge(m, L[i]) = end(i)
  BY <1>1, OrientedStay
<1>3. m \in Meshes /\ L \in Seq(S)
  <2>1. m \in Meshes
    BY DEF Grown
  <2>2. L \in Seq(Along(1 .. Len(cut.mesh.edges)))
    BY DEF SideCloses
  <2>3. L = [i \in 1 .. n |-> L[i]]
    BY <2>2, LenProperties
  <2> HIDE DEF S
  <2>4. QED BY <1>1, <1>2, <2>1, <2>3, IsASeq
<1>4. /\ M \in Seq(S) /\ Len(M) = n + 1 /\ M[k + 1] = o
      /\ \A i \in 1 .. k : M[i] = L[i]
      /\ \A i \in k + 2 .. n + 1 : M[i] = L[i - 1]
  <2>1. k \in 0 .. Len(L)
    BY <1>1
  <2>2. o \in S
    BY DEF Runs
  <2> HIDE DEF S
  <2>3. Inserted(S, L, k, o, M)
    BY <1>3, <2>1, <2>2, InsertAtIs
  <2>4. QED BY <2>3 DEF Inserted
<1>5. /\ start(k + 1) = to /\ end(IF k = 0 THEN n ELSE k) = from
      /\ \A i \in 1 .. n - 1 : i # k => end(i) = start(i + 1)
      /\ k # 0 => end(n) = start(1)
  BY DEF RunsRound
<1>6. /\ \A i, j \in 1 .. n : i # j => end(i) # end(j)
      /\ (k = 0 /\ start(k + 1) = end(n)) \/ \A i \in 1 .. n : start(k + 1) # end(i)
  BY DEF SideCloses
<1> HIDE DEF n, S, M, start, end
<1>7. \A i \in 1 .. n : end(i) # to
  BY <1>5, <1>6
<1>8. /\ a(k + 1) = from /\ b(k + 1) = to
      /\ \A i \in 1 .. k : a(i) = start(i) /\ b(i) = end(i)
      /\ \A i \in k + 2 .. n + 1 : a(i) = start(i - 1) /\ b(i) = end(i - 1)
  <2>1. a(k + 1) = from /\ b(k + 1) = to
    BY <1>4 DEF Runs
  <2>2. ASSUME NEW i \in 1 .. k PROVE a(i) = start(i) /\ b(i) = end(i)
    BY <1>1, <1>2, <1>4
  <2>3. ASSUME NEW i \in k + 2 .. n + 1 PROVE a(i) = start(i - 1) /\ b(i) = end(i - 1)
    <3>1. M[i] = L[i - 1] /\ i - 1 \in 1 .. n
      BY <1>1, <1>4
    <3>2. QED BY <1>2, <3>1
  <2>4. QED BY <2>1, <2>2, <2>3
<1> HIDE DEF a, b
<1>9. ASSUME NEW i \in 1 .. n + 1, NEW j \in 1 .. n + 1, i # j
      PROVE  b(i) # b(j)
  <2> DEFINE old(x) == IF x <= k THEN x ELSE x - 1
  <2>1. \A x \in 1 .. n + 1 : x # k + 1 => b(x) = end(old(x)) /\ old(x) \in 1 .. n
    BY <1>1, <1>8
  <2>2. i # k + 1 /\ j # k + 1 => old(i) # old(j)
    BY <1>1, <1>9
  <2> HIDE DEF old
  <2>3. CASE i = k + 1
    BY <1>7, <1>8, <1>9, <2>1, <2>3
  <2>4. CASE j = k + 1
    BY <1>7, <1>8, <1>9, <2>1, <2>4
  <2>5. CASE i # k + 1 /\ j # k + 1
    BY <1>6, <2>1, <2>2, <2>5
  <2>6. QED BY <2>3, <2>4, <2>5
<1>10. ASSUME NEW i \in 1 .. n + 1
       PROVE  b(i) = a(IF i = n + 1 THEN 1 ELSE i + 1)
  <2>1. CASE i < k
    <3>1. i \in 1 .. k /\ i + 1 \in 1 .. k /\ i \in 1 .. n - 1 /\ i # n + 1
      BY <1>1, <2>1
    <3>2. QED BY <1>5, <1>8, <2>1, <3>1
  <2>2. CASE i = k
    BY <1>1, <1>5, <1>8, <2>2
  <2>3. CASE i = k + 1
    <3>1. k + 2 \in k + 2 .. n + 1 /\ (k + 2) - 1 = k + 1 /\ i # n + 1 /\ i + 1 = k + 2
      BY <1>1, <2>3
    <3>2. QED BY <1>5, <1>8, <2>3, <3>1
  <2>4. CASE i > k + 1 /\ i < n + 1
    <3>1. /\ i \in k + 2 .. n + 1 /\ i + 1 \in k + 2 .. n + 1 /\ (i + 1) - 1 = i
          /\ i - 1 \in 1 .. n - 1 /\ (i - 1) + 1 = i /\ i - 1 # k
      BY <1>1, <2>4
    <3>2. end(i - 1) = start(i)
      BY <1>5, <3>1
    <3>3. QED BY <1>8, <2>4, <3>1, <3>2
  <2>5. CASE i > k + 1 /\ i = n + 1
    <3>1. b(i) = end(n)
      BY <1>1, <1>8, <2>5
    <3>2. CASE k = 0
      BY <1>5, <1>8, <2>5, <3>1, <3>2
    <3>3. CASE k # 0
      <4>1. 1 \in 1 .. k
        BY <1>1, <3>3
      <4>2. QED BY <1>5, <1>8, <2>5, <3>1, <3>3, <4>1
    <3>4. QED BY <3>2, <3>3
  <2>6. QED BY <1>1, <2>1, <2>2, <2>3, <2>4, <2>5
<1>11. {<<a(i), b(i)>> : i \in 1 .. n + 1} = {<<start(i), end(i)>> : i \in 1 .. n} \cup {<<from, to>>}
  <2>1. ASSUME NEW i \in 1 .. n + 1
        PROVE  <<a(i), b(i)>> \in {<<start(j), end(j)>> : j \in 1 .. n} \cup {<<from, to>>}
    <3>1. CASE i <= k
      <4>1. i \in 1 .. k /\ i \in 1 .. n
        BY <1>1, <3>1
      <4>2. QED BY <1>8, <4>1
    <3>2. CASE i = k + 1
      BY <1>8, <3>2
    <3>3. CASE i > k + 1
      <4>1. i \in k + 2 .. n + 1 /\ i - 1 \in 1 .. n
        BY <1>1, <3>3
      <4>2. QED BY <1>8, <4>1
    <3>4. QED BY <1>1, <3>1, <3>2, <3>3
  <2>2. ASSUME NEW j \in 1 .. n
        PROVE  \E i \in 1 .. n + 1 : <<start(j), end(j)>> = <<a(i), b(i)>>
    <3>1. CASE j <= k
      <4>1. j \in 1 .. k /\ j \in 1 .. n + 1
        BY <1>1, <3>1
      <4>2. QED BY <1>8, <4>1
    <3>2. CASE j > k
      <4>1. j + 1 \in k + 2 .. n + 1 /\ (j + 1) - 1 = j /\ j + 1 \in 1 .. n + 1
        BY <1>1, <3>2
      <4>2. a(j + 1) = start(j) /\ b(j + 1) = end(j)
        BY <1>8, <4>1
      <4>3. QED BY <4>1, <4>2
    <3>3. QED BY <1>1, <3>1, <3>2
  <2>3. k + 1 \in 1 .. n + 1 /\ <<from, to>> = <<a(k + 1), b(k + 1)>>
    BY <1>1, <1>8
  <2>4. QED BY <2>1, <2>2, <2>3
<1>12. SidesOfNodes(NewFacet(m, M)) = {<<a(i), b(i)>> : i \in 1 .. n + 1}
  <2> DEFINE l == n + 1
  <2>1. l \in 1 .. Len(M) /\ Len(M) = l
    BY <1>1, <1>4
  <2>2. \A i \in l + 1 .. Len(M) : FALSE
    BY <1>1, <2>1
  <2>3. M \in Seq(Along(1 .. Len(m.edges)))
    BY <1>4 DEF S
  <2>4. /\ \A i, j \in 1 .. l : i # j => b(i) # b(j)
        /\ \A i \in 1 .. l : b(i) = a(IF i = l THEN 1 ELSE i + 1)
    BY <1>9, <1>10
  <2> HIDE DEF l
  <2>5. SidesOfNodes(NewFacet(m, M)) = {<<a(i), b(i)>> : i \in 1 .. l}
    BY <1>3, <2>1, <2>2, <2>3, <2>4, SidesAreDirs DEF a, b
  <2>6. QED BY <2>5 DEF l
<1>13. QED BY <1>11, <1>12 DEF n, M, start, end, Dirs

\* Classifying a facet: lists of facets that are on one side.
AllOnSide(cut, side, L) ==
  L \in Seq(Nat) /\ \A i \in 1 .. Len(L) : FacetOnSide(cut, side, L[i])

\* A facet stays on its side when the mesh grows.
LEMMA FacetStays ==
  ASSUME NEW cut, cut.mesh \in Meshes, NEW r, Grown(cut.mesh, r.mesh),
         r.immersions = cut.immersions, NEW side, NEW f, FacetOnSide(cut, side, f)
  PROVE  FacetOnSide(r, side, f)
<1>1. cut.mesh \in Meshes /\ r.mesh \in Meshes
  BY DEF Grown
<1>2. Len(cut.mesh.facets) \in Nat /\ Len(r.mesh.facets) \in Nat
  BY <1>1, MeshParts
<1>3. f \in 1 .. Len(cut.mesh.facets)
  BY DEF FacetOnSide
<1>4. f \in 1 .. Len(r.mesh.facets) /\ r.mesh.facets[f] = cut.mesh.facets[f]
  BY <1>2, <1>3 DEF Grown
<1>5. \A n : OnSide(cut, side, n) => OnSide(r, side, n)
  BY DEF OnSide
<1>6. QED BY <1>4, <1>5 DEF FacetOnSide

\* So does a list of facets.
LEMMA FacetsStay ==
  ASSUME NEW cut, cut.mesh \in Meshes, NEW r, Grown(cut.mesh, r.mesh),
         r.immersions = cut.immersions, NEW side, NEW L, AllOnSide(cut, side, L)
  PROVE  AllOnSide(r, side, L)
BY FacetStays DEF AllOnSide

\* A facet of a side may be added to its list.
LEMMA OneMoreFacet ==
  ASSUME NEW r, NEW side, NEW L, AllOnSide(r, side, L), NEW f \in Nat,
         FacetOnSide(r, side, f)
  PROVE  AllOnSide(r, side, Append(L, f))
<1> DEFINE M == Append(L, f)
<1>1. L \in Seq(Nat) /\ Len(L) \in Nat
  BY LenProperties DEF AllOnSide
<1>2. /\ M \in Seq(Nat) /\ Len(M) = Len(L) + 1 /\ M[Len(L) + 1] = f
      /\ \A i \in 1 .. Len(L) : M[i] = L[i]
  BY <1>1, AppendProperties
<1> HIDE DEF M
<1>3. ASSUME NEW i \in 1 .. Len(M) PROVE FacetOnSide(r, side, M[i])
  <2>1. CASE i = Len(L) + 1
    BY <1>2, <2>1
  <2>2. CASE i # Len(L) + 1
    <3>1. i \in 1 .. Len(L)
      BY <1>1, <1>2, <2>2
    <3>2. QED BY <1>2, <3>1 DEF AllOnSide
  <2>3. QED BY <2>1, <2>2
<1>4. QED BY <1>2, <1>3 DEF AllOnSide, M

\* The parts of a mesh whose facets are being classified.
LEMMA ClassifiedParts ==
  ASSUME NEW s, NEW z, NEW cut, Classified(s, z, cut)
  PROVE  /\ cut \in Cuts /\ cut.mesh \in Meshes /\ EdgesExist(cut.mesh)
         /\ FacetsExistIn(cut.mesh) /\ Grown(s, cut.mesh) /\ Grown(cut.mesh, cut.mesh)
         /\ AllOnSide(cut, "emerged", cut.emerged)
         /\ AllOnSide(cut, "immersed", cut.immersed)
         /\ Len(cut.mesh.edges) \in Nat /\ Len(cut.mesh.facets) \in Nat
<1>1. cut \in Cuts /\ EdgesExist(cut.mesh) /\ FacetsExistIn(cut.mesh) /\ Grown(s, cut.mesh)
  BY DEF Classified
<1>2. cut.mesh \in Meshes /\ cut.emerged \in Seq(Nat) /\ cut.immersed \in Seq(Nat)
  BY <1>1 DEF Cuts
<1>3. AllOnSide(cut, "emerged", cut.emerged) /\ AllOnSide(cut, "immersed", cut.immersed)
  BY <1>2 DEF Classified, AllOnSide
<1>4. QED BY <1>1, <1>2, <1>3, GrownItself, MeshParts

KeepsSplits(cut, r) ==
  /\ cut \in Cuts /\ r \in Cuts /\ Grown(cut.mesh, r.mesh)
  /\ r.split_edges = cut.split_edges /\ r.immersions = cut.immersions
  /\ r.edges_immersion_status = cut.edges_immersion_status

\* A split edge stays split.
LEMMA SplitsStay ==
  ASSUME NEW s, NEW z, s.nb_of_static_nodes \in Nat, NEW cut, NEW r, KeepsSplits(cut, r),
         NEW e, IsSplit(s, z, cut, e)
  PROVE  IsSplit(s, z, r, e) /\ Middle(r, e) = Middle(cut, e)
<1>1. /\ cut \in Cuts /\ r \in Cuts /\ Grown(cut.mesh, r.mesh)
      /\ r.split_edges[e] = cut.split_edges[e]
      /\ \A i \in 1 .. Len(cut.mesh.edges) :
           r.edges_immersion_status[i] = cut.edges_immersion_status[i]
      /\ \A i \in 1 .. cut.mesh.total_number_of_nodes : r.immersions[i] = cut.immersions[i]
  BY DEF KeepsSplits
<1>2. QED BY <1>1, SplitStays

\* What is known while facets are classified stays when the mesh grows and facets are
\* added to the lists of their side.
LEMMA ClassifiedStays ==
  ASSUME NEW s, NEW z, Given(s, z), NEW cut, Classified(s, z, cut),
         NEW r \in Cuts, Grown(cut.mesh, r.mesh), EdgesExist(r.mesh), FacetsExistIn(r.mesh),
         r.mesh.total_number_of_nodes = cut.mesh.total_number_of_nodes,
         r.immersions = cut.immersions,
         r.edges_immersion_status = cut.edges_immersion_status,
         r.split_edges = cut.split_edges,
         r.facet_crosses_free_surface = cut.facet_crosses_free_surface,
         r.surface_edges \subseteq 1 .. Len(r.mesh.edges),
         AllOnSide(r, "emerged", r.emerged), AllOnSide(r, "immersed", r.immersed)
  PROVE  Classified(s, z, r)
<1>1. cut \in Cuts /\ Grown(s, cut.mesh)
  BY DEF Classified
<1>2. Grown(s, r.mesh)
  BY <1>1, GivenParts, GrownTransitive
<1>3. s.nb_of_static_nodes \in Nat
  BY GivenParts
<1>4. \A e \in 1 .. s.nb_of_static_edges :
        Crosses(s, z, e) => IsSplit(s, z, r, e) /\ Middle(r, e) = Middle(cut, e)
  <2> SUFFICES ASSUME NEW e \in 1 .. s.nb_of_static_edges, Crosses(s, z, e)
               PROVE  IsSplit(s, z, r, e) /\ Middle(r, e) = Middle(cut, e)
    OBVIOUS
  <2>1. IsSplit(s, z, cut, e)
    BY DEF Classified
  <2>2. KeepsSplits(cut, r)
    BY <1>1 DEF KeepsSplits
  <2>3. QED BY <1>3, <2>1, <2>2, SplitsStay
<1>5. \A e, d \in 1 .. s.nb_of_static_edges :
        e # d /\ Crosses(s, z, e) /\ Crosses(s, z, d) => Middle(r, e) # Middle(r, d)
  BY <1>4 DEF Classified
<1>6. /\ r.mesh.total_number_of_nodes <= s.nb_of_static_nodes + s.nb_of_static_edges
      /\ Len(r.immersions) = r.mesh.total_number_of_nodes
      /\ \A i \in 1 .. s.nb_of_static_nodes : r.immersions[i] = z[i]
      /\ \A e \in 1 .. s.nb_of_static_edges :
           r.edges_immersion_status[e] = StaticStatus(s, z, e)
      /\ r.facet_crosses_free_surface = Flagged(s, z)
  BY DEF Classified
<1>7. /\ \A i \in 1 .. Len(r.emerged) : FacetOnSide(r, "emerged", r.emerged[i])
      /\ \A i \in 1 .. Len(r.immersed) : FacetOnSide(r, "immersed", r.immersed[i])
  BY DEF AllOnSide
<1>8. QED BY <1>2, <1>4, <1>5, <1>6, <1>7 DEF Classified

\* One facet more in a list.
LEMMA ListFacet ==
  ASSUME NEW s, NEW z, Given(s, z), NEW cut, Classified(s, z, cut), NEW f,
         NEW E, E \subseteq 1 .. Len(cut.mesh.edges)
  PROVE  /\ FacetOnSide(cut, "emerged", f)
              => Classified(s, z, [cut EXCEPT !.surface_edges = cut.surface_edges \cup E,
                                              !.emerged = Append(cut.emerged, f)])
         /\ FacetOnSide(cut, "immersed", f)
              => Classified(s, z, [cut EXCEPT !.surface_edges = cut.surface_edges \cup E,
                                              !.immersed = Append(cut.immersed, f)])
<1> DEFINE S == cut.surface_edges \cup E
<1>1. /\ cut \in Cuts /\ cut.mesh \in Meshes /\ EdgesExist(cut.mesh) /\ FacetsExistIn(cut.mesh)
      /\ Grown(cut.mesh, cut.mesh) /\ AllOnSide(cut, "emerged", cut.emerged)
      /\ AllOnSide(cut, "immersed", cut.immersed)
      /\ Len(cut.mesh.edges) \in Nat /\ Len(cut.mesh.facets) \in Nat
  BY ClassifiedParts
<1>2. S \in SUBSET Nat /\ S \subseteq 1 .. Len(cut.mesh.edges)
  <2>1. cut.surface_edges \subseteq 1 .. Len(cut.mesh.edges)
    BY DEF Classified
  <2>2. 1 .. Len(cut.mesh.edges) \subseteq Nat
    BY <1>1
  <2>3. QED BY <2>1, <2>2
<1> HIDE DEF S
<1>3. ASSUME FacetOnSide(cut, "emerged", f)
      PROVE  Classified(s, z, [cut EXCEPT !.surface_edges = S,
                                          !.emerged = Append(cut.emerged, f)])
  <2> DEFINE L == Append(cut.emerged, f)
             r == [cut EXCEPT !.surface_edges = S, !.emerged = L]
  <2>1. f \in Nat
    BY <1>1, <1>3 DEF FacetOnSide
  <2>2. AllOnSide(cut, "emerged", L)
    BY <1>1, <1>3, <2>1, OneMoreFacet
  <2> HIDE DEF L
  <2>3. L \in Seq(Nat)
    BY <2>2 DEF AllOnSide
  <2>4. /\ r \in Cuts /\ r.mesh = cut.mesh /\ r.immersions = cut.immersions
        /\ r.edges_immersion_status = cut.edges_immersion_status
        /\ r.split_edges = cut.split_edges
        /\ r.facet_crosses_free_surface = cut.facet_crosses_free_surface
        /\ r.surface_edges = S /\ r.emerged = L /\ r.immersed = cut.immersed
    BY <1>1, <1>2, <2>3 DEF Cuts
  <2> HIDE DEF r
  <2>5. AllOnSide(r, "emerged", r.emerged) /\ AllOnSide(r, "immersed", r.immersed)
    BY <1>1, <2>2, <2>4, FacetsStay
  <2>6. Classified(s, z, r)
    BY <1>1, <1>2, <2>4, <2>5, ClassifiedStays
  <2>7. QED BY <2>6 DEF r, L
<1>4. ASSUME FacetOnSide(cut, "immersed", f)
      PROVE  Classified(s, z, [cut EXCEPT !.surface_edges = S,
                                          !.immersed = Append(cut.immersed, f)])
  <2> DEFINE L == Append(cut.immersed, f)
             r == [cut EXCEPT !.surface_edges = S, !.immersed = L]
  <2>1. f \in Nat
    BY <1>1, <1>4 DEF FacetOnSide
  <2>2. AllOnSide(cut, "immersed", L)
    BY <1>1, <1>4, <2>1, OneMoreFacet
  <2> HIDE DEF L
  <2>3. L \in Seq(Nat)
    BY <2>2 DEF AllOnSide
  <2>4. /\ r \in Cuts /\ r.mesh = cut.mesh /\ r.immersions = cut.immersions
        /\ r.edges_immersion_status = cut.edges_immersion_status
        /\ r.split_edges = cut.split_edges
        /\ r.facet_crosses_free_surface = cut.facet_crosses_free_surface
        /\ r.surface_edges = S /\ r.immersed = L /\ r.emerged = cut.emerged
    BY <1>1, <1>2, <2>3 DEF Cuts
  <2> HIDE DEF r
  <2>5. AllOnSide(r, "emerged", r.emerged) /\ AllOnSide(r, "immersed", r.immersed)
    BY <1>1, <2>2, <2>4, FacetsStay
  <2>6. Classified(s, z, r)
    BY <1>1, <1>2, <2>4, <2>5, ClassifiedStays
  <2>7. QED BY <2>6 DEF r, L
<1>5. QED BY <1>3, <1>4 DEF S

\* A facet of the hull that is kept whole.
LEMMA WholeFacet ==
  ASSUME NEW s, NEW z, Given(s, z), NEW cut, Classified(s, z, cut),
         NEW f \in 1 .. s.nb_of_static_facets, NEW side,
         \A i \in 1 .. 3 : OnSide(cut, side, s.facets[f][i])
  PROVE  FacetOnSide(cut, side, f)
<1>1. /\ Len(s.facets) = s.nb_of_static_facets /\ Grown(s, cut.mesh) /\ s \in Meshes
  BY GivenParts DEF Classified
<1>2. cut.mesh.facets[f] = s.facets[f] /\ Len(s.facets) <= Len(cut.mesh.facets)
  BY <1>1 DEF Grown
<1>3. f \in 1 .. Len(cut.mesh.facets)
  <2>1. Len(s.facets) \in Nat /\ Len(cut.mesh.facets) \in Nat
    BY <1>1, MeshParts, ClassifiedParts
  <2>2. QED BY <1>1, <1>2, <2>1
<1>4. Len(s.facets[f]) = 3
  BY FacetCorners
<1>5. QED BY <1>2, <1>3, <1>4 DEF FacetOnSide

\* The edges of a facet on each side of the surface are those of a facet of that side.
LEMMA FacetOfTheHullIsParted ==
  ASSUME NEW s, NEW z, Given(s, z), NEW cut, Classified(s, z, cut),
         NEW f \in 1 .. s.nb_of_static_facets
  PROVE  LET v == s.facets[f]
             sides == EdgesOnEachSide(cut, cut.mesh.oriented_edges_per_facet[f])
         IN /\ Parted(cut, sides, v[1], v[2], v[3])
            /\ Cleaved(cut, sides, v[1], v[2], v[3], Pieces(s, cut, f))
<1> DEFINE v1 == s.facets[f][1]
           v2 == s.facets[f][2]
           v3 == s.facets[f][3]
           o == s.oriented_edges_per_facet[f]
           corners == {v1, v2, v3}
           h(i) == Halves(cut, o[i])[1]
           g(i) == Halves(cut, o[i])[2]
           middle(i) == Middle(cut, o[i].edge)
<1>1. /\ Len(o) = 3 /\ v1 # v2 /\ v2 # v3 /\ v3 # v1
      /\ o[1] \in Along(1 .. s.nb_of_static_edges)
      /\ o[2] \in Along(1 .. s.nb_of_static_edges)
      /\ o[3] \in Along(1 .. s.nb_of_static_edges)
      /\ o[1].edge # o[2].edge /\ o[2].edge # o[3].edge /\ o[3].edge # o[1].edge
  BY FacetCorners
<1>2. /\ first_vertex_of_oriented_edge(s, o[1]) = v1
      /\ second_vertex_of_oriented_edge(s, o[1]) = v2
      /\ first_vertex_of_oriented_edge(s, o[2]) = v2
      /\ second_vertex_of_oriented_edge(s, o[2]) = v3
      /\ first_vertex_of_oriented_edge(s, o[3]) = v3
      /\ second_vertex_of_oriented_edge(s, o[3]) = v1
  <2>1. 1 % 3 = 1 /\ 2 % 3 = 2 /\ 3 % 3 = 0
    OBVIOUS
  <2>2. \A i \in 1 .. 3 : /\ first_vertex_of_oriented_edge(s, o[i]) = s.facets[f][i]
                          /\ second_vertex_of_oriented_edge(s, o[i]) = s.facets[f][(i % 3) + 1]
    BY FacetCorners
  <2> HIDE DEF o
  <2>3. QED BY <2>1, <2>2
<1>3. corners \subseteq 1 .. s.nb_of_static_nodes
  BY FacetCorners
<1>4. cut.mesh.oriented_edges_per_facet[f] = o
  BY DEF Classified, Grown
<1> HIDE DEF v1, v2, v3, o, corners
<1>5. /\ EdgeOf(cut, corners, o[1], h(1), g(1), v1, v2, middle(1))
      /\ Crossing(cut, v1, v2) <=> Crosses(s, z, o[1].edge)
  BY <1>1, <1>2, <1>3, EdgeOfFacet
<1>6. /\ EdgeOf(cut, corners, o[2], h(2), g(2), v2, v3, middle(2))
      /\ Crossing(cut, v2, v3) <=> Crosses(s, z, o[2].edge)
  BY <1>1, <1>2, <1>3, EdgeOfFacet
<1>7. /\ EdgeOf(cut, corners, o[3], h(3), g(3), v3, v1, middle(3))
      /\ Crossing(cut, v3, v1) <=> Crosses(s, z, o[3].edge)
  BY <1>1, <1>2, <1>3, EdgeOfFacet
<1>8. \A e, d \in 1 .. s.nb_of_static_edges :
        e # d /\ Crosses(s, z, e) /\ Crosses(s, z, d) => Middle(cut, e) # Middle(cut, d)
  BY DEF Classified
<1>9. /\ o[1].edge \in 1 .. s.nb_of_static_edges /\ o[2].edge \in 1 .. s.nb_of_static_edges
      /\ o[3].edge \in 1 .. s.nb_of_static_edges
  BY <1>1 DEF Along
<1>10. /\ Crossing(cut, v1, v2) /\ Crossing(cut, v2, v3) => middle(1) # middle(2)
       /\ Crossing(cut, v2, v3) /\ Crossing(cut, v3, v1) => middle(2) # middle(3)
       /\ Crossing(cut, v3, v1) /\ Crossing(cut, v1, v2) => middle(3) # middle(1)
  BY <1>1, <1>5, <1>6, <1>7, <1>8, <1>9
<1>11. EdgesOnEachSide(cut, o)
         = AddEdge(cut, AddEdge(cut, AddEdge(cut, NoSides, o[1]), o[2]), o[3])
  BY <1>1, ThreeEdges
<1> HIDE DEF h, g, middle
<1> DEFINE pieces == PieceOf(cut, v1, v2, middle(1)) \cup PieceOf(cut, v2, v3, middle(2))
                       \cup PieceOf(cut, v3, v1, middle(3))
<1>12. Parted(cut, EdgesOnEachSide(cut, o), v1, v2, v3)
       /\ Cleaved(cut, EdgesOnEachSide(cut, o), v1, v2, v3, pieces)
  BY <1>1, <1>5, <1>6, <1>7, <1>10, <1>11, FacetIsParted DEF corners
<1>13. pieces = Pieces(s, cut, f)
  <2>1. 1 .. 3 = {1, 2, 3} /\ 1 % 3 = 1 /\ 2 % 3 = 2 /\ 3 % 3 = 0
    OBVIOUS
  <2>2. /\ Piece(s, cut, f, 1) = PieceOf(cut, v1, v2, middle(1))
        /\ Piece(s, cut, f, 2) = PieceOf(cut, v2, v3, middle(2))
        /\ Piece(s, cut, f, 3) = PieceOf(cut, v3, v1, middle(3))
    BY <2>1 DEF Piece, v1, v2, v3, o, middle
  <2>3. Pieces(s, cut, f) = UNION {Piece(s, cut, f, i) : i \in {1, 2, 3}}
    BY <2>1 DEF Pieces
  <2>4. QED BY <2>2, <2>3
<1> HIDE DEF pieces
<1>14. QED BY <1>4, <1>12, <1>13 DEF v1, v2, v3

\* The edges of a facet that are on the surface, and what is known of them.
Touching(cut, f) ==
  {o.edge : o \in {p \in ToSet(cut.mesh.oriented_edges_per_facet[f]) :
                     both_ends_just_touch_free_surface(cut.edges_immersion_status[p.edge])}}
TouchingKnown(s, cut, f, r) ==
  \A i \in 1 .. 3 :
    cut.immersions[s.facets[f][i]] = 0 /\ cut.immersions[s.facets[f][(i % 3) + 1]] = 0
      => s.oriented_edges_per_facet[f][i].edge \in r.surface_edges

\* The edges between two nodes on the surface are among them.
LEMMA TouchingIs ==
  ASSUME NEW s, NEW z, Given(s, z), NEW cut, Classified(s, z, cut),
         NEW f \in 1 .. s.nb_of_static_facets, NEW r, Touching(cut, f) \subseteq r.surface_edges
  PROVE  TouchingKnown(s, cut, f, r)
<1> SUFFICES ASSUME NEW i \in 1 .. 3, cut.immersions[s.facets[f][i]] = 0,
                    cut.immersions[s.facets[f][(i % 3) + 1]] = 0
             PROVE  s.oriented_edges_per_facet[f][i].edge \in Touching(cut, f)
  BY DEF TouchingKnown
<1>1. Len(s.facets) = s.nb_of_static_facets
  BY GivenParts
<1>2. PICK o, v, w : /\ o = s.oriented_edges_per_facet[f][i]
                     /\ v = s.facets[f][i] /\ w = s.facets[f][(i % 3) + 1]
  OBVIOUS
<1>3. /\ o \in Along(1 .. s.nb_of_static_edges)
      /\ v \in 1 .. s.nb_of_static_nodes /\ w \in 1 .. s.nb_of_static_nodes
      /\ first_vertex_of_oriented_edge(s, o) = v
      /\ second_vertex_of_oriented_edge(s, o) = w
  <2>1. f \in 1 .. Len(s.facets)
    BY <1>1
  <2>2. EdgesKnown(s, f)
    BY <2>1, EdgesAlongSides
  <2>3. QED BY <1>2, <2>2, Zenon DEF EdgesKnown
<1>4. z[v] = 0 /\ z[w] = 0
  BY <1>2, <1>3 DEF Classified
<1>5. o.edge \in 1 .. s.nb_of_static_edges
  BY <1>3 DEF Along
<1>6. both_ends_just_touch_free_surface(StaticStatus(s, z, o.edge))
  BY <1>3, <1>4, KindOfEdge
<1>7. both_ends_just_touch_free_surface(cut.edges_immersion_status[o.edge])
  BY <1>5, <1>6 DEF Classified
<1>8. cut.mesh.oriented_edges_per_facet[f] = s.oriented_edges_per_facet[f]
  BY DEF Classified, Grown
<1>9. o \in ToSet(cut.mesh.oriented_edges_per_facet[f])
  <2>1. s \in Meshes /\ Len(s.oriented_edges_per_facet) = s.nb_of_static_facets
    BY GivenParts DEF Given, Static
  <2>2. s.oriented_edges_per_facet \in Seq(Seq(OrientedEdges))
    BY <2>1, MeshParts
  <2>3. s.oriented_edges_per_facet[f] \in Seq(OrientedEdges)
    BY <2>1, <2>2, ElementOfSeq
  <2>4. Len(s.oriented_edges_per_facet[f]) = 3
    BY FacetCorners
  <2>5. DOMAIN s.oriented_edges_per_facet[f] = 1 .. 3
    BY <2>3, <2>4, LenProperties
  <2>6. QED BY <1>2, <1>8, <2>5 DEF ToSet
<1>10. QED BY <1>2, <1>7, <1>9 DEF Touching

\* What becomes of a facet: it is listed as it is,
KeptWhole(cut, f, r, side) ==
  /\ r.mesh = cut.mesh
  /\ r.surface_edges \subseteq cut.surface_edges \cup (1 .. cut.mesh.nb_of_static_edges)
  /\ IF side = "emerged"
     THEN r.emerged = Append(cut.emerged, f) /\ r.immersed = cut.immersed
     ELSE r.immersed = Append(cut.immersed, f) /\ r.emerged = cut.emerged

\* or two facets made of the edges of its parts, with a closing edge, are listed.
Replaced(cut, r, sides) ==
  \E from, to, c, d, o, p, e :
    /\ from = first_vertex_of_oriented_edge(cut.mesh, sides.immersed[sides.first_immersed + 1])
    /\ to = first_vertex_of_oriented_edge(cut.mesh, sides.emerged[sides.first_emerged + 1])
    /\ Grown(cut.mesh, c) /\ EdgesExist(c) /\ Runs(c, o, from, to)
    /\ Grown(cut.mesh, d) /\ EdgesExist(d) /\ Runs(d, p, to, from)
    /\ r.mesh.facets[Len(cut.mesh.facets) + 1]
         = NewFacet(c, InsertAt(sides.emerged, sides.first_emerged + 1, o))
    /\ r.mesh.facets[Len(cut.mesh.facets) + 2]
         = NewFacet(d, InsertAt(sides.immersed, sides.first_immersed + 1, p))
    /\ Len(r.mesh.facets) = Len(cut.mesh.facets) + 2
    /\ r.emerged = Append(cut.emerged, Len(cut.mesh.facets) + 1)
    /\ r.immersed = Append(cut.immersed, Len(cut.mesh.facets) + 2)
    /\ from # to => /\ e \in r.surface_edges /\ r.mesh.edges[e][1] = from
                    /\ r.mesh.edges[e][2] = to
    /\ r.surface_edges \subseteq cut.surface_edges \cup (1 .. cut.mesh.nb_of_static_edges)
                                  \cup IF from = to THEN {} ELSE {e}

\* The edges of a facet on each side of the surface.
Parts(cut, f) == EdgesOnEachSide(cut, cut.mesh.oriented_edges_per_facet[f])

Dealt(s, cut, f, r) ==
  /\ KeepsSplits(cut, r) /\ cut.surface_edges \subseteq r.surface_edges
  /\ TouchingKnown(s, cut, f, r)
  /\ \/ /\ KeptWhole(cut, f, r, "immersed")
        /\ \A i \in 1 .. 3 : OnSide(cut, "immersed", s.facets[f][i])
     \/ /\ KeptWhole(cut, f, r, "emerged")
        /\ \A i \in 1 .. 3 : OnSide(cut, "emerged", s.facets[f][i])
        /\ \E i \in 1 .. 3 : cut.immersions[s.facets[f][i]] < 0
     \/ /\ ~(Len(Parts(cut, f).emerged) <= 1) /\ ~(Len(Parts(cut, f).immersed) <= 1)
        /\ Replaced(cut, r, Parts(cut, f))

\* A facet with an edge that may touch or cross the surface.
LEMMA SplitFacet ==
  ASSUME NEW s, NEW z, Given(s, z), NEW cut, Classified(s, z, cut),
         NEW f \in 1 .. s.nb_of_static_facets
  PROVE  LET r == split_partially_immersed_facet_and_classify(cut, f)
         IN Classified(s, z, r) /\ Dealt(s, cut, f, r)
<1> DEFINE edges == cut.mesh.oriented_edges_per_facet[f]
           sides == EdgesOnEachSide(cut, edges)
           touching == {o.edge : o \in {p \in ToSet(edges) :
             both_ends_just_touch_free_surface(cut.edges_immersion_status[p.edge])}}
           S == cut.surface_edges \cup touching
           from == first_vertex_of_oriented_edge(
                     cut.mesh, sides.immersed[sides.first_immersed + 1])
           to == first_vertex_of_oriented_edge(
                   cut.mesh, sides.emerged[sides.first_emerged + 1])
           closed == add_edge(cut.mesh, from, to)
           closing_edge == Len(closed.edges)
           both == CloseBoth(sides, closing_edge)
           mesh1 == create_facet_from_edges(closed, both.emerged)
           mesh2 == create_facet_from_edges(mesh1, both.immersed)
           parts == [cut EXCEPT !.surface_edges = IF from = to THEN S ELSE S \cup {closing_edge},
                       !.mesh = mesh2,
                       !.emerged = Append(cut.emerged, Len(mesh1.facets)),
                       !.immersed = Append(cut.immersed, Len(mesh2.facets))]
           result == split_partially_immersed_facet_and_classify(cut, f)
<1>1. /\ Len(sides.emerged) <= 1
           => result = [cut EXCEPT !.surface_edges = S, !.immersed = Append(cut.immersed, f)]
      /\ ~(Len(sides.emerged) <= 1) /\ Len(sides.immersed) <= 1
           => result = [cut EXCEPT !.surface_edges = S, !.emerged = Append(cut.emerged, f)]
      /\ ~(Len(sides.emerged) <= 1) /\ ~(Len(sides.immersed) <= 1) => result = parts
  BY ZenonT(60) DEF split_partially_immersed_facet_and_classify
<1>2. Parted(cut, sides, s.facets[f][1], s.facets[f][2], s.facets[f][3])
  BY FacetOfTheHullIsParted
<1>20. Parts(cut, f) = sides /\ touching = Touching(cut, f)
  BY DEF Parts, Touching
<1>21. Len(sides.emerged) <= 1
         \/ IF Len(sides.immersed) <= 1
            THEN \E i \in 1 .. 3 : cut.immersions[s.facets[f][i]] < 0
            ELSE TRUE
  <2>1. Cleaved(cut, sides, s.facets[f][1], s.facets[f][2], s.facets[f][3], Pieces(s, cut, f))
    BY FacetOfTheHullIsParted
  <2> HIDE DEF sides
  <2>2. 1 \in 1 .. 3 /\ 2 \in 1 .. 3 /\ 3 \in 1 .. 3
    OBVIOUS
  <2>3. QED BY <2>1, <2>2 DEF Cleaved
<1>3. /\ cut \in Cuts /\ cut.mesh \in Meshes /\ EdgesExist(cut.mesh)
      /\ FacetsExistIn(cut.mesh) /\ Grown(s, cut.mesh) /\ Grown(cut.mesh, cut.mesh)
      /\ AllOnSide(cut, "emerged", cut.emerged)
      /\ AllOnSide(cut, "immersed", cut.immersed)
      /\ Len(cut.mesh.edges) \in Nat /\ Len(cut.mesh.facets) \in Nat
  BY ClassifiedParts
<1>4. /\ touching \subseteq 1 .. Len(cut.mesh.edges)
      /\ touching \subseteq 1 .. cut.mesh.nb_of_static_edges
  <2>1. edges = s.oriented_edges_per_facet[f]
    BY <1>3 DEF Grown
  <2>2. ASSUME NEW p \in ToSet(edges)
        PROVE  /\ p.edge \in 1 .. Len(cut.mesh.edges)
               /\ p.edge \in 1 .. cut.mesh.nb_of_static_edges
    <3>1. PICK i \in DOMAIN edges : p = edges[i]
      BY DEF ToSet
    <3>2. edges \in Seq(OrientedEdges) /\ Len(edges) = 3
      <4>1. s \in Meshes /\ Len(s.oriented_edges_per_facet) = s.nb_of_static_facets
        BY GivenParts DEF Given, Static
      <4>2. s.oriented_edges_per_facet \in Seq(Seq(OrientedEdges))
        BY <4>1, MeshParts
      <4>3. s.oriented_edges_per_facet[f] \in Seq(OrientedEdges)
        BY <4>1, <4>2, ElementOfSeq
      <4>4. Len(s.oriented_edges_per_facet[f]) = 3
        BY FacetCorners
      <4>5. QED BY <2>1, <4>3, <4>4
    <3>3. i \in 1 .. 3
      <4> HIDE DEF edges
      <4>1. DOMAIN edges = 1 .. Len(edges)
        BY <3>2, LenProperties
      <4>2. QED BY <3>2, <4>1
    <3>4. s.oriented_edges_per_facet[f][i] \in Along(1 .. s.nb_of_static_edges)
      BY <3>3, FacetCorners
    <3>5. p.edge \in 1 .. s.nb_of_static_edges
      BY <2>1, <3>1, <3>4 DEF Along
    <3>6. /\ s.nb_of_static_edges \in Nat /\ Len(s.edges) = s.nb_of_static_edges
          /\ Len(s.edges) <= Len(cut.mesh.edges)
          /\ cut.mesh.nb_of_static_edges = s.nb_of_static_edges
      BY <1>3, GivenParts DEF Grown
    <3>7. QED BY <1>3, <3>5, <3>6
  <2> HIDE DEF edges
  <2>3. QED BY <2>2
<1>5. \A i \in 1 .. 3 : i = 1 \/ i = 2 \/ i = 3
  OBVIOUS
<1> HIDE DEF edges, touching, sides
<1>6. CASE Len(sides.emerged) <= 1
  <2>1. \A i \in 1 .. 3 : OnSide(cut, "immersed", s.facets[f][i])
    BY <1>2, <1>5, <1>6 DEF Parted
  <2>2. FacetOnSide(cut, "immersed", f)
    BY <2>1, WholeFacet
  <2>3. Classified(s, z, [cut EXCEPT !.surface_edges = cut.surface_edges \cup touching,
                                     !.immersed = Append(cut.immersed, f)])
    BY <1>4, <2>2, ListFacet
  <2> DEFINE T == cut.surface_edges \cup touching
             L == Append(cut.immersed, f)
             r == [cut EXCEPT !.surface_edges = T, !.immersed = L]
  <2>4. result = r /\ Classified(s, z, r)
    BY <1>1, <1>6, <2>3
  <2> HIDE DEF T, L
  <2>5. /\ r.mesh = cut.mesh /\ r.immersions = cut.immersions
        /\ r.edges_immersion_status = cut.edges_immersion_status
        /\ r.split_edges = cut.split_edges /\ r.surface_edges = T
        /\ r.immersed = L /\ r.emerged = cut.emerged
    BY <1>3 DEF Cuts
  <2> HIDE DEF r, result
  <2>6. KeepsSplits(cut, r)
    <3>1. r \in Cuts
      BY <2>4 DEF Classified
    <3>2. QED BY <1>3, <2>5, <3>1 DEF KeepsSplits
  <2>7. TouchingKnown(s, cut, f, r) /\ cut.surface_edges \subseteq r.surface_edges
    <3>1. Touching(cut, f) \subseteq r.surface_edges /\ cut.surface_edges \subseteq r.surface_edges
      BY <1>20, <2>5 DEF T
    <3>2. QED BY <3>1, TouchingIs
  <2>8. KeptWhole(cut, f, r, "immersed")
    BY <1>4, <2>5 DEF KeptWhole, L, T
  <2>9. QED BY <2>1, <2>4, <2>6, <2>7, <2>8 DEF Dealt, result
<1>7. CASE ~(Len(sides.emerged) <= 1) /\ Len(sides.immersed) <= 1
  <2>1. \A i \in 1 .. 3 : OnSide(cut, "emerged", s.facets[f][i])
    BY <1>2, <1>5, <1>7 DEF Parted
  <2>2. FacetOnSide(cut, "emerged", f)
    BY <2>1, WholeFacet
  <2>3. Classified(s, z, [cut EXCEPT !.surface_edges = cut.surface_edges \cup touching,
                                     !.emerged = Append(cut.emerged, f)])
    BY <1>4, <2>2, ListFacet
  <2> DEFINE T == cut.surface_edges \cup touching
             L == Append(cut.emerged, f)
             r == [cut EXCEPT !.surface_edges = T, !.emerged = L]
  <2>4. result = r /\ Classified(s, z, r)
    BY <1>1, <1>7, <2>3
  <2> HIDE DEF T, L
  <2>5. /\ r.mesh = cut.mesh /\ r.immersions = cut.immersions
        /\ r.edges_immersion_status = cut.edges_immersion_status
        /\ r.split_edges = cut.split_edges /\ r.surface_edges = T
        /\ r.emerged = L /\ r.immersed = cut.immersed
    BY <1>3 DEF Cuts
  <2> HIDE DEF r, result
  <2>6. KeepsSplits(cut, r)
    <3>1. r \in Cuts
      BY <2>4 DEF Classified
    <3>2. QED BY <1>3, <2>5, <3>1 DEF KeepsSplits
  <2>7. TouchingKnown(s, cut, f, r) /\ cut.surface_edges \subseteq r.surface_edges
    <3>1. Touching(cut, f) \subseteq r.surface_edges /\ cut.surface_edges \subseteq r.surface_edges
      BY <1>20, <2>5 DEF T
    <3>2. QED BY <3>1, TouchingIs
  <2>8. KeptWhole(cut, f, r, "emerged")
    BY <1>4, <2>5 DEF KeptWhole, L, T
  <2>9. QED BY <1>7, <1>21, <2>1, <2>4, <2>6, <2>7, <2>8 DEF Dealt, result
<1>8. CASE ~(Len(sides.emerged) <= 1) /\ ~(Len(sides.immersed) <= 1)
  <2> DEFINE forwards == OrientedEdge(closing_edge, FALSE)
             backwards == OrientedEdge(closing_edge, TRUE)
             kE == sides.first_emerged
             kI == sides.first_immersed
             E == InsertAt(sides.emerged, kE + 1, forwards)
             I == InsertAt(sides.immersed, kI + 1, backwards)
  <2>1. /\ SideCloses(cut, sides.emerged, kE, "emerged")
        /\ SideCloses(cut, sides.immersed, kI, "immersed")
    BY <1>2, <1>8 DEF Parted
  <2>2. both.emerged = E /\ both.immersed = I
    BY DEF CloseBoth
  <2>3. from \in 1 .. cut.mesh.total_number_of_nodes /\ to \in 1 .. cut.mesh.total_number_of_nodes
    <3>1. ASSUME NEW L, NEW k, NEW side, SideCloses(cut, L, k, side)
          PROVE  first_vertex_of_oriented_edge(cut.mesh, L[k + 1])
                   \in 1 .. cut.mesh.total_number_of_nodes
      <4>1. L \in Seq(Along(1 .. Len(cut.mesh.edges))) /\ k \in 0 .. Len(L) - 1
        BY <3>1 DEF SideCloses
      <4>2. Len(L) \in Nat
        BY <4>1, LenProperties
      <4>3. k + 1 \in 1 .. Len(L)
        BY <4>1, <4>2
      <4>4. L[k + 1] \in Along(1 .. Len(cut.mesh.edges))
        BY <4>1, <4>3, ElementOfSeq
      <4>5. QED BY <1>3, <4>4, EndsOfOriented
    <3>2. QED BY <2>1, <3>1
  <2> HIDE DEF from, to, kE, kI
  <2>4. /\ Grown(cut.mesh, closed) /\ EdgesExist(closed) /\ closed.facets = cut.mesh.facets
        /\ closed.total_number_of_nodes = cut.mesh.total_number_of_nodes
        /\ Len(closed.edges) = Len(cut.mesh.edges) + 1
        /\ closed.edges[Len(cut.mesh.edges) + 1][1] = from
        /\ closed.edges[Len(cut.mesh.edges) + 1][2] = to
    <3> DEFINE m == cut.mesh
               r == add_edge(m, from, to)
    <3>1. /\ m \in Meshes /\ EdgesExist(m)
          /\ from \in 1 .. m.total_number_of_nodes /\ to \in 1 .. m.total_number_of_nodes
      BY <1>3, <2>3
    <3>2. r = closed
      OBVIOUS
    <3> HIDE DEF m, closed
    <3>3. /\ Grown(m, r) /\ EdgesExist(r) /\ r.facets = m.facets
          /\ r.total_number_of_nodes = m.total_number_of_nodes
          /\ Len(r.edges) = Len(m.edges) + 1
          /\ r.edges[Len(m.edges) + 1][1] = from /\ r.edges[Len(m.edges) + 1][2] = to
      BY <3>1, AddEdgeGrows
    <3> HIDE DEF r
    <3>4. QED BY <3>2, <3>3 DEF m
  <2> HIDE DEF closed
  <2>5. closed \in Meshes /\ FacetsExistIn(closed) /\ closing_edge \in 1 .. Len(closed.edges)
        /\ closing_edge \in 1 .. Len(cut.mesh.edges) + 1
        /\ closed.edges[closing_edge][1] = from /\ closed.edges[closing_edge][2] = to
    BY <1>3, <2>4 DEF Grown, FacetsExistIn
  <2> HIDE DEF closing_edge
  <2>6. /\ forwards \in Along(1 .. Len(closed.edges)) /\ backwards \in Along(1 .. Len(closed.edges))
        /\ second_vertex_of_oriented_edge(closed, forwards) = to
        /\ second_vertex_of_oriented_edge(closed, backwards) = from
        /\ first_vertex_of_oriented_edge(closed, forwards) = from
        /\ first_vertex_of_oriented_edge(closed, backwards) = to
    BY <2>5 DEF Along, OrientedEdge, second_vertex_of_oriented_edge,
                first_vertex_of_oriented_edge
  <2> HIDE DEF forwards, backwards
  <2>7. /\ E \in Seq(Along(1 .. Len(closed.edges)))
        /\ \A i \in 1 .. Len(NewFacet(closed, E)) : OnSide(cut, "emerged", NewFacet(closed, E)[i])
    <3>1. second_vertex_of_oriented_edge(closed, forwards)
            = first_vertex_of_oriented_edge(cut.mesh, sides.emerged[kE + 1])
      BY <2>6 DEF to, kE
    <3>2. QED BY <1>3, <2>1, <2>4, <2>6, <3>1, CloseSide
  <2> HIDE DEF E
  <2>8. /\ Grown(closed, mesh1) /\ EdgesExist(mesh1) /\ FacetsExistIn(mesh1)
        /\ mesh1.edges = closed.edges
        /\ mesh1.total_number_of_nodes = closed.total_number_of_nodes
        /\ Len(mesh1.facets) = Len(closed.facets) + 1
        /\ mesh1.facets[Len(closed.facets) + 1] = NewFacet(closed, E)
    BY <2>2, <2>4, <2>5, <2>7, CreateFacetGrows
  <2> HIDE DEF mesh1
  <2>9. mesh1 \in Meshes /\ Grown(cut.mesh, mesh1)
    <3>1. mesh1 \in Meshes
      BY <2>8 DEF Grown
    <3>2. QED BY <1>3, <2>4, <2>8, <3>1, GrownTransitive
  <2>10. /\ I \in Seq(Along(1 .. Len(mesh1.edges)))
         /\ \A i \in 1 .. Len(NewFacet(mesh1, I)) : OnSide(cut, "immersed", NewFacet(mesh1, I)[i])
    <3>1. second_vertex_of_oriented_edge(mesh1, backwards)
            = first_vertex_of_oriented_edge(cut.mesh, sides.immersed[kI + 1])
      <4>1. second_vertex_of_oriented_edge(mesh1, backwards)
              = second_vertex_of_oriented_edge(closed, backwards)
        BY <2>8 DEF second_vertex_of_oriented_edge
      <4>2. QED BY <2>6, <4>1 DEF from, kI
    <3>2. backwards \in Along(1 .. Len(mesh1.edges))
      BY <2>6, <2>8
    <3>3. QED BY <1>3, <2>1, <2>8, <2>9, <3>1, <3>2, CloseSide
  <2> HIDE DEF I
  <2>11. /\ Grown(mesh1, mesh2) /\ EdgesExist(mesh2) /\ FacetsExistIn(mesh2)
         /\ mesh2.edges = mesh1.edges
         /\ mesh2.total_number_of_nodes = mesh1.total_number_of_nodes
         /\ Len(mesh2.facets) = Len(mesh1.facets) + 1
         /\ mesh2.facets[Len(mesh1.facets) + 1] = NewFacet(mesh1, I)
    BY <2>2, <2>8, <2>9, <2>10, CreateFacetGrows
  <2> HIDE DEF mesh2
  <2>12. mesh2 \in Meshes /\ Grown(cut.mesh, mesh2)
    <3>1. mesh2 \in Meshes
      BY <2>11 DEF Grown
    <3>2. QED BY <1>3, <2>9, <2>11, <3>1, GrownTransitive
  <2> DEFINE surface == IF from = to THEN S ELSE S \cup {closing_edge}
             nE == Len(mesh1.facets)
             nI == Len(mesh2.facets)
             LE == Append(cut.emerged, nE)
             LI == Append(cut.immersed, nI)
  <2>13. surface \subseteq 1 .. Len(mesh2.edges) /\ surface \in SUBSET Nat
    <3>1. Len(mesh2.edges) = Len(cut.mesh.edges) + 1
      BY <2>4, <2>8, <2>11
    <3>2. cut.surface_edges \subseteq 1 .. Len(cut.mesh.edges)
      BY DEF Classified
    <3>3. /\ 1 .. Len(cut.mesh.edges) \subseteq 1 .. Len(cut.mesh.edges) + 1
          /\ 1 .. Len(cut.mesh.edges) + 1 \subseteq Nat
      BY <1>3
    <3>4. surface \subseteq 1 .. Len(cut.mesh.edges) + 1
      BY <1>4, <2>5, <3>2, <3>3
    <3> HIDE DEF surface
    <3>5. QED BY <3>1, <3>3, <3>4
  <2>14. nE \in Nat /\ nI \in Nat /\ nE = Len(cut.mesh.facets) + 1 /\ nI = nE + 1
    BY <1>3, <2>4, <2>8, <2>11
  <2>15. /\ cut.emerged \in Seq(Nat) /\ cut.immersed \in Seq(Nat)
         /\ LE \in Seq(Nat) /\ LI \in Seq(Nat)
    BY <1>3, <2>14, AppendProperties DEF AllOnSide
  <2> HIDE DEF surface, nE, nI, LE, LI
  <2> DEFINE r == [cut EXCEPT !.surface_edges = surface, !.mesh = mesh2,
                              !.emerged = LE, !.immersed = LI]
  <2>16. /\ r \in Cuts /\ r.mesh = mesh2 /\ r.immersions = cut.immersions
         /\ r.edges_immersion_status = cut.edges_immersion_status
         /\ r.split_edges = cut.split_edges
         /\ r.facet_crosses_free_surface = cut.facet_crosses_free_surface
         /\ r.surface_edges = surface /\ r.emerged = LE /\ r.immersed = LI
    BY <1>3, <2>12, <2>13, <2>15 DEF Cuts
  <2>17. result = r
    BY <1>1, <1>8 DEF r, surface, LE, LI, nE, nI
  <2> HIDE DEF r
  <2>18. \A side, n : OnSide(cut, side, n) => OnSide(r, side, n)
    BY <2>16 DEF OnSide
  <2>19. FacetOnSide(r, "emerged", nE)
    <3>1. nE \in 1 .. Len(mesh1.facets) /\ nE \in 1 .. Len(mesh2.facets)
      BY <1>3, <2>11, <2>14 DEF nE
    <3>2. mesh2.facets[nE] = NewFacet(closed, E)
      BY <2>4, <2>8, <2>11, <2>14, <3>1 DEF Grown
    <3>3. QED BY <2>7, <2>16, <2>18, <3>1, <3>2 DEF FacetOnSide
  <2>20. FacetOnSide(r, "immersed", nI)
    <3>1. nI \in 1 .. Len(mesh2.facets)
      BY <2>14 DEF nI
    <3>2. mesh2.facets[nI] = NewFacet(mesh1, I)
      BY <2>11, <2>14 DEF nE, nI
    <3>3. QED BY <2>10, <2>16, <2>18, <3>1, <3>2 DEF FacetOnSide
  <2>21. AllOnSide(r, "emerged", LE) /\ AllOnSide(r, "immersed", LI)
    <3>1. AllOnSide(r, "emerged", cut.emerged) /\ AllOnSide(r, "immersed", cut.immersed)
      BY <1>3, <2>12, <2>16, FacetsStay
    <3>2. QED BY <2>14, <2>19, <2>20, <3>1, OneMoreFacet DEF LE, LI
  <2>22. r.mesh.total_number_of_nodes = cut.mesh.total_number_of_nodes
    BY <2>4, <2>8, <2>11, <2>16
  <2>23. /\ Grown(cut.mesh, r.mesh) /\ EdgesExist(r.mesh) /\ FacetsExistIn(r.mesh)
         /\ r.surface_edges \subseteq 1 .. Len(r.mesh.edges)
         /\ AllOnSide(r, "emerged", r.emerged) /\ AllOnSide(r, "immersed", r.immersed)
    BY <2>11, <2>12, <2>13, <2>16, <2>21
  <2>24. Classified(s, z, r)
    BY <2>16, <2>22, <2>23, ClassifiedStays
  <2>25. KeepsSplits(cut, r)
    <3>1. r \in Cuts
      BY <2>16
    <3>2. QED BY <1>3, <2>16, <2>23, <3>1 DEF KeepsSplits
  <2>26. TouchingKnown(s, cut, f, r) /\ cut.surface_edges \subseteq r.surface_edges
    <3>1. Touching(cut, f) \subseteq r.surface_edges /\ cut.surface_edges \subseteq r.surface_edges
      BY <1>20, <2>16 DEF surface, S
    <3>2. QED BY <3>1, TouchingIs
  <2>27. Runs(closed, forwards, from, to) /\ Runs(mesh1, backwards, to, from)
    BY <2>6, <2>8 DEF Runs, first_vertex_of_oriented_edge, second_vertex_of_oriented_edge
  <2>28. /\ r.mesh.facets[Len(cut.mesh.facets) + 1] = NewFacet(closed, E)
         /\ r.mesh.facets[Len(cut.mesh.facets) + 2] = NewFacet(mesh1, I)
         /\ Len(r.mesh.facets) = Len(cut.mesh.facets) + 2
    <3>1. nE \in 1 .. Len(mesh1.facets)
      BY <1>3, <2>14 DEF nE
    <3>2. mesh2.facets[nE] = NewFacet(closed, E)
      BY <2>4, <2>8, <2>11, <2>14, <3>1 DEF Grown
    <3>3. mesh2.facets[nI] = NewFacet(mesh1, I) /\ nI = Len(mesh2.facets)
      BY <2>11, <2>14 DEF nE, nI
    <3>4. nI = Len(cut.mesh.facets) + 2
      BY <1>3, <2>14
    <3>5. QED BY <2>14, <2>16, <3>2, <3>3, <3>4
  <2>29. /\ r.emerged = Append(cut.emerged, Len(cut.mesh.facets) + 1)
         /\ r.immersed = Append(cut.immersed, Len(cut.mesh.facets) + 2)
    <3>1. nI = Len(cut.mesh.facets) + 2
      BY <1>3, <2>14
    <3>2. QED BY <2>14, <2>16, <3>1 DEF LE, LI
  <2>30. from # to => /\ closing_edge \in r.surface_edges
                      /\ r.mesh.edges[closing_edge][1] = from
                      /\ r.mesh.edges[closing_edge][2] = to
    BY <2>5, <2>8, <2>11, <2>16 DEF surface
  <2>36. r.surface_edges \subseteq cut.surface_edges \cup (1 .. cut.mesh.nb_of_static_edges)
                                    \cup IF from = to THEN {} ELSE {closing_edge}
    <3> HIDE DEF from, to, closing_edge
    <3>1. QED BY <1>4, <2>16 DEF surface, S
  <2>31. /\ from = first_vertex_of_oriented_edge(cut.mesh, sides.immersed[sides.first_immersed + 1])
         /\ to = first_vertex_of_oriented_edge(cut.mesh, sides.emerged[sides.first_emerged + 1])
    BY DEF from, to
  <2>32. /\ E = InsertAt(sides.emerged, sides.first_emerged + 1, forwards)
         /\ I = InsertAt(sides.immersed, sides.first_immersed + 1, backwards)
    BY DEF E, I, kE, kI
  <2>33. Replaced(cut, r, sides)
    <3>1. /\ Grown(cut.mesh, closed) /\ EdgesExist(closed)
          /\ Grown(cut.mesh, mesh1) /\ EdgesExist(mesh1)
      BY <2>4, <2>8, <2>9
    <3> HIDE DEF r, E, I, closed, mesh1, from, to, closing_edge, forwards, backwards
    <3>2. QED BY <2>27, <2>28, <2>29, <2>30, <2>31, <2>32, <2>36, <3>1 DEF Replaced
  <2>34. Dealt(s, cut, f, r)
    BY <1>8, <1>20, <2>25, <2>26, <2>33 DEF Dealt
  <2> HIDE DEF result
  <2>35. QED BY <2>17, <2>24, <2>34 DEF result
<1>9. QED BY <1>6, <1>7, <1>8

\* A facet none of whose edges touches or crosses the surface.
LEMMA ClassifyFacet ==
  ASSUME NEW s, NEW z, Given(s, z), NEW cut, Classified(s, z, cut),
         NEW f \in 1 .. s.nb_of_static_facets, f \notin Flagged(s, z)
  PROVE  LET r == classify_facet(cut, f)
         IN Classified(s, z, r) /\ Dealt(s, cut, f, r)
<1> DEFINE v == s.facets[f]
           o == s.oriented_edges_per_facet[f]
           edge == o[1].edge
<1>1. ASSUME NEW i \in 1 .. 3
      PROVE  /\ z[v[i]] \in Int /\ z[v[(i % 3) + 1]] \in Int
             /\ \/ z[v[i]] < 0 /\ z[v[(i % 3) + 1]] < 0
                \/ z[v[i]] > 0 /\ z[v[(i % 3) + 1]] > 0
             /\ o[i].edge \in 1 .. s.nb_of_static_edges
             /\ is_emerged(StaticStatus(s, z, o[i].edge))
                  <=> z[v[i]] <= 0 /\ z[v[(i % 3) + 1]] <= 0
                      /\ (z[v[i]] < 0 \/ z[v[(i % 3) + 1]] < 0)
  <2> DEFINE a == first_vertex_of_oriented_edge(s, o[i])
             b == second_vertex_of_oriented_edge(s, o[i])
             status == StaticStatus(s, z, o[i].edge)
  <2>1. /\ o[i] \in Along(1 .. s.nb_of_static_edges)
        /\ f \in ToSet(s.facets_per_edge[o[i].edge])
        /\ a = v[i] /\ b = v[(i % 3) + 1]
    BY FacetCorners
  <2>2. o[i].edge \in 1 .. s.nb_of_static_edges
    BY <2>1 DEF Along
  <2>3. /\ z[a] \in Int /\ z[b] \in Int
        /\ is_emerged(status) <=> z[a] <= 0 /\ z[b] <= 0 /\ (z[a] < 0 \/ z[b] < 0)
        /\ flags_its_facets(status) \/ (z[a] < 0 /\ z[b] < 0) \/ (z[a] > 0 /\ z[b] > 0)
    BY <2>1, KindOfEdge
  <2>4. StaticStatuses(s, z)[o[i].edge] = status
    BY <2>2 DEF StaticStatuses
  <2>5. ~flags_its_facets(status)
    <3> HIDE DEF o, status
    <3>1. SUFFICES ASSUME flags_its_facets(status) PROVE FALSE
      OBVIOUS
    <3>2. o[i].edge \in {e \in 1 .. s.nb_of_static_edges : flags_its_facets(StaticStatuses(s, z)[e])}
      BY <2>2, <2>4, <3>1
    <3>3. QED BY <2>1, <3>2 DEF Flagged
  <2> HIDE DEF a, b, v, o
  <2>6. QED BY <2>1, <2>2, <2>3, <2>5 DEF status
<1>2. 1 % 3 = 1 /\ 2 % 3 = 2 /\ 3 % 3 = 0
  OBVIOUS
<1>3. \A i \in 1 .. 3 : i = 1 \/ i = 2 \/ i = 3
  OBVIOUS
<1>4. \A i \in 1 .. 3 : v[i] \in 1 .. s.nb_of_static_nodes
  BY FacetCorners
<1>5. /\ cut.mesh.oriented_edges_per_facet[f] = o
      /\ \A i \in 1 .. s.nb_of_static_nodes : cut.immersions[i] = z[i]
      /\ \A e \in 1 .. s.nb_of_static_edges :
           cut.edges_immersion_status[e] = StaticStatus(s, z, e)
  BY DEF Classified, Grown
<1>6. ASSUME NEW side, \A i \in 1 .. 3 : OnSide(cut, side, v[i])
      PROVE  FacetOnSide(cut, side, f)
  BY <1>6, WholeFacet
<1>7. cut.surface_edges \cup {} = cut.surface_edges /\ {} \subseteq 1 .. Len(cut.mesh.edges)
  OBVIOUS
<1>8. /\ is_emerged(cut.edges_immersion_status[edge])
           => classify_facet(cut, f) = [cut EXCEPT !.emerged = Append(cut.emerged, f)]
      /\ ~is_emerged(cut.edges_immersion_status[edge])
           => classify_facet(cut, f) = [cut EXCEPT !.immersed = Append(cut.immersed, f)]
  BY <1>5 DEF classify_facet
<1>9. cut.edges_immersion_status[edge] = StaticStatus(s, z, edge)
  <2>1. 1 \in 1 .. 3
    OBVIOUS
  <2>2. edge \in 1 .. s.nb_of_static_edges
    BY <1>1, <2>1
  <2> HIDE DEF edge
  <2>3. QED BY <1>5, <2>2
<1>10. /\ z[v[1]] \in Int /\ z[v[2]] \in Int /\ z[v[3]] \in Int
       /\ (z[v[1]] < 0 /\ z[v[2]] < 0) \/ (z[v[1]] > 0 /\ z[v[2]] > 0)
       /\ (z[v[2]] < 0 /\ z[v[3]] < 0) \/ (z[v[2]] > 0 /\ z[v[3]] > 0)
       /\ is_emerged(StaticStatus(s, z, edge))
            <=> z[v[1]] <= 0 /\ z[v[2]] <= 0 /\ (z[v[1]] < 0 \/ z[v[2]] < 0)
  <2>1. 1 \in 1 .. 3 /\ 2 \in 1 .. 3 /\ 1 + 1 = 2 /\ 2 + 1 = 3
    OBVIOUS
  <2> HIDE DEF v, o
  <2>2. QED BY <1>1, <1>2, <2>1
<1> HIDE DEF v, edge
<1>14. cut \in Cuts /\ Grown(cut.mesh, cut.mesh)
  BY ClassifiedParts
<1>15. \A i \in 1 .. 3 : cut.immersions[v[i]] # 0
  BY <1>3, <1>4, <1>5, <1>10
<1>16. ASSUME NEW r, cut.surface_edges \subseteq r.surface_edges
       PROVE  TouchingKnown(s, cut, f, r)
  BY <1>15 DEF TouchingKnown, v
<1>11. CASE is_emerged(StaticStatus(s, z, edge))
  <2>1. z[v[1]] <= 0 /\ z[v[2]] <= 0 /\ z[v[3]] <= 0
    BY <1>10, <1>11
  <2>2. \A i \in 1 .. 3 : OnSide(cut, "emerged", v[i])
    BY <1>3, <1>4, <1>5, <2>1 DEF OnSide
  <2>3. FacetOnSide(cut, "emerged", f)
    BY <1>6, <2>2
  <2>4. Classified(s, z, [cut EXCEPT !.surface_edges = cut.surface_edges \cup {},
                                     !.emerged = Append(cut.emerged, f)])
    BY <1>7, <2>3, ListFacet
  <2>5. [cut EXCEPT !.surface_edges = cut.surface_edges \cup {}, !.emerged = Append(cut.emerged, f)]
          = [cut EXCEPT !.emerged = Append(cut.emerged, f)]
    <3> DEFINE L == Append(cut.emerged, f)
    <3>1. cut \in Cuts
      BY DEF Classified
    <3> HIDE DEF L
    <3>2. [cut EXCEPT !.surface_edges = cut.surface_edges, !.emerged = L]
            = [cut EXCEPT !.emerged = L]
      BY <3>1 DEF Cuts
    <3>3. QED BY <1>7, <3>2 DEF L
  <2> DEFINE L == Append(cut.emerged, f)
             r == [cut EXCEPT !.emerged = L]
  <2>6. classify_facet(cut, f) = r /\ Classified(s, z, r)
    BY <1>8, <1>9, <1>11, <2>4, <2>5
  <2> HIDE DEF L
  <2>7. /\ r.mesh = cut.mesh /\ r.immersions = cut.immersions
        /\ r.edges_immersion_status = cut.edges_immersion_status
        /\ r.split_edges = cut.split_edges /\ r.surface_edges = cut.surface_edges
        /\ r.emerged = L /\ r.immersed = cut.immersed
    BY <1>14 DEF Cuts
  <2> HIDE DEF r
  <2>8. KeepsSplits(cut, r)
    <3>1. r \in Cuts
      BY <2>6 DEF Classified
    <3>2. QED BY <1>14, <2>7, <3>1 DEF KeepsSplits
  <2>9. TouchingKnown(s, cut, f, r) /\ cut.surface_edges \subseteq r.surface_edges
    BY <1>16, <2>7
  <2>10. KeptWhole(cut, f, r, "emerged")
    BY <2>7 DEF KeptWhole, L
  <2>11. 1 \in 1 .. 3 /\ cut.immersions[v[1]] < 0
    BY <1>4, <1>5, <1>10, <1>11
  <2>12. Dealt(s, cut, f, r)
    BY <2>2, <2>8, <2>9, <2>10, <2>11 DEF Dealt, v
  <2>13. QED BY <2>6, <2>12
<1>12. CASE ~is_emerged(StaticStatus(s, z, edge))
  <2>1. z[v[1]] >= 0 /\ z[v[2]] >= 0 /\ z[v[3]] >= 0
    BY <1>10, <1>12
  <2>2. \A i \in 1 .. 3 : OnSide(cut, "immersed", v[i])
    BY <1>3, <1>4, <1>5, <2>1 DEF OnSide
  <2>3. FacetOnSide(cut, "immersed", f)
    BY <1>6, <2>2
  <2>4. Classified(s, z, [cut EXCEPT !.surface_edges = cut.surface_edges \cup {},
                                     !.immersed = Append(cut.immersed, f)])
    BY <1>7, <2>3, ListFacet
  <2>5. [cut EXCEPT !.surface_edges = cut.surface_edges \cup {}, !.immersed = Append(cut.immersed, f)]
          = [cut EXCEPT !.immersed = Append(cut.immersed, f)]
    <3> DEFINE L == Append(cut.immersed, f)
    <3>1. cut \in Cuts
      BY DEF Classified
    <3> HIDE DEF L
    <3>2. [cut EXCEPT !.surface_edges = cut.surface_edges, !.immersed = L]
            = [cut EXCEPT !.immersed = L]
      BY <3>1 DEF Cuts
    <3>3. QED BY <1>7, <3>2 DEF L
  <2> DEFINE L == Append(cut.immersed, f)
             r == [cut EXCEPT !.immersed = L]
  <2>6. classify_facet(cut, f) = r /\ Classified(s, z, r)
    BY <1>8, <1>9, <1>12, <2>4, <2>5
  <2> HIDE DEF L
  <2>7. /\ r.mesh = cut.mesh /\ r.immersions = cut.immersions
        /\ r.edges_immersion_status = cut.edges_immersion_status
        /\ r.split_edges = cut.split_edges /\ r.surface_edges = cut.surface_edges
        /\ r.immersed = L /\ r.emerged = cut.emerged
    BY <1>14 DEF Cuts
  <2> HIDE DEF r
  <2>8. KeepsSplits(cut, r)
    <3>1. r \in Cuts
      BY <2>6 DEF Classified
    <3>2. QED BY <1>14, <2>7, <3>1 DEF KeepsSplits
  <2>9. TouchingKnown(s, cut, f, r) /\ cut.surface_edges \subseteq r.surface_edges
    BY <1>16, <2>7
  <2>10. KeptWhole(cut, f, r, "immersed")
    BY <2>7 DEF KeptWhole, L
  <2>11. Dealt(s, cut, f, r)
    BY <2>2, <2>8, <2>9, <2>10 DEF Dealt, v
  <2>12. QED BY <2>6, <2>11
<1>13. QED BY <1>11, <1>12

NextFacet(cut, f, x) ==
  IF f \in cut.facet_crosses_free_surface
  THEN split_partially_immersed_facet_and_classify(x, f) ELSE classify_facet(x, f)

\* The cuts after each facet.
IsAfterFacetSteps(f, n, cut) ==
  f = [k \in 0 .. n |-> IF k = 0 THEN cut ELSE NextFacet(cut, k, f[k - 1])]

\* The recursive function of classify_or_split exists.
LEMMA FacetStepsExist ==
  ASSUME NEW cut, NEW n \in Nat
  PROVE  \E f : IsAfterFacetSteps(f, n, cut)
<1> DEFINE T == {m \in 0 .. n : ~ \E f : IsAfterFacetSteps(f, m, cut)}
<1>1. SUFFICES ASSUME T # {} PROVE FALSE
  OBVIOUS
<1>2. PICK m \in T : \A y \in T : m <= y
  <2>1. T \in SUBSET Nat
    OBVIOUS
  <2>2. QED BY <1>1, <2>1, LeastNat
<1>3. CASE m = 0
  <2> DEFINE f == [k \in 0 .. 0 |-> cut]
  <2>1. f = [k \in 0 .. 0 |-> IF k = 0 THEN cut ELSE NextFacet(cut, k, f[k - 1])]
    OBVIOUS
  <2> HIDE DEF f
  <2>2. IsAfterFacetSteps(f, 0, cut)
    BY <2>1 DEF IsAfterFacetSteps
  <2>3. QED BY <1>3, <2>2
<1>4. CASE m # 0
  <2>1. m \in 1 .. n /\ m - 1 \in 0 .. n /\ ~(m <= m - 1)
    BY <1>4
  <2>2. m - 1 \notin T
    BY <1>2, <2>1
  <2>3. PICK g : IsAfterFacetSteps(g, m - 1, cut)
    BY <2>1, <2>2
  <2> DEFINE last == NextFacet(cut, m, g[m - 1])
             f == [k \in 0 .. m |-> IF k = m THEN last ELSE g[k]]
             h == [k \in 0 .. m |-> IF k = 0 THEN cut
                                    ELSE NextFacet(cut, k, f[k - 1])]
  <2>4. ASSUME NEW k \in 0 .. m PROVE f[k] = h[k]
    <3>1. CASE k = m
      <4>1. f[m] = last /\ f[m - 1] = g[m - 1]
        BY <2>1
      <4>2. h[m] = NextFacet(cut, m, f[m - 1])
        BY <2>1
      <4> HIDE DEF f, h
      <4>3. QED BY <3>1, <4>1, <4>2
    <3>2. CASE k # m
      <4>1. k \in 0 .. m - 1 /\ f[k] = g[k]
        BY <2>1, <3>2
      <4>2. g[k] = IF k = 0 THEN cut ELSE NextFacet(cut, k, g[k - 1])
        BY <2>3, <4>1 DEF IsAfterFacetSteps
      <4>3. k # 0 => f[k - 1] = g[k - 1]
        BY <2>1, <3>2
      <4>4. h[k] = IF k = 0 THEN cut ELSE NextFacet(cut, k, f[k - 1])
        OBVIOUS
      <4> HIDE DEF f, h, last
      <4>5. QED BY <4>1, <4>2, <4>3, <4>4
    <3>3. QED BY <3>1, <3>2
  <2>5. f = h
    <3>1. f = [k \in 0 .. m |-> f[k]] /\ h = [k \in 0 .. m |-> h[k]]
      OBVIOUS
    <3> HIDE DEF f, h
    <3>2. QED BY <2>4, <3>1
  <2> HIDE DEF f
  <2>6. IsAfterFacetSteps(f, m, cut)
    BY <2>5 DEF IsAfterFacetSteps
  <2>7. QED BY <2>6
<1>5. QED BY <1>3, <1>4

AfterFacets(cut) == CHOOSE f : IsAfterFacetSteps(f, cut.mesh.nb_of_static_facets, cut)

\* classify_or_split goes through the facets one after the other.
LEMMA FacetStepsAre ==
  ASSUME NEW cut, cut.mesh.nb_of_static_facets \in Nat
  PROVE  LET n == cut.mesh.nb_of_static_facets
         IN /\ classify_or_split(cut) = AfterFacets(cut)[n]
            /\ AfterFacets(cut)[0] = cut
            /\ \A k \in 1 .. n :
                 AfterFacets(cut)[k] = NextFacet(cut, k, AfterFacets(cut)[k - 1])
<1> DEFINE n == cut.mesh.nb_of_static_facets
           a == AfterFacets(cut)
<1>1. n \in Nat
  OBVIOUS
<1>2. IsAfterFacetSteps(a, n, cut)
  <2>1. \E f : IsAfterFacetSteps(f, n, cut)
    BY <1>1, FacetStepsExist
  <2>2. QED BY <2>1, Zenon DEF AfterFacets
<1>3. classify_or_split(cut) = a[n]
  BY DEF classify_or_split, AfterFacets, IsAfterFacetSteps, NextFacet
<1> HIDE DEF n, a
<1>4. \A k \in 0 .. n : a[k] = IF k = 0 THEN cut ELSE NextFacet(cut, k, a[k - 1])
  BY <1>2 DEF IsAfterFacetSteps
<1>5. a[0] = cut /\ \A k \in 1 .. n : a[k] = NextFacet(cut, k, a[k - 1])
  BY <1>1, <1>4
<1>6. QED BY <1>3, <1>5 DEF n, a

-----------------------------------------------------------------------------
(* The sides of the facets that are listed *)

\* A triangle and its sides.
IsTriangle(v, v1, v2, v3) == Len(v) = 3 /\ v[1] = v1 /\ v[2] = v2 /\ v[3] = v3
TriangleSides(v1, v2, v3) == {<<v1, v2>>, <<v2, v3>>, <<v3, v1>>}

\* The sides of three nodes.
LEMMA SidesOfTriangle ==
  ASSUME NEW v, NEW v1, NEW v2, NEW v3, IsTriangle(v, v1, v2, v3)
  PROVE  SidesOfNodes(v) = TriangleSides(v1, v2, v3)
<1>1. Len(v) = 3 /\ v[1] = v1 /\ v[2] = v2 /\ v[3] = v3
  BY DEF IsTriangle
<1>2. 1 .. 3 = {1, 2, 3} /\ (1 % 3) + 1 = 2 /\ (2 % 3) + 1 = 3 /\ (3 % 3) + 1 = 1
  OBVIOUS
<1>3. SidesOfNodes(v) = {<<v[i], v[(i % 3) + 1]>> : i \in {1, 2, 3}}
  BY <1>1, <1>2 DEF SidesOfNodes
<1>4. {<<v[i], v[(i % 3) + 1]>> : i \in {1, 2, 3}}
        = {<<v[1], v[(1 % 3) + 1]>>, <<v[2], v[(2 % 3) + 1]>>, <<v[3], v[(3 % 3) + 1]>>}
  BY ZenonT(30)
<1>5. QED BY <1>1, <1>2, <1>3, <1>4 DEF TriangleSides

\* A side joins two nodes of its facet.
LEMMA SidesJoinNodes ==
  ASSUME NEW v, Len(v) \in Nat, NEW x, NEW y, <<x, y>> \in SidesOfNodes(v)
  PROVE  \E i, j \in 1 .. Len(v) : x = v[i] /\ y = v[j]
<1>1. PICK i \in 1 .. Len(v) : <<x, y>> = <<v[i], v[(i % Len(v)) + 1]>>
  BY DEF SidesOfNodes
<1>2. Len(v) \in Nat \ {0}
  OBVIOUS
<1>3. (i % Len(v)) + 1 = IF i = Len(v) THEN 1 ELSE i + 1
  BY <1>2, NextPlace
<1>4. (i % Len(v)) + 1 \in 1 .. Len(v)
  BY <1>2, <1>3
<1>5. x = v[i] /\ y = v[(i % Len(v)) + 1]
  BY <1>1
<1>6. QED BY <1>4, <1>5

\* The corners of a facet of the hull.
LEMMA HullTriangle ==
  ASSUME NEW s, NEW z, Given(s, z), NEW f \in 1 .. s.nb_of_static_facets
  PROVE  /\ IsTriangle(s.facets[f], s.facets[f][1], s.facets[f][2], s.facets[f][3])
         /\ s.facets[f][1] \in 1 .. s.nb_of_static_nodes
         /\ s.facets[f][2] \in 1 .. s.nb_of_static_nodes
         /\ s.facets[f][3] \in 1 .. s.nb_of_static_nodes
         /\ s.facets[f][1] # s.facets[f][2] /\ s.facets[f][2] # s.facets[f][3]
         /\ s.facets[f][3] # s.facets[f][1]
<1>1. 1 \in 1 .. 3 /\ 2 \in 1 .. 3 /\ 3 \in 1 .. 3
  OBVIOUS
<1>2. \A i \in 1 .. 3 : s.facets[f][i] \in 1 .. s.nb_of_static_nodes
  BY FacetCorners
<1>3. Len(s.facets[f]) = 3
  BY FacetCorners
<1>4. /\ s.facets[f][1] # s.facets[f][2] /\ s.facets[f][2] # s.facets[f][3]
      /\ s.facets[f][3] # s.facets[f][1]
  BY FacetCorners
<1>5. QED BY <1>1, <1>2, <1>3, <1>4 DEF IsTriangle

\* The pieces of a facet that has no crossing side are its sides.
LEMMA WholePieces ==
  ASSUME NEW s, NEW z, Given(s, z), NEW cut, Classified(s, z, cut),
         NEW f \in 1 .. s.nb_of_static_facets,
         NEW side, \A i \in 1 .. 3 : OnSide(cut, side, s.facets[f][i])
  PROVE  Pieces(s, cut, f) = TriangleSides(s.facets[f][1], s.facets[f][2], s.facets[f][3])
<1> DEFINE v(i) == s.facets[f][i]
           m(i) == Middle(cut, s.oriented_edges_per_facet[f][i].edge)
<1>1. \A i \in 1 .. 3 : cut.immersions[v(i)] \in Int
  <2>1. \A i \in 1 .. 3 : v(i) \in 1 .. s.nb_of_static_nodes
    BY FacetCorners
  <2>2. \A i \in 1 .. s.nb_of_static_nodes : cut.immersions[i] = z[i] /\ z[i] \in Int
    BY DEF Classified, Given
  <2>3. QED BY <2>1, <2>2
<1>2. \A i, j \in 1 .. 3 : ~Crossing(cut, v(i), v(j))
  BY <1>1 DEF Crossing, OnSide
<1>3. 1 .. 3 = {1, 2, 3} /\ (1 % 3) + 1 = 2 /\ (2 % 3) + 1 = 3 /\ (3 % 3) + 1 = 1
  OBVIOUS
<1> HIDE DEF v, m
<1>4. \A i \in 1 .. 3 : Piece(s, cut, f, i) = PieceOf(cut, v(i), v((i % 3) + 1), m(i))
  BY DEF Piece, v, m
<1>5. /\ Piece(s, cut, f, 1) = {<<v(1), v(2)>>} /\ Piece(s, cut, f, 2) = {<<v(2), v(3)>>}
      /\ Piece(s, cut, f, 3) = {<<v(3), v(1)>>}
  <2>1. 1 \in 1 .. 3 /\ 2 \in 1 .. 3 /\ 3 \in 1 .. 3
    OBVIOUS
  <2>2. /\ Piece(s, cut, f, 1) = PieceOf(cut, v(1), v(2), m(1))
        /\ Piece(s, cut, f, 2) = PieceOf(cut, v(2), v(3), m(2))
        /\ Piece(s, cut, f, 3) = PieceOf(cut, v(3), v(1), m(3))
    BY <1>3, <1>4, <2>1
  <2>3. QED BY <1>2, <2>1, <2>2 DEF PieceOf
<1>6. Pieces(s, cut, f) = UNION {Piece(s, cut, f, i) : i \in {1, 2, 3}}
  BY <1>3 DEF Pieces
<1>7. Pieces(s, cut, f) = Piece(s, cut, f, 1) \cup Piece(s, cut, f, 2) \cup Piece(s, cut, f, 3)
  BY <1>6
<1>8. QED BY <1>5, <1>7 DEF TriangleSides, v

\* An edge runs between the same nodes when the mesh grows.
LEMMA RunsStay ==
  ASSUME NEW s \in Meshes, NEW m, Grown(s, m), NEW o, NEW v, NEW w, Runs(s, o, v, w)
  PROVE  Runs(m, o, v, w)
<1>1. o \in Along(1 .. Len(s.edges))
  BY DEF Runs
<1>2. QED BY <1>1, OrientedStay DEF Runs

\* The facet made of three edges that surround it and of an edge from its first node to
\* itself is the same triangle.
LEMMA FlatFacet ==
  ASSUME NEW m \in Meshes, EdgesExist(m), NEW L \in Seq(Along(1 .. Len(m.edges))),
         Len(L) = 3, NEW v1, NEW v2, NEW v3, v1 # v2, v2 # v3, v3 # v1,
         Runs(m, L[1], v1, v2), Runs(m, L[2], v2, v3), Runs(m, L[3], v3, v1),
         NEW o, Runs(m, o, v1, v1), NEW k, k = 0
  PROVE  IsTriangle(NewFacet(m, InsertAt(L, k + 1, o)), v1, v2, v3)
<1> DEFINE S == Along(1 .. Len(m.edges))
           M == InsertAt(L, k + 1, o)
           b(i) == second_vertex_of_oriented_edge(m, M[i])
<1>1. o \in S /\ k \in 0 .. Len(L)
  BY DEF Runs
<1> HIDE DEF S
<1>2. Inserted(S, L, k, o, M)
  BY <1>1, InsertAtIs DEF S
<1> HIDE DEF M
<1>3. /\ M \in Seq(S) /\ Len(M) = 4 /\ M[1] = o
      /\ M[2] = L[1] /\ M[3] = L[2] /\ M[4] = L[3]
  <2>1. M \in Seq(S) /\ Len(M) = 4 /\ M[1] = o
    BY <1>2 DEF Inserted
  <2>2. \A i \in 2 .. 4 : M[i] = L[i - 1]
    BY <1>2 DEF Inserted
  <2>3. M[2] = L[2 - 1] /\ M[3] = L[3 - 1] /\ M[4] = L[4 - 1]
    BY <2>2
  <2>4. QED BY <2>1, <2>3
<1>4. b(1) = v1 /\ b(2) = v2 /\ b(3) = v3 /\ b(4) = v1
  BY <1>3 DEF Runs
<1> HIDE DEF b
<1>5. \A i, j \in 1 .. 3 : i # j => b(i) # b(j)
  BY <1>4
<1>6. \A i \in 3 + 1 .. Len(M) : \E j \in 1 .. 3 : b(i) = b(j)
  <2>1. ASSUME NEW i \in 3 + 1 .. Len(M) PROVE i = 4
    BY <1>3
  <2>2. b(4) = b(1) /\ 1 \in 1 .. 3
    BY <1>4
  <2>3. QED BY <2>1, <2>2
<1>7. 3 \in 0 .. Len(M)
  BY <1>3
<1>8. Len(NewFacet(m, M)) = 3 /\ \A i \in 1 .. 3 : NewFacet(m, M)[i] = b(i)
  BY <1>3, <1>5, <1>6, <1>7, NewFacetNodes DEF S, b
<1>9. 1 \in 1 .. 3 /\ 2 \in 1 .. 3 /\ 3 \in 1 .. 3
  OBVIOUS
<1>10. QED BY <1>4, <1>8, <1>9 DEF IsTriangle, M

\* A facet that lies on the surface is in both lists, and counts once.
Flush(cut, f) ==
  \A i \in 1 .. Len(cut.mesh.facets[f]) : cut.immersions[cut.mesh.facets[f][i]] = 0
Counted(cut, emerged, immersed) == immersed \cup {f \in emerged : ~Flush(cut, f)}

\* How often facets run from one node to another.
HaveSide(m, F, x, y) == {f \in F : <<x, y>> \in SidesOfNodes(m.facets[f])}
Count(m, F, x, y) == Cardinality(HaveSide(m, F, x, y))
One(P, x, y) == IF <<x, y>> \in P THEN 1 ELSE 0

\* The sides of a facet between nodes on the surface are known to be on it.
SurfaceKnown(cut, f) ==
  \A x, y :
    (<<x, y>> \in SidesOfNodes(cut.mesh.facets[f])
     /\ cut.immersions[x] = 0 /\ cut.immersions[y] = 0)
    => \E e \in cut.surface_edges : Between(cut.mesh, e, x, y)

\* The facets listed, with their pieces, run as often one way as the other.
Balances(m, F, P) ==
  \A x, y : Count(m, F, x, y) + One(P, y, x) = Count(m, F, y, x) + One(P, x, y)

\* What is listed for facet f.
Added(cut, f, r, P) ==
  \E E, I :
    /\ E \cup I \subseteq {f} \cup (Len(cut.mesh.facets) + 1 .. Len(r.mesh.facets))
    /\ ToSet(r.emerged) = ToSet(cut.emerged) \cup E
    /\ ToSet(r.immersed) = ToSet(cut.immersed) \cup I
    /\ Balances(r.mesh, Counted(r, E, I), P)
    /\ \A g \in E \cup I : SurfaceKnown(r, g)

\* One facet has a side once.
LEMMA OneFacetCounts ==
  ASSUME NEW m, NEW g, NEW x, NEW y
  PROVE  Count(m, {g}, x, y) = One(SidesOfNodes(m.facets[g]), x, y)
<1>1. CASE <<x, y>> \in SidesOfNodes(m.facets[g])
  <2>1. HaveSide(m, {g}, x, y) = {g}
    BY <1>1 DEF HaveSide
  <2>2. QED BY <1>1, <2>1, FS_Singleton DEF Count, One
<1>2. CASE <<x, y>> \notin SidesOfNodes(m.facets[g])
  <2>1. HaveSide(m, {g}, x, y) = {}
    BY <1>2 DEF HaveSide
  <2>2. QED BY <1>2, <2>1, FS_EmptySet DEF Count, One
<1>3. QED BY <1>1, <1>2

\* Facets that are not among others add to their count.
LEMMA CountTogether ==
  ASSUME NEW m, NEW F, IsFiniteSet(F), NEW G, IsFiniteSet(G), F \cap G = {}, NEW x, NEW y
  PROVE  /\ Count(m, F \cup G, x, y) = Count(m, F, x, y) + Count(m, G, x, y)
         /\ Count(m, F, x, y) \in Nat /\ Count(m, G, x, y) \in Nat
<1> DEFINE A == HaveSide(m, F, x, y)
           B == HaveSide(m, G, x, y)
<1>1. A \in SUBSET F /\ B \in SUBSET G /\ HaveSide(m, F \cup G, x, y) = A \cup B
  BY DEF HaveSide
<1> HIDE DEF A, B
<1>2. IsFiniteSet(A) /\ IsFiniteSet(B)
  BY <1>1, FS_Subset
<1>3. A \cap B = {}
  BY <1>1
<1>4. Cardinality(A \cup B) = Cardinality(A) + Cardinality(B) - Cardinality({})
  BY <1>2, <1>3, FS_Union
<1>5. Cardinality(A) \in Nat /\ Cardinality(B) \in Nat /\ Cardinality({}) = 0
  BY <1>2, FS_CardinalityType, FS_EmptySet
<1>6. Cardinality(A \cup B) = Cardinality(A) + Cardinality(B)
  BY <1>4, <1>5
<1>7. QED BY <1>1, <1>5, <1>6 DEF Count, A, B

\* Two facets, each of which has a side once.
Both(g, h) == {g, h}
SidesIn(m, g) == SidesOfNodes(m.facets[g])
LEMMA TwoFacetsCount ==
  ASSUME NEW m, NEW g, NEW h, g # h, NEW x, NEW y
  PROVE  Count(m, Both(g, h), x, y) = One(SidesIn(m, g), x, y) + One(SidesIn(m, h), x, y)
<1>1. /\ Both(g, h) = {g} \cup {h} /\ {g} \cap {h} = {}
      /\ IsFiniteSet({g}) /\ IsFiniteSet({h})
  BY FS_Singleton DEF Both
<1>2. Count(m, {g} \cup {h}, x, y) = Count(m, {g}, x, y) + Count(m, {h}, x, y)
  BY <1>1, CountTogether
<1>3. Count(m, {g}, x, y) = One(SidesOfNodes(m.facets[g]), x, y)
  BY OneFacetCounts
<1>4. Count(m, {h}, x, y) = One(SidesOfNodes(m.facets[h]), x, y)
  BY OneFacetCounts
<1>5. QED BY <1>1, <1>2, <1>3, <1>4 DEF SidesIn

\* A facet that has the pieces as its sides.
LEMMA SameSidesBalance ==
  ASSUME NEW m, NEW g, NEW P, SidesOfNodes(m.facets[g]) = P
  PROVE  Balances(m, {g}, P)
<1>1. ASSUME NEW x, NEW y
      PROVE  Count(m, {g}, x, y) + One(P, y, x) = Count(m, {g}, y, x) + One(P, x, y)
  <2>1. Count(m, {g}, x, y) = One(P, x, y) /\ Count(m, {g}, y, x) = One(P, y, x)
    BY OneFacetCounts
  <2>2. One(P, x, y) \in Nat /\ One(P, y, x) \in Nat
    BY DEF One
  <2>3. QED BY <2>1, <2>2
<1>2. QED BY <1>1 DEF Balances

\* Two facets that share the pieces, and have a side in common that they run through in
\* opposite directions.
LEMMA PartsBalance ==
  ASSUME NEW m, NEW g, NEW h, g # h, NEW E, NEW I, E \cap I = {}, NEW a, NEW b, a # b,
         SidesOfNodes(m.facets[g]) = E \cup {<<a, b>>}, <<a, b>> \notin E,
         SidesOfNodes(m.facets[h]) = I \cup {<<b, a>>}, <<b, a>> \notin I
  PROVE  Balances(m, {g, h}, E \cup I)
<1> DEFINE Turn(x, y) == IF x = a /\ y = b THEN 1 ELSE IF x = b /\ y = a THEN 1 ELSE 0
<1>1. ASSUME NEW x, NEW y
      PROVE  Count(m, Both(g, h), x, y) = One(E \cup I, x, y) + Turn(x, y)
  <2> DEFINE p == <<x, y>>
  <2>1. /\ p = <<a, b>> <=> x = a /\ y = b
        /\ p = <<b, a>> <=> x = b /\ y = a
    OBVIOUS
  <2>2. One(SidesIn(m, g), x, y)
          = One(E, x, y) + IF x = a /\ y = b THEN 1 ELSE 0
    <3>1. CASE x = a /\ y = b
      BY <3>1 DEF One, SidesIn
    <3>2. CASE ~(x = a /\ y = b)
      <4>1. p \in E \cup {<<a, b>>} <=> p \in E
        BY <2>1, <3>2
      <4> HIDE DEF p
      <4>2. One(SidesIn(m, g), x, y) = One(E, x, y) /\ One(E, x, y) \in Nat
        BY <4>1 DEF One, p, SidesIn
      <4>3. QED BY <3>2, <4>2
    <3>3. QED BY <3>1, <3>2
  <2>3. One(SidesIn(m, h), x, y)
          = One(I, x, y) + IF x = b /\ y = a THEN 1 ELSE 0
    <3>1. CASE x = b /\ y = a
      BY <3>1 DEF One, SidesIn
    <3>2. CASE ~(x = b /\ y = a)
      <4>1. p \in I \cup {<<b, a>>} <=> p \in I
        BY <2>1, <3>2
      <4> HIDE DEF p
      <4>2. One(SidesIn(m, h), x, y) = One(I, x, y) /\ One(I, x, y) \in Nat
        BY <4>1 DEF One, p, SidesIn
      <4>3. QED BY <3>2, <4>2
    <3>3. QED BY <3>1, <3>2
  <2>4. One(E \cup I, x, y) = One(E, x, y) + One(I, x, y)
    BY DEF One
  <2>5. One(E, x, y) \in Nat /\ One(I, x, y) \in Nat
    BY DEF One
  <2>6. Count(m, Both(g, h), x, y)
          = One(SidesIn(m, g), x, y) + One(SidesIn(m, h), x, y)
    BY TwoFacetsCount
  <2>7. QED BY <2>2, <2>3, <2>4, <2>5, <2>6
<1>2. ASSUME NEW x, NEW y PROVE Turn(x, y) = Turn(y, x) /\ Turn(x, y) \in Nat
  OBVIOUS
<1> HIDE DEF Turn
<1>3. ASSUME NEW x, NEW y
      PROVE  Count(m, Both(g, h), x, y) + One(E \cup I, y, x)
               = Count(m, Both(g, h), y, x) + One(E \cup I, x, y)
  <2>1. One(E \cup I, x, y) \in Nat /\ One(E \cup I, y, x) \in Nat
    BY DEF One
  <2>2. /\ Count(m, Both(g, h), x, y) = One(E \cup I, x, y) + Turn(x, y)
        /\ Count(m, Both(g, h), y, x) = One(E \cup I, y, x) + Turn(y, x)
        /\ Turn(x, y) = Turn(y, x) /\ Turn(x, y) \in Nat
    BY <1>1, <1>2
  <2>3. QED BY <2>1, <2>2
<1>4. QED BY <1>3 DEF Balances, Both

\* A facet appended to a list.
LEMMA ListedAppend ==
  ASSUME NEW L \in Seq(Nat), NEW f \in Nat
  PROVE  ToSet(Append(L, f)) = ToSet(L) \cup {f}
<1> DEFINE M == Append(L, f)
<1>1. Len(L) \in Nat /\ DOMAIN L = 1 .. Len(L)
  BY LenProperties
<1>2. /\ M \in Seq(Nat) /\ Len(M) = Len(L) + 1 /\ M[Len(L) + 1] = f
      /\ \A i \in 1 .. Len(L) : M[i] = L[i]
  BY <1>1, AppendProperties
<1> HIDE DEF M
<1>3. DOMAIN M = 1 .. Len(L) + 1
  BY <1>2, LenProperties
<1>4. ToSet(M) = {M[i] : i \in 1 .. Len(L) + 1} /\ ToSet(L) = {L[i] : i \in 1 .. Len(L)}
  BY <1>1, <1>3 DEF ToSet
<1>5. ToSet(M) \subseteq ToSet(L) \cup {f}
  <2>1. ASSUME NEW i \in 1 .. Len(L) + 1 PROVE M[i] \in ToSet(L) \cup {f}
    <3>1. CASE i = Len(L) + 1
      BY <1>2, <3>1
    <3>2. CASE i # Len(L) + 1
      <4>1. i \in 1 .. Len(L)
        BY <1>1, <3>2
      <4>2. QED BY <1>2, <1>4, <4>1
    <3>3. QED BY <3>1, <3>2
  <2>2. QED BY <1>4, <2>1
<1>6. ToSet(L) \cup {f} \subseteq ToSet(M)
  <2>1. f \in ToSet(M)
    <3>1. Len(L) + 1 \in 1 .. Len(L) + 1
      BY <1>1
    <3>2. QED BY <1>2, <1>4, <3>1
  <2>2. ASSUME NEW i \in 1 .. Len(L) PROVE L[i] \in ToSet(M)
    <3>1. i \in 1 .. Len(L) + 1 /\ M[i] = L[i]
      BY <1>1, <1>2
    <3>2. QED BY <1>4, <3>1
  <2>3. QED BY <1>4, <2>1, <2>2
<1>7. QED BY <1>5, <1>6 DEF M

\* The edges along the sides of a facet that lie on the surface are known.
LEMMA WholeFacetIsKnown ==
  ASSUME NEW s, NEW z, Given(s, z), NEW cut, Classified(s, z, cut),
         NEW f \in 1 .. s.nb_of_static_facets,
         NEW r, r.immersions = cut.immersions, Grown(s, r.mesh), TouchingKnown(s, cut, f, r),
         NEW g, SidesOfNodes(r.mesh.facets[g]) = SidesOfNodes(s.facets[f])
  PROVE  SurfaceKnown(r, g)
<1> SUFFICES ASSUME NEW x, NEW y, <<x, y>> \in SidesOfNodes(r.mesh.facets[g]),
                    r.immersions[x] = 0, r.immersions[y] = 0
             PROVE  \E e \in r.surface_edges : Between(r.mesh, e, x, y)
  BY Zenon DEF SurfaceKnown
<1>0. /\ <<x, y>> \in SidesOfNodes(s.facets[f])
      /\ cut.immersions[x] = 0 /\ cut.immersions[y] = 0
  OBVIOUS
<1>1. Len(s.facets[f]) = 3 /\ f \in 1 .. Len(s.facets)
  <2>1. IsTriangle(s.facets[f], s.facets[f][1], s.facets[f][2], s.facets[f][3])
    BY HullTriangle
  <2>2. QED BY <2>1, GivenParts DEF IsTriangle
<1>2. PICK i \in 1 .. 3 : <<x, y>> = <<s.facets[f][i], s.facets[f][(i % 3) + 1]>>
  BY <1>0, <1>1 DEF SidesOfNodes
<1>3. x = s.facets[f][i] /\ y = s.facets[f][(i % 3) + 1]
  BY <1>2
<1> DEFINE e == s.oriented_edges_per_facet[f][i].edge
<1>4. e \in r.surface_edges
  BY <1>0, <1>3 DEF TouchingKnown
<1>5. IsSide(s, f, i, x, y, e)
  BY <1>1, <1>3 DEF IsSide
<1> HIDE DEF e
<1>6. Between(s, e, x, y) /\ e \in 1 .. s.nb_of_static_edges
  BY <1>5, SideOfFacet
<1>7. r.mesh.edges[e] = s.edges[e]
  <2>1. Len(s.edges) = s.nb_of_static_edges
    BY GivenParts DEF Given, Static
  <2>2. QED BY <1>6, <2>1 DEF Grown
<1>8. Between(r.mesh, e, x, y)
  BY <1>6, <1>7 DEF Between
<1>9. QED BY <1>4, <1>8

\* A facet is counted, or not, when it alone is listed on a side.
LEMMA CountedAlone ==
  ASSUME NEW r, NEW f
  PROVE  Counted(r, {}, {f}) = {f} /\ (~Flush(r, f) => Counted(r, {f}, {}) = {f})
BY DEF Counted

\* A facet that is kept whole.
LEMMA KeptIsAdded ==
  ASSUME NEW s, NEW z, Given(s, z), NEW cut, Classified(s, z, cut),
         NEW f \in 1 .. s.nb_of_static_facets, NEW r, KeepsSplits(cut, r),
         TouchingKnown(s, cut, f, r), NEW side, side = "emerged" \/ side = "immersed",
         KeptWhole(cut, f, r, side), \A i \in 1 .. 3 : OnSide(cut, side, s.facets[f][i]),
         side = "emerged" => \E i \in 1 .. 3 : cut.immersions[s.facets[f][i]] < 0
  PROVE  Added(cut, f, r, Pieces(s, cut, f))
<1> DEFINE P == Pieces(s, cut, f)
           v == s.facets[f]
<1>1. r.mesh = cut.mesh /\ r.immersions = cut.immersions /\ Grown(s, r.mesh)
  BY DEF KeptWhole, KeepsSplits, Classified
<1>2. r.mesh.facets[f] = v
  <2>1. f \in 1 .. Len(s.facets)
    BY GivenParts
  <2>2. QED BY <1>1, <2>1 DEF Grown
<1>3. P = TriangleSides(v[1], v[2], v[3])
  BY WholePieces
<1>4. IsTriangle(v, v[1], v[2], v[3])
  BY HullTriangle
<1> HIDE DEF P
<1>5. SidesOfNodes(v) = P
  BY <1>3, <1>4, SidesOfTriangle
<1>6. SurfaceKnown(r, f)
  BY <1>1, <1>2, WholeFacetIsKnown
<1>7. Balances(r.mesh, {f}, P)
  BY <1>2, <1>5, SameSidesBalance
<1>8. cut.emerged \in Seq(Nat) /\ cut.immersed \in Seq(Nat) /\ f \in Nat
  <2>1. s.nb_of_static_facets \in Nat
    BY GivenParts
  <2>2. f \in Nat
    BY <2>1
  <2>3. QED BY <2>2, ClassifiedParts DEF AllOnSide
<1>9. CASE side = "immersed"
  <2>1. r.immersed = Append(cut.immersed, f) /\ r.emerged = cut.emerged
    BY <1>9 DEF KeptWhole
  <2>2. ToSet(r.immersed) = ToSet(cut.immersed) \cup {f}
    BY <1>8, <2>1, ListedAppend
  <2>3. ToSet(r.emerged) = ToSet(cut.emerged) \cup {}
    BY <2>1
  <2>4. Balances(r.mesh, Counted(r, {}, {f}), P)
    BY <1>7, CountedAlone
  <2>5. {} \cup {f} \subseteq {f} \cup (Len(cut.mesh.facets) + 1 .. Len(r.mesh.facets))
    OBVIOUS
  <2>6. \A g \in {} \cup {f} : SurfaceKnown(r, g)
    BY <1>6
  <2>7. QED BY <2>2, <2>3, <2>4, <2>5, <2>6 DEF Added, P
<1>10. CASE side = "emerged"
  <2>1. r.emerged = Append(cut.emerged, f) /\ r.immersed = cut.immersed
    BY <1>10 DEF KeptWhole
  <2>2. ToSet(r.emerged) = ToSet(cut.emerged) \cup {f}
    BY <1>8, <2>1, ListedAppend
  <2>3. ToSet(r.immersed) = ToSet(cut.immersed) \cup {}
    BY <2>1
  <2>4. ~Flush(r, f)
    <3>1. PICK i \in 1 .. 3 : cut.immersions[v[i]] < 0
      BY <1>10
    <3>2. Len(v) = 3
      BY <1>4 DEF IsTriangle
    <3>3. QED BY <1>1, <1>2, <3>1, <3>2 DEF Flush
  <2>5. Balances(r.mesh, Counted(r, {f}, {}), P)
    BY <1>7, <2>4, CountedAlone
  <2>6. {f} \cup {} \subseteq {f} \cup (Len(cut.mesh.facets) + 1 .. Len(r.mesh.facets))
    OBVIOUS
  <2>7. \A g \in {f} \cup {} : SurfaceKnown(r, g)
    BY <1>6
  <2>8. QED BY <2>2, <2>3, <2>5, <2>6, <2>7 DEF Added, P
<1>11. QED BY <1>9, <1>10

\* Two facets behind those of the mesh, one for each list.
NewFacets(cut, r, e, i) ==
  /\ e = Len(cut.mesh.facets) + 1 /\ i = Len(cut.mesh.facets) + 2
  /\ Len(r.mesh.facets) = Len(cut.mesh.facets) + 2
  /\ r.emerged = Append(cut.emerged, e) /\ r.immersed = Append(cut.immersed, i)

\* They are what is listed for the facet they replace.
LEMMA NewFacetsAdded ==
  ASSUME NEW s, NEW z, NEW cut, Classified(s, z, cut), NEW f, NEW r,
         NEW e, NEW i, NewFacets(cut, r, e, i), NEW P, Balances(r.mesh, Counted(r, {e}, {i}), P),
         SurfaceKnown(r, e), SurfaceKnown(r, i)
  PROVE  Added(cut, f, r, P)
<1>1. /\ cut.emerged \in Seq(Nat) /\ cut.immersed \in Seq(Nat)
      /\ Len(cut.mesh.facets) \in Nat
  BY ClassifiedParts DEF AllOnSide
<1>2. /\ e = Len(cut.mesh.facets) + 1 /\ i = Len(cut.mesh.facets) + 2
      /\ Len(r.mesh.facets) = Len(cut.mesh.facets) + 2
      /\ r.emerged = Append(cut.emerged, e) /\ r.immersed = Append(cut.immersed, i)
  BY DEF NewFacets
<1>3. e \in Nat /\ i \in Nat
  BY <1>1, <1>2
<1>4. ToSet(r.emerged) = ToSet(cut.emerged) \cup {e}
  BY <1>1, <1>2, <1>3, ListedAppend
<1>5. ToSet(r.immersed) = ToSet(cut.immersed) \cup {i}
  BY <1>1, <1>2, <1>3, ListedAppend
<1>6. {e} \cup {i} \subseteq {f} \cup (Len(cut.mesh.facets) + 1 .. Len(r.mesh.facets))
  BY <1>1, <1>2
<1>7. \A g \in {e} \cup {i} : SurfaceKnown(r, g)
  OBVIOUS
<1>8. QED BY <1>4, <1>5, <1>6, <1>7 DEF Added

\* A facet that lies on the surface is replaced by two with its sides, one of which counts.
LEMMA FlatIsAdded ==
  ASSUME NEW s, NEW z, Given(s, z), NEW cut, Classified(s, z, cut),
         NEW f \in 1 .. s.nb_of_static_facets, NEW r, KeepsSplits(cut, r),
         TouchingKnown(s, cut, f, r), Parts(cut, f).emerged \in Seq(Along(1 .. Len(cut.mesh.edges))),
         Flat(cut, Parts(cut, f), s.facets[f][1], s.facets[f][2], s.facets[f][3]),
         Replaced(cut, r, Parts(cut, f))
  PROVE  Added(cut, f, r, Pieces(s, cut, f))
<1> DEFINE sides == Parts(cut, f)
           v1 == s.facets[f][1]
           v2 == s.facets[f][2]
           v3 == s.facets[f][3]
           L == sides.emerged
           nE == Len(cut.mesh.facets) + 1
           nI == Len(cut.mesh.facets) + 2
<1>1. /\ cut.immersions[v1] = 0 /\ cut.immersions[v2] = 0 /\ cut.immersions[v3] = 0
      /\ L = sides.immersed /\ Len(L) = 3
      /\ sides.first_emerged = 0 /\ sides.first_immersed = 0
      /\ Runs(cut.mesh, L[1], v1, v2) /\ Runs(cut.mesh, L[2], v2, v3)
      /\ Runs(cut.mesh, L[3], v3, v1)
      /\ L \in Seq(Along(1 .. Len(cut.mesh.edges)))
  BY DEF Flat
<1>2. /\ IsTriangle(s.facets[f], v1, v2, v3)
      /\ v1 # v2 /\ v2 # v3 /\ v3 # v1
      /\ v1 \in 1 .. s.nb_of_static_nodes /\ v2 \in 1 .. s.nb_of_static_nodes
      /\ v3 \in 1 .. s.nb_of_static_nodes
  BY HullTriangle
<1>3. Pieces(s, cut, f) = TriangleSides(v1, v2, v3)
  <2>1. \A i \in 1 .. 3 : i = 1 \/ i = 2 \/ i = 3
    OBVIOUS
  <2>2. \A i \in 1 .. 3 : OnSide(cut, "emerged", s.facets[f][i])
    BY <1>1, <2>1 DEF OnSide
  <2>3. QED BY <2>2, WholePieces
<1>4. PICK from, to, c, d, o, p, e :
        /\ from = first_vertex_of_oriented_edge(cut.mesh, sides.immersed[sides.first_immersed + 1])
        /\ to = first_vertex_of_oriented_edge(cut.mesh, sides.emerged[sides.first_emerged + 1])
        /\ Grown(cut.mesh, c) /\ EdgesExist(c) /\ Runs(c, o, from, to)
        /\ Grown(cut.mesh, d) /\ EdgesExist(d) /\ Runs(d, p, to, from)
        /\ r.mesh.facets[Len(cut.mesh.facets) + 1]
             = NewFacet(c, InsertAt(sides.emerged, sides.first_emerged + 1, o))
        /\ r.mesh.facets[Len(cut.mesh.facets) + 2]
             = NewFacet(d, InsertAt(sides.immersed, sides.first_immersed + 1, p))
        /\ Len(r.mesh.facets) = Len(cut.mesh.facets) + 2
        /\ r.emerged = Append(cut.emerged, Len(cut.mesh.facets) + 1)
        /\ r.immersed = Append(cut.immersed, Len(cut.mesh.facets) + 2)
  BY DEF Replaced
<1> HIDE DEF sides, v1, v2, v3
<1>5. from = v1 /\ to = v1
  <2>1. sides.first_immersed + 1 = 1 /\ sides.first_emerged + 1 = 1
    BY <1>1
  <2>2. QED BY <1>1, <1>4, <2>1 DEF Runs
<1>6. cut.mesh \in Meshes /\ r.immersions = cut.immersions /\ r.mesh \in Meshes
      /\ Grown(s, r.mesh)
  <2>1. cut.mesh \in Meshes /\ Grown(s, cut.mesh) /\ Grown(cut.mesh, r.mesh) /\ s \in Meshes
    BY ClassifiedParts, GivenParts DEF KeepsSplits
  <2>2. Grown(s, r.mesh)
    BY <2>1, GrownTransitive
  <2>3. QED BY <2>1, <2>2 DEF KeepsSplits, Grown
<1>7. ASSUME NEW m, Grown(cut.mesh, m), EdgesExist(m), NEW q, Runs(m, q, v1, v1), NEW k, k = 0
      PROVE  IsTriangle(NewFacet(m, InsertAt(L, k + 1, q)), v1, v2, v3)
  <2>1. /\ Runs(m, L[1], v1, v2) /\ Runs(m, L[2], v2, v3) /\ Runs(m, L[3], v3, v1)
    <3>1. /\ cut.mesh \in Meshes /\ Grown(cut.mesh, m) /\ Runs(cut.mesh, L[1], v1, v2)
          /\ Runs(cut.mesh, L[2], v2, v3) /\ Runs(cut.mesh, L[3], v3, v1)
      BY <1>1, <1>6, <1>7
    <3> HIDE DEF L
    <3>2. Runs(m, L[1], v1, v2)
      BY <3>1, RunsStay
    <3>3. Runs(m, L[2], v2, v3)
      BY <3>1, RunsStay
    <3>4. Runs(m, L[3], v3, v1)
      BY <3>1, RunsStay
    <3>5. QED BY <3>2, <3>3, <3>4
  <2>2. m \in Meshes /\ Len(m.edges) \in Nat /\ Len(cut.mesh.edges) \in Nat
        /\ Len(cut.mesh.edges) <= Len(m.edges)
    BY <1>6, <1>7, MeshParts DEF Grown
  <2>3. L \in Seq(Along(1 .. Len(m.edges)))
    <3>1. L[1] \in Along(1 .. Len(m.edges)) /\ L[2] \in Along(1 .. Len(m.edges))
          /\ L[3] \in Along(1 .. Len(m.edges))
      BY <2>1 DEF Runs
    <3> HIDE DEF L
    <3>2. \A i \in 1 .. 3 : L[i] \in Along(1 .. Len(m.edges))
      <4>1. \A i \in 1 .. 3 : i = 1 \/ i = 2 \/ i = 3
        OBVIOUS
      <4>2. QED BY <3>1, <4>1
    <3>3. L = [i \in 1 .. 3 |-> L[i]]
      BY <1>1, LenProperties
    <3>4. QED BY <3>2, <3>3, IsASeq
  <2> HIDE DEF L
  <2>4. QED BY <1>1, <1>2, <1>7, <2>1, <2>2, <2>3, FlatFacet
<1>8. IsTriangle(r.mesh.facets[nE], v1, v2, v3) /\ IsTriangle(r.mesh.facets[nI], v1, v2, v3)
  <2>1. IsTriangle(NewFacet(c, InsertAt(L, sides.first_emerged + 1, o)), v1, v2, v3)
    BY <1>1, <1>4, <1>5, <1>7
  <2>2. IsTriangle(NewFacet(d, InsertAt(L, sides.first_immersed + 1, p)), v1, v2, v3)
    BY <1>1, <1>4, <1>5, <1>7
  <2>3. QED BY <1>1, <1>4, <2>1, <2>2
<1> HIDE DEF L
<1>9. /\ SidesOfNodes(r.mesh.facets[nE]) = SidesOfNodes(s.facets[f])
      /\ SidesOfNodes(r.mesh.facets[nI]) = SidesOfNodes(s.facets[f])
      /\ SidesOfNodes(r.mesh.facets[nI]) = Pieces(s, cut, f)
  BY <1>2, <1>3, <1>8, SidesOfTriangle
<1>10. SurfaceKnown(r, nE) /\ SurfaceKnown(r, nI)
  BY <1>6, <1>9, WholeFacetIsKnown
<1>11. Flush(r, nE)
  <2>1. \A i \in 1 .. 3 : i = 1 \/ i = 2 \/ i = 3
    OBVIOUS
  <2>2. QED BY <1>1, <1>6, <1>8, <2>1 DEF Flush, IsTriangle
<1>12. Counted(r, {nE}, {nI}) = {nI}
  BY <1>11 DEF Counted
<1>13. Balances(r.mesh, Counted(r, {nE}, {nI}), Pieces(s, cut, f))
  BY <1>9, <1>12, SameSidesBalance
<1>14. NewFacets(cut, r, nE, nI)
  BY <1>4 DEF NewFacets
<1> HIDE DEF nE, nI
<1>15. QED BY <1>10, <1>13, <1>14, NewFacetsAdded

\* The nodes that edges run between have an immersion.
LEMMA DirsHaveImmersions ==
  ASSUME NEW s, NEW z, NEW cut, Classified(s, z, cut),
         NEW L \in Seq(Along(1 .. Len(cut.mesh.edges))), NEW d \in Dirs(cut.mesh, L)
  PROVE  cut.immersions[d[1]] \in Int /\ cut.immersions[d[2]] \in Int
<1>1. /\ EdgesExist(cut.mesh) /\ cut.immersions \in Seq(Int)
      /\ Len(cut.immersions) = cut.mesh.total_number_of_nodes
  BY ClassifiedParts DEF Classified, Cuts
<1>2. PICK i \in 1 .. Len(L) : d = <<first_vertex_of_oriented_edge(cut.mesh, L[i]),
                                     second_vertex_of_oriented_edge(cut.mesh, L[i])>>
  BY DEF Dirs
<1>3. L[i] \in Along(1 .. Len(cut.mesh.edges))
  BY <1>2, ElementOfSeq
<1>4. /\ d[1] \in 1 .. cut.mesh.total_number_of_nodes
      /\ d[2] \in 1 .. cut.mesh.total_number_of_nodes
  BY <1>1, <1>2, <1>3, EndsOfOriented
<1>5. QED BY <1>1, <1>4, ElementOfSeq

\* The edges of the parts of a facet: no two run the same way, and none runs where the
\* closing edge does.
LEMMA PartsDiffer ==
  ASSUME NEW s, NEW z, NEW cut, Classified(s, z, cut), NEW sides,
         sides.emerged \in Seq(Along(1 .. Len(cut.mesh.edges))),
         NEW from, NEW to, NEW pieces, Cleft(cut, sides, from, to, pieces)
  PROVE  /\ Dirs(cut.mesh, sides.emerged) \cap Dirs(cut.mesh, sides.immersed) = {}
         /\ <<from, to>> \notin Dirs(cut.mesh, sides.emerged)
         /\ <<to, from>> \notin Dirs(cut.mesh, sides.immersed)
<1> DEFINE E == Dirs(cut.mesh, sides.emerged)
           I == Dirs(cut.mesh, sides.immersed)
<1>1. cut.immersions[from] = 0 /\ cut.immersions[to] = 0 /\ AllAbove(cut, E) /\ AllBelow(cut, I)
  BY DEF Cleft
<1>2. \A d \in E : cut.immersions[d[1]] \in Int /\ cut.immersions[d[2]] \in Int
  BY DirsHaveImmersions
<1> HIDE DEF E, I
<1>3. \A d \in E : d \notin I
  BY <1>1, <1>2 DEF AllAbove, AllBelow, Above, Below
<1>4. <<from, to>> \notin E
  <2> DEFINE d == <<from, to>>
  <2>1. d[1] = from /\ d[2] = to
    OBVIOUS
  <2> HIDE DEF d
  <2>2. ~Above(cut, d[1], d[2])
    BY <1>1, <2>1 DEF Above
  <2>3. d \notin E
    BY <1>1, <2>2 DEF AllAbove
  <2>4. QED BY <2>3 DEF d
<1>5. <<to, from>> \notin I
  <2> DEFINE d == <<to, from>>
  <2>1. d[1] = to /\ d[2] = from
    OBVIOUS
  <2> HIDE DEF d
  <2>2. ~Below(cut, d[1], d[2])
    BY <1>1, <2>1 DEF Below
  <2>3. d \notin I
    BY <1>1, <2>2 DEF AllBelow
  <2>4. QED BY <2>3 DEF d
<1>6. QED BY <1>3, <1>4, <1>5 DEF E, I

\* A facet that has a side that is not on the surface does not lie on it.
LEMMA SideAbove ==
  ASSUME NEW r, NEW g, Len(r.mesh.facets[g]) \in Nat, NEW d, NEW x, NEW y, d = <<x, y>>,
         d \in SidesOfNodes(r.mesh.facets[g]), Above(r, d[1], d[2])
  PROVE  ~Flush(r, g)
<1>1. PICK i \in 1 .. Len(r.mesh.facets[g]), j \in 1 .. Len(r.mesh.facets[g]) :
        x = r.mesh.facets[g][i] /\ y = r.mesh.facets[g][j]
  BY SidesJoinNodes
<1>2. d[1] = x /\ d[2] = y
  OBVIOUS
<1>3. r.immersions[x] < 0 \/ r.immersions[y] < 0
  BY <1>2 DEF Above
<1>4. QED BY <1>1, <1>3 DEF Flush

\* A side on the surface of a facet whose other sides are not is its closing edge.
LEMMA ClosingSideIsKnown ==
  ASSUME NEW r, NEW g, NEW D, NEW a, NEW b,
         SidesOfNodes(r.mesh.facets[g]) = D \cup {<<a, b>>},
         \A d \in D : ~(r.immersions[d[1]] = 0 /\ r.immersions[d[2]] = 0),
         NEW e \in r.surface_edges, Between(r.mesh, e, a, b)
  PROVE  SurfaceKnown(r, g)
<1>1. ASSUME NEW x, NEW y, <<x, y>> \in SidesOfNodes(r.mesh.facets[g]),
             r.immersions[x] = 0, r.immersions[y] = 0
      PROVE  \E k \in r.surface_edges : Between(r.mesh, k, x, y)
  <2> DEFINE d == <<x, y>>
  <2>1. d[1] = x /\ d[2] = y /\ d \in D \cup {<<a, b>>}
    BY <1>1
  <2> HIDE DEF d
  <2>2. d \notin D
    BY <1>1, <2>1
  <2>3. d = <<a, b>>
    BY <2>1, <2>2
  <2>4. x = a /\ y = b
    BY <2>1, <2>3
  <2>5. QED BY <2>4
<1>2. QED BY <1>1, Zenon DEF SurfaceKnown

\* A facet that the surface cuts is replaced by two that share its pieces.
LEMMA CleftIsAdded ==
  ASSUME NEW s, NEW z, Given(s, z), NEW cut, Classified(s, z, cut), NEW f,
         NEW r, KeepsSplits(cut, r), NEW sides,
         SideCloses(cut, sides.emerged, sides.first_emerged, "emerged"),
         SideCloses(cut, sides.immersed, sides.first_immersed, "immersed"),
         NEW from, NEW to, NEW pieces, Cleft(cut, sides, from, to, pieces),
         Replaced(cut, r, sides)
  PROVE  Added(cut, f, r, pieces)
<1> DEFINE m == cut.mesh
           E == Dirs(m, sides.emerged)
           I == Dirs(m, sides.immersed)
           nE == Len(m.facets) + 1
           nI == Len(m.facets) + 2
<1>1. /\ from # to /\ cut.immersions[from] = 0 /\ cut.immersions[to] = 0
      /\ RunsRound(m, sides.emerged, sides.first_emerged, from, to)
      /\ RunsRound(m, sides.immersed, sides.first_immersed, to, from)
      /\ AllAbove(cut, E) /\ AllBelow(cut, I) /\ E \cup I = pieces
  BY DEF Cleft
<1>2. PICK a, b, c, d, o, p, e :
        /\ a = first_vertex_of_oriented_edge(cut.mesh, sides.immersed[sides.first_immersed + 1])
        /\ b = first_vertex_of_oriented_edge(cut.mesh, sides.emerged[sides.first_emerged + 1])
        /\ Grown(cut.mesh, c) /\ EdgesExist(c) /\ Runs(c, o, a, b)
        /\ Grown(cut.mesh, d) /\ EdgesExist(d) /\ Runs(d, p, b, a)
        /\ r.mesh.facets[Len(cut.mesh.facets) + 1]
             = NewFacet(c, InsertAt(sides.emerged, sides.first_emerged + 1, o))
        /\ r.mesh.facets[Len(cut.mesh.facets) + 2]
             = NewFacet(d, InsertAt(sides.immersed, sides.first_immersed + 1, p))
        /\ Len(r.mesh.facets) = Len(cut.mesh.facets) + 2
        /\ r.emerged = Append(cut.emerged, Len(cut.mesh.facets) + 1)
        /\ r.immersed = Append(cut.immersed, Len(cut.mesh.facets) + 2)
        /\ a # b => /\ e \in r.surface_edges /\ r.mesh.edges[e][1] = a
                    /\ r.mesh.edges[e][2] = b
        /\ r.surface_edges \subseteq cut.surface_edges \cup (1 .. cut.mesh.nb_of_static_edges)
                                      \cup IF a = b THEN {} ELSE {e}
  BY DEF Replaced
<1>3. a = from /\ b = to
  BY <1>1, <1>2 DEF RunsRound
<1>4. cut.mesh \in Meshes /\ r.immersions = cut.immersions /\ r.mesh \in Meshes
      /\ Len(m.facets) \in Nat
  BY ClassifiedParts DEF KeepsSplits, Grown
<1>5. /\ sides.emerged \in Seq(Along(1 .. Len(m.edges)))
      /\ sides.immersed \in Seq(Along(1 .. Len(m.edges)))
      /\ 1 \in 1 .. Len(sides.emerged)
  <2>1. /\ sides.emerged \in Seq(Along(1 .. Len(m.edges)))
        /\ sides.immersed \in Seq(Along(1 .. Len(m.edges)))
        /\ sides.first_emerged \in 0 .. Len(sides.emerged) - 1
    BY DEF SideCloses
  <2>2. Len(sides.emerged) \in Nat
    BY <2>1, LenProperties
  <2>3. QED BY <2>1, <2>2
<1>6. SidesOfNodes(r.mesh.facets[nE]) = E \cup {<<from, to>>}
  <2>1. /\ cut.mesh \in Meshes /\ from # to
        /\ Grown(cut.mesh, c) /\ EdgesExist(c) /\ Runs(c, o, from, to)
        /\ RunsRound(cut.mesh, sides.emerged, sides.first_emerged, from, to)
    BY <1>1, <1>2, <1>3, <1>4
  <2>2. SidesOfNodes(NewFacet(c, InsertAt(sides.emerged, sides.first_emerged + 1, o)))
          = Dirs(cut.mesh, sides.emerged) \cup {<<from, to>>}
    BY <2>1, RoundFacet
  <2>3. QED BY <1>2, <2>2
<1>7. SidesOfNodes(r.mesh.facets[nI]) = I \cup {<<to, from>>}
  <2>1. /\ cut.mesh \in Meshes /\ to # from
        /\ Grown(cut.mesh, d) /\ EdgesExist(d) /\ Runs(d, p, to, from)
        /\ RunsRound(cut.mesh, sides.immersed, sides.first_immersed, to, from)
    BY <1>1, <1>2, <1>3, <1>4
  <2>2. SidesOfNodes(NewFacet(d, InsertAt(sides.immersed, sides.first_immersed + 1, p)))
          = Dirs(cut.mesh, sides.immersed) \cup {<<to, from>>}
    BY <2>1, RoundFacet
  <2>3. QED BY <1>2, <2>2
<1>8. /\ E \cap I = {} /\ <<from, to>> \notin E /\ <<to, from>> \notin I
  BY <1>5, PartsDiffer
<1>9. e \in r.surface_edges /\ Between(r.mesh, e, from, to) /\ Between(r.mesh, e, to, from)
  BY <1>1, <1>2, <1>3 DEF Between
<1>10. /\ \A t \in E : Above(cut, t[1], t[2])
       /\ \A t \in I : Below(cut, t[1], t[2])
  BY <1>1 DEF AllAbove, AllBelow
<1>11. ~Flush(r, nE)
  <2> DEFINE x == first_vertex_of_oriented_edge(m, sides.emerged[1])
             y == second_vertex_of_oriented_edge(m, sides.emerged[1])
             t == <<x, y>>
  <2>1. t \in E
    BY <1>5 DEF Dirs
  <2>2. Len(r.mesh.facets[nE]) \in Nat
    <3>1. r.mesh.facets \in Seq(Seq(Nat)) /\ nE \in 1 .. Len(r.mesh.facets)
      BY <1>2, <1>4, MeshParts
    <3> HIDE DEF nE
    <3>2. r.mesh.facets[nE] \in Seq(Nat)
      BY <3>1, ElementOfSeq
    <3>3. QED BY <3>2, LenProperties
  <2> HIDE DEF x, y, nE, E
  <2>3. t \in SidesOfNodes(r.mesh.facets[nE]) /\ t = <<x, y>>
    BY <1>6, <2>1
  <2> HIDE DEF t
  <2>4. Above(r, t[1], t[2])
    BY <1>4, <1>10, <2>1 DEF Above
  <2>5. QED BY <2>2, <2>3, <2>4, SideAbove
<1>12. SurfaceKnown(r, nE)
  <2>1. \A t \in E : ~(r.immersions[t[1]] = 0 /\ r.immersions[t[2]] = 0)
    BY <1>4, <1>10 DEF Above
  <2> HIDE DEF E, nE
  <2>2. QED BY <1>6, <1>9, <2>1, ClosingSideIsKnown
<1>13. SurfaceKnown(r, nI)
  <2>1. \A t \in I : ~(r.immersions[t[1]] = 0 /\ r.immersions[t[2]] = 0)
    BY <1>4, <1>10 DEF Below
  <2> HIDE DEF I, nI
  <2>2. QED BY <1>7, <1>9, <2>1, ClosingSideIsKnown
<1>14. nE # nI
  BY <1>4
<1>15. NewFacets(cut, r, nE, nI)
  BY <1>2 DEF NewFacets
<1> HIDE DEF E, I, nE, nI
<1>16. Balances(r.mesh, {nE, nI}, E \cup I)
  BY <1>1, <1>6, <1>7, <1>8, <1>14, PartsBalance
<1>17. Counted(r, {nE}, {nI}) = {nE, nI}
  BY <1>11 DEF Counted
<1>18. Balances(r.mesh, Counted(r, {nE}, {nI}), pieces)
  BY <1>1, <1>16, <1>17
<1>19. QED BY <1>12, <1>13, <1>15, <1>18, NewFacetsAdded

\* Whatever becomes of a facet, what is listed for it balances its pieces.
LEMMA DealtIsAdded ==
  ASSUME NEW s, NEW z, Given(s, z), NEW cut, Classified(s, z, cut),
         NEW f \in 1 .. s.nb_of_static_facets, NEW r, Dealt(s, cut, f, r)
  PROVE  Added(cut, f, r, Pieces(s, cut, f))
<1> DEFINE sides == Parts(cut, f)
           P == Pieces(s, cut, f)
<1>1. KeepsSplits(cut, r) /\ TouchingKnown(s, cut, f, r)
  BY DEF Dealt
<1>2. CASE /\ KeptWhole(cut, f, r, "immersed")
           /\ \A i \in 1 .. 3 : OnSide(cut, "immersed", s.facets[f][i])
  BY <1>1, <1>2, KeptIsAdded
<1>3. CASE /\ KeptWhole(cut, f, r, "emerged")
           /\ \A i \in 1 .. 3 : OnSide(cut, "emerged", s.facets[f][i])
           /\ \E i \in 1 .. 3 : cut.immersions[s.facets[f][i]] < 0
  BY <1>1, <1>3, KeptIsAdded
<1>4. CASE /\ ~(Len(sides.emerged) <= 1) /\ ~(Len(sides.immersed) <= 1)
           /\ Replaced(cut, r, sides)
  <2>1. /\ Parted(cut, sides, s.facets[f][1], s.facets[f][2], s.facets[f][3])
        /\ Cleaved(cut, sides, s.facets[f][1], s.facets[f][2], s.facets[f][3], P)
    BY FacetOfTheHullIsParted DEF Parts
  <2> HIDE DEF P, sides
  <2>2. /\ SideCloses(cut, sides.emerged, sides.first_emerged, "emerged")
        /\ SideCloses(cut, sides.immersed, sides.first_immersed, "immersed")
        /\ sides.emerged \in Seq(Along(1 .. Len(cut.mesh.edges)))
    BY <1>4, <2>1 DEF Parted
  <2>3. \/ Flat(cut, sides, s.facets[f][1], s.facets[f][2], s.facets[f][3])
        \/ \E from, to : Cleft(cut, sides, from, to, P)
    BY <1>4, <2>1 DEF Cleaved
  <2>4. CASE Flat(cut, sides, s.facets[f][1], s.facets[f][2], s.facets[f][3])
    BY <1>1, <1>4, <2>2, <2>4, FlatIsAdded DEF sides
  <2>5. CASE \E from, to : Cleft(cut, sides, from, to, P)
    <3>1. PICK from, to : Cleft(cut, sides, from, to, P)
      BY <2>5
    <3>2. Added(cut, f, r, P)
      BY <1>1, <1>4, <2>2, <3>1, CleftIsAdded
    <3>3. QED BY <3>2 DEF P
  <2>6. QED BY <2>3, <2>4, <2>5
<1>5. QED BY <1>2, <1>3, <1>4 DEF Dealt

-----------------------------------------------------------------------------
(* The edges on the surface *)

\* The corners that a node stands for: its own, or the ends of the edge it is the middle of.
Under(s, z, cut, n) ==
  {v \in 1 .. s.nb_of_static_nodes :
     v = n \/ \E e \in 1 .. s.nb_of_static_edges :
                Crosses(s, z, e) /\ Middle(cut, e) = n /\ v \in {s.edges[e][1], s.edges[e][2]}}

\* A corner stands for itself, and the middle of an edge for its ends.
LEMMA UnderCorner ==
  ASSUME NEW s, NEW z, Given(s, z), NEW cut, Classified(s, z, cut),
         NEW n \in 1 .. s.nb_of_static_nodes
  PROVE  Under(s, z, cut, n) = {n}
<1>1. ASSUME NEW e \in 1 .. s.nb_of_static_edges, Crosses(s, z, e) PROVE Middle(cut, e) # n
  <2>1. Middle(cut, e) \in s.nb_of_static_nodes + 1 .. cut.mesh.total_number_of_nodes
    BY <1>1 DEF Classified, IsSplit
  <2>2. s.nb_of_static_nodes \in Nat
    BY GivenParts
  <2>3. QED BY <2>1, <2>2
<1>2. QED BY <1>1 DEF Under

LEMMA UnderMiddle ==
  ASSUME NEW s, NEW z, Given(s, z), NEW cut, Classified(s, z, cut),
         NEW e \in 1 .. s.nb_of_static_edges, Crosses(s, z, e)
  PROVE  Under(s, z, cut, Middle(cut, e)) = {s.edges[e][1], s.edges[e][2]}
<1> DEFINE m == Middle(cut, e)
<1>1. m \notin 1 .. s.nb_of_static_nodes
  <2>1. m \in s.nb_of_static_nodes + 1 .. cut.mesh.total_number_of_nodes
    BY DEF Classified, IsSplit
  <2>2. s.nb_of_static_nodes \in Nat
    BY GivenParts
  <2> HIDE DEF m
  <2>3. QED BY <2>1, <2>2
<1>2. s.edges[e][1] \in 1 .. s.nb_of_static_nodes /\ s.edges[e][2] \in 1 .. s.nb_of_static_nodes
  BY GivenParts
<1>3. \A d \in 1 .. s.nb_of_static_edges : Crosses(s, z, d) /\ Middle(cut, d) = m => d = e
  BY DEF Classified
<1> HIDE DEF m
<1>4. Middle(cut, e) = m
  BY DEF m
<1>5. QED BY <1>1, <1>2, <1>3, <1>4 DEF Under

\* A node with pieces on both sides of the surface.
MeetsBoth(cut, P, n) ==
  /\ \E d \in P : Above(cut, d[1], d[2]) /\ (n = d[1] \/ n = d[2])
  /\ \E d \in P : Below(cut, d[1], d[2]) /\ (n = d[1] \/ n = d[2])

\* A corner on the surface has pieces on both sides when the opposite side crosses it.
LEMMA CornerBetween ==
  ASSUME NEW cut, NEW v1, NEW v2, NEW v3, v1 # v2, v2 # v3, v3 # v1,
         cut.immersions[v1] = 0, cut.immersions[v2] \in Int, cut.immersions[v3] \in Int,
         NEW m1, NEW m2, NEW m3, Crossing(cut, v2, v3) => m2 # v1,
         NEW P, P = PieceOf(cut, v1, v2, m1) \cup PieceOf(cut, v2, v3, m2)
                      \cup PieceOf(cut, v3, v1, m3),
         MeetsBoth(cut, P, v1)
  PROVE  Crossing(cut, v2, v3)
<1>1. ~Crossing(cut, v1, v2) /\ ~Crossing(cut, v3, v1)
  BY DEF Crossing
<1>2. ASSUME NEW d \in P, v1 = d[1] \/ v1 = d[2]
      PROVE  d = <<v1, v2>> \/ d = <<v3, v1>>
  <2>1. CASE d \in PieceOf(cut, v2, v3, m2)
    <3>1. d = <<v2, v3>> \/ (Crossing(cut, v2, v3) /\ (d = <<v2, m2>> \/ d = <<m2, v3>>))
      BY <2>1 DEF PieceOf
    <3>2. QED BY <1>2, <3>1
  <2>2. QED BY <1>1, <1>2, <2>1 DEF PieceOf
<1>3. PICK d \in P : Above(cut, d[1], d[2]) /\ (v1 = d[1] \/ v1 = d[2])
  BY DEF MeetsBoth
<1>4. PICK b \in P : Below(cut, b[1], b[2]) /\ (v1 = b[1] \/ v1 = b[2])
  BY DEF MeetsBoth
<1>5. d = <<v1, v2>> \/ d = <<v3, v1>>
  BY <1>2, <1>3
<1>6. b = <<v1, v2>> \/ b = <<v3, v1>>
  BY <1>2, <1>4
<1>7. cut.immersions[v2] < 0 \/ cut.immersions[v3] < 0
  BY <1>3, <1>5 DEF Above
<1>8. cut.immersions[v2] > 0 \/ cut.immersions[v3] > 0
  BY <1>4, <1>6 DEF Below
<1>9. QED BY <1>7, <1>8 DEF Crossing

\* What the middle of a side has to be.
MiddleOf(s, z, cut, v, w, m, corners) ==
  Crossing(cut, v, w) => m \notin corners /\ Under(s, z, cut, m) = {v, w}

\* Two nodes with pieces on both sides stand for all corners of the facet.
LEMMA ClosingSpans ==
  ASSUME NEW s, NEW z, NEW cut, NEW v1, NEW v2, NEW v3, v1 # v2, v2 # v3, v3 # v1,
         NEW corners, corners = {v1, v2, v3},
         cut.immersions[v1] \in Int, cut.immersions[v2] \in Int, cut.immersions[v3] \in Int,
         Under(s, z, cut, v1) = {v1}, Under(s, z, cut, v2) = {v2}, Under(s, z, cut, v3) = {v3},
         NEW m1, MiddleOf(s, z, cut, v1, v2, m1, corners),
         NEW m2, MiddleOf(s, z, cut, v2, v3, m2, corners),
         NEW m3, MiddleOf(s, z, cut, v3, v1, m3, corners),
         NEW from, NEW to, from # to, cut.immersions[from] = 0, cut.immersions[to] = 0,
         NEW P, P = PieceOf(cut, v1, v2, m1) \cup PieceOf(cut, v2, v3, m2)
                      \cup PieceOf(cut, v3, v1, m3),
         MeetsBoth(cut, P, from), MeetsBoth(cut, P, to)
  PROVE  Under(s, z, cut, from) \cup Under(s, z, cut, to) = corners
<1> DEFINE At(n, v, w, x) == n = v /\ cut.immersions[v] = 0 /\ Crossing(cut, w, x)
           Mid(n, m, v, w) == n = m /\ Crossing(cut, v, w)
<1>1. ASSUME NEW n, MeetsBoth(cut, P, n), cut.immersions[n] = 0
      PROVE  \/ At(n, v1, v2, v3) \/ At(n, v2, v3, v1) \/ At(n, v3, v1, v2)
             \/ Mid(n, m1, v1, v2) \/ Mid(n, m2, v2, v3) \/ Mid(n, m3, v3, v1)
  <2>1. \/ n = v1 \/ n = v2 \/ n = v3
        \/ Mid(n, m1, v1, v2) \/ Mid(n, m2, v2, v3) \/ Mid(n, m3, v3, v1)
    <3>1. PICK d \in P : n = d[1] \/ n = d[2]
      BY <1>1 DEF MeetsBoth
    <3>2. QED BY <3>1 DEF PieceOf
  <2>2. /\ P = PieceOf(cut, v2, v3, m2) \cup PieceOf(cut, v3, v1, m3) \cup PieceOf(cut, v1, v2, m1)
        /\ P = PieceOf(cut, v3, v1, m3) \cup PieceOf(cut, v1, v2, m1) \cup PieceOf(cut, v2, v3, m2)
    OBVIOUS
  <2>3. /\ Crossing(cut, v1, v2) => m1 # v3
        /\ Crossing(cut, v2, v3) => m2 # v1
        /\ Crossing(cut, v3, v1) => m3 # v2
    BY DEF MiddleOf
  <2>4. CASE n = v1
    <3>1. Crossing(cut, v2, v3)
      BY <1>1, <2>3, <2>4, CornerBetween
    <3>2. QED BY <1>1, <2>4, <3>1
  <2>5. CASE n = v2
    <3>1. Crossing(cut, v3, v1)
      BY <1>1, <2>2, <2>3, <2>5, CornerBetween
    <3>2. QED BY <1>1, <2>5, <3>1
  <2>6. CASE n = v3
    <3>1. Crossing(cut, v1, v2)
      BY <1>1, <2>2, <2>3, <2>6, CornerBetween
    <3>2. QED BY <1>1, <2>6, <3>1
  <2> HIDE DEF At, Mid
  <2>7. QED BY <2>1, <2>4, <2>5, <2>6
<1>2. /\ \/ At(from, v1, v2, v3) \/ At(from, v2, v3, v1) \/ At(from, v3, v1, v2)
         \/ Mid(from, m1, v1, v2) \/ Mid(from, m2, v2, v3) \/ Mid(from, m3, v3, v1)
      /\ \/ At(to, v1, v2, v3) \/ At(to, v2, v3, v1) \/ At(to, v3, v1, v2)
         \/ Mid(to, m1, v1, v2) \/ Mid(to, m2, v2, v3) \/ Mid(to, m3, v3, v1)
  BY <1>1
<1>3. /\ At(from, v1, v2, v3) => Mid(to, m2, v2, v3)
      /\ At(from, v2, v3, v1) => Mid(to, m3, v3, v1)
      /\ At(from, v3, v1, v2) => Mid(to, m1, v1, v2)
      /\ At(to, v1, v2, v3) => Mid(from, m2, v2, v3)
      /\ At(to, v2, v3, v1) => Mid(from, m3, v3, v1)
      /\ At(to, v3, v1, v2) => Mid(from, m1, v1, v2)
  BY <1>2 DEF Crossing
<1>4. /\ Crossing(cut, v1, v2) => Under(s, z, cut, m1) = {v1, v2}
      /\ Crossing(cut, v2, v3) => Under(s, z, cut, m2) = {v2, v3}
      /\ Crossing(cut, v3, v1) => Under(s, z, cut, m3) = {v3, v1}
  BY DEF MiddleOf
<1>9. ASSUME NEW n, NEW k,
             \/ At(n, v1, v2, v3) /\ Mid(k, m2, v2, v3)
             \/ At(n, v2, v3, v1) /\ Mid(k, m3, v3, v1)
             \/ At(n, v3, v1, v2) /\ Mid(k, m1, v1, v2)
      PROVE  Under(s, z, cut, n) \cup Under(s, z, cut, k) = corners
  <2>1. CASE At(n, v1, v2, v3) /\ Mid(k, m2, v2, v3)
    <3>1. Under(s, z, cut, n) = {v1} /\ Under(s, z, cut, k) = {v2, v3}
      BY <1>4, <2>1
    <3>2. QED BY <3>1
  <2>2. CASE At(n, v2, v3, v1) /\ Mid(k, m3, v3, v1)
    <3>1. Under(s, z, cut, n) = {v2} /\ Under(s, z, cut, k) = {v3, v1}
      BY <1>4, <2>2
    <3>2. QED BY <3>1
  <2>3. CASE At(n, v3, v1, v2) /\ Mid(k, m1, v1, v2)
    <3>1. Under(s, z, cut, n) = {v3} /\ Under(s, z, cut, k) = {v1, v2}
      BY <1>4, <2>3
    <3>2. QED BY <3>1
  <2> HIDE DEF At, Mid
  <2>4. QED BY <1>9, <2>1, <2>2, <2>3
<1>5. CASE At(from, v1, v2, v3) \/ At(from, v2, v3, v1) \/ At(from, v3, v1, v2)
  <2> HIDE DEF At, Mid
  <2>1. QED BY <1>3, <1>5, <1>9
<1>6. CASE At(to, v1, v2, v3) \/ At(to, v2, v3, v1) \/ At(to, v3, v1, v2)
  <2> HIDE DEF At, Mid
  <2>1. Under(s, z, cut, to) \cup Under(s, z, cut, from) = corners
    BY <1>3, <1>6, <1>9
  <2>2. QED BY <2>1
<1>7. CASE /\ Mid(from, m1, v1, v2) \/ Mid(from, m2, v2, v3) \/ Mid(from, m3, v3, v1)
           /\ Mid(to, m1, v1, v2) \/ Mid(to, m2, v2, v3) \/ Mid(to, m3, v3, v1)
  BY <1>4, <1>7
<1>8. QED
  <2> HIDE DEF At, Mid
  <2>1. QED BY <1>2, <1>5, <1>6, <1>7

CornersAt(s, f) == {s.facets[f][1], s.facets[f][2], s.facets[f][3]}

\* The closing edge of a facet stands for all its corners.
LEMMA CleftSpans ==
  ASSUME NEW s, NEW z, Given(s, z), NEW cut, Classified(s, z, cut),
         NEW f \in 1 .. s.nb_of_static_facets, NEW sides,
         SideCloses(cut, sides.emerged, sides.first_emerged, "emerged"),
         SideCloses(cut, sides.immersed, sides.first_immersed, "immersed"),
         NEW from, NEW to, Cleft(cut, sides, from, to, Pieces(s, cut, f))
  PROVE  Under(s, z, cut, from) \cup Under(s, z, cut, to) = CornersAt(s, f)
<1> DEFINE m == cut.mesh
           P == Pieces(s, cut, f)
           v1 == s.facets[f][1]
           v2 == s.facets[f][2]
           v3 == s.facets[f][3]
           corners == {v1, v2, v3}
           Mi(i) == Middle(cut, s.oriented_edges_per_facet[f][i].edge)
<1>1. /\ from # to /\ cut.immersions[from] = 0 /\ cut.immersions[to] = 0
      /\ RunsRound(m, sides.emerged, sides.first_emerged, from, to)
      /\ RunsRound(m, sides.immersed, sides.first_immersed, to, from)
      /\ AllAbove(cut, Dirs(m, sides.emerged)) /\ AllBelow(cut, Dirs(m, sides.immersed))
      /\ Dirs(m, sides.emerged) \cup Dirs(m, sides.immersed) = P
  BY DEF Cleft
<1>2. ASSUME NEW L, NEW k, NEW side, SideCloses(cut, L, k, side), NEW a, NEW b,
             RunsRound(m, L, k, a, b)
      PROVE  /\ \E d \in Dirs(m, L) : a = d[2]
             /\ \E d \in Dirs(m, L) : b = d[1]
  <2>1. L \in Seq(Along(1 .. Len(m.edges))) /\ k \in 0 .. Len(L) - 1
    BY <1>2 DEF SideCloses
  <2>2. Len(L) \in Nat
    BY <2>1, LenProperties
  <2> DEFINE j == IF k = 0 THEN Len(L) ELSE k
  <2>3. k + 1 \in 1 .. Len(L) /\ j \in 1 .. Len(L)
    BY <2>1, <2>2
  <2>4. first_vertex_of_oriented_edge(m, L[k + 1]) = b /\ second_vertex_of_oriented_edge(m, L[j]) = a
    BY <1>2 DEF RunsRound
  <2> HIDE DEF j, m
  <2>5. /\ <<first_vertex_of_oriented_edge(m, L[k + 1]),
             second_vertex_of_oriented_edge(m, L[k + 1])>> \in Dirs(m, L)
        /\ <<first_vertex_of_oriented_edge(m, L[j]),
             second_vertex_of_oriented_edge(m, L[j])>> \in Dirs(m, L)
    BY <2>3 DEF Dirs
  <2>6. QED BY <2>4, <2>5
<1>3. MeetsBoth(cut, P, from) /\ MeetsBoth(cut, P, to)
  <2> HIDE DEF m, P
  <2>1. /\ \E d \in Dirs(m, sides.emerged) : from = d[2]
        /\ \E d \in Dirs(m, sides.emerged) : to = d[1]
    BY <1>1, <1>2
  <2>2. /\ \E d \in Dirs(m, sides.immersed) : to = d[2]
        /\ \E d \in Dirs(m, sides.immersed) : from = d[1]
    BY <1>1, <1>2
  <2>3. Dirs(m, sides.emerged) \subseteq P /\ Dirs(m, sides.immersed) \subseteq P
    BY <1>1
  <2>4. /\ \A d \in Dirs(m, sides.emerged) : Above(cut, d[1], d[2])
        /\ \A d \in Dirs(m, sides.immersed) : Below(cut, d[1], d[2])
    BY <1>1 DEF AllAbove, AllBelow
  <2>5. QED BY <2>1, <2>2, <2>3, <2>4 DEF MeetsBoth
<1>4. /\ v1 \in 1 .. s.nb_of_static_nodes /\ v2 \in 1 .. s.nb_of_static_nodes
      /\ v3 \in 1 .. s.nb_of_static_nodes /\ v1 # v2 /\ v2 # v3 /\ v3 # v1
  BY HullTriangle
<1>5. /\ cut.immersions[v1] \in Int /\ cut.immersions[v2] \in Int /\ cut.immersions[v3] \in Int
  <2>1. \A i \in 1 .. s.nb_of_static_nodes : cut.immersions[i] = z[i] /\ z[i] \in Int
    BY GivenParts DEF Classified
  <2>2. QED BY <1>4, <2>1
<1>6. /\ Under(s, z, cut, v1) = {v1} /\ Under(s, z, cut, v2) = {v2}
      /\ Under(s, z, cut, v3) = {v3}
  BY <1>4, UnderCorner
<1>7. 1 % 3 = 1 /\ 2 % 3 = 2 /\ 3 % 3 = 0 /\ 1 + 1 = 2 /\ 2 + 1 = 3 /\ 0 + 1 = 1
      /\ 1 \in 1 .. 3 /\ 2 \in 1 .. 3 /\ 3 \in 1 .. 3
  OBVIOUS
<1>8. ASSUME NEW i \in 1 .. 3, NEW v, v = s.facets[f][i], NEW w, w = s.facets[f][(i % 3) + 1]
      PROVE  MiddleOf(s, z, cut, v, w, Mi(i), corners)
  <2> DEFINE e == s.oriented_edges_per_facet[f][i].edge
  <2>1. f \in 1 .. Len(s.facets)
    BY GivenParts
  <2>2. IsSide(s, f, i, v, w, e)
    BY <1>8, <2>1 DEF IsSide
  <2> HIDE DEF e
  <2>3. /\ e \in 1 .. s.nb_of_static_edges /\ Between(s, e, v, w)
        /\ Crossing(cut, v, w) <=> Crosses(s, z, e)
        /\ Crossing(cut, v, w) => Middle(cut, e) \notin 1 .. s.nb_of_static_nodes
    BY <2>2, SideOfFacet
  <2>4. Crosses(s, z, e) => Under(s, z, cut, Middle(cut, e)) = {s.edges[e][1], s.edges[e][2]}
    BY <2>3, UnderMiddle
  <2>5. Crossing(cut, v, w) => Under(s, z, cut, Middle(cut, e)) = {v, w}
    BY <2>3, <2>4 DEF Between
  <2>6. corners \subseteq 1 .. s.nb_of_static_nodes
    BY <1>4
  <2> HIDE DEF corners, v1, v2, v3
  <2>7. MiddleOf(s, z, cut, v, w, Middle(cut, e), corners)
    BY <2>3, <2>5, <2>6 DEF MiddleOf
  <2>8. QED BY <2>7 DEF e
<1>9. /\ MiddleOf(s, z, cut, v1, v2, Mi(1), corners)
      /\ MiddleOf(s, z, cut, v2, v3, Mi(2), corners)
      /\ MiddleOf(s, z, cut, v3, v1, Mi(3), corners)
  BY <1>7, <1>8
<1>10. P = PieceOf(cut, v1, v2, Mi(1)) \cup PieceOf(cut, v2, v3, Mi(2))
             \cup PieceOf(cut, v3, v1, Mi(3))
  <2>1. P = Piece(s, cut, f, 1) \cup Piece(s, cut, f, 2) \cup Piece(s, cut, f, 3)
    <3>1. 1 .. 3 = {1, 2, 3}
      OBVIOUS
    <3>2. QED BY <3>1 DEF Pieces
  <2>2. QED BY <1>7, <2>1 DEF Piece
<1>13. corners = {v1, v2, v3}
  OBVIOUS
<1> HIDE DEF P, v1, v2, v3, Mi, corners
<1>11. Under(s, z, cut, from) \cup Under(s, z, cut, to) = corners
  BY <1>1, <1>3, <1>4, <1>5, <1>6, <1>9, <1>10, <1>13, ClosingSpans, SMTT(40)
<1>12. QED BY <1>11 DEF CornersAt, corners, v1, v2, v3

\* No two facets have the same corners.
FacetsApart(s) == \A f, g \in 1 .. Len(s.facets) : f # g => CornersAt(s, f) # CornersAt(s, g)
Simple(s) == Apart(s, 1 .. Len(s.edges)) /\ FacetsApart(s)

SpanOf(s, z, c, e) == Under(s, z, c, c.mesh.edges[e][1]) \cup Under(s, z, c, c.mesh.edges[e][2])

\* An edge of the hull, or the closing edge of one of the first facets.
Placed(s, z, k, c, e) ==
  e \in 1 .. s.nb_of_static_edges \/ \E g \in 1 .. k : SpanOf(s, z, c, e) = CornersAt(s, g)

SurfaceApart(s, z, k, c) ==
  (\A e \in c.surface_edges : Placed(s, z, k, c, e)) /\ Apart(c.mesh, c.surface_edges)

\* Edges with the same ends have the same corners.
LEMMA SameEnds ==
  ASSUME NEW s, NEW z, NEW c, NEW e, NEW d, Ends(c.mesh, e) = Ends(c.mesh, d)
  PROVE  SpanOf(s, z, c, e) = SpanOf(s, z, c, d)
<1> DEFINE a == c.mesh.edges[e][1]
           b == c.mesh.edges[e][2]
           p == c.mesh.edges[d][1]
           q == c.mesh.edges[d][2]
<1>1. {a, b} = {p, q}
  BY DEF Ends
<1>2. SpanOf(s, z, c, e) = Under(s, z, c, a) \cup Under(s, z, c, b)
      /\ SpanOf(s, z, c, d) = Under(s, z, c, p) \cup Under(s, z, c, q)
  BY DEF SpanOf
<1> HIDE DEF a, b, p, q
<1>3. (a = p /\ b = q) \/ (a = q /\ b = p)
  BY <1>1
<1>4. CASE a = p /\ b = q
  BY <1>2, <1>4
<1>5. CASE a = q /\ b = p
  BY <1>2, <1>5
<1>6. QED BY <1>3, <1>4, <1>5

\* An edge of the hull has two of a facet's corners at most.
LEMMA StaticSpan ==
  ASSUME NEW s, NEW z, Given(s, z), NEW c, Classified(s, z, c),
         NEW e \in 1 .. s.nb_of_static_edges
  PROVE  /\ c.mesh.edges[e] = s.edges[e] /\ Ends(c.mesh, e) = Ends(s, e)
         /\ \A g \in 1 .. s.nb_of_static_facets : SpanOf(s, z, c, e) # CornersAt(s, g)
<1>1. c.mesh.edges[e] = s.edges[e]
  BY GivenParts DEF Classified, Grown
<1>2. s.edges[e][1] \in 1 .. s.nb_of_static_nodes /\ s.edges[e][2] \in 1 .. s.nb_of_static_nodes
  BY GivenParts
<1> DEFINE a == s.edges[e][1]
           b == s.edges[e][2]
<1>3. SpanOf(s, z, c, e) = {a} \cup {b}
  <2>1. Under(s, z, c, a) = {a} /\ Under(s, z, c, b) = {b}
    BY <1>2, UnderCorner
  <2>2. SpanOf(s, z, c, e) = Under(s, z, c, a) \cup Under(s, z, c, b)
    BY <1>1 DEF SpanOf
  <2> HIDE DEF a, b
  <2>3. QED BY <2>1, <2>2
<1> HIDE DEF a, b
<1>4. ASSUME NEW g \in 1 .. s.nb_of_static_facets PROVE {a} \cup {b} # CornersAt(s, g)
  <2>1. s.facets[g][1] # s.facets[g][2] /\ s.facets[g][2] # s.facets[g][3]
        /\ s.facets[g][3] # s.facets[g][1]
    BY HullTriangle
  <2>2. QED BY <2>1 DEF CornersAt
<1>5. QED BY <1>1, <1>3, <1>4 DEF Ends

\* What edges stand for stays when the next facet is dealt with.
LEMMA SpansStay ==
  ASSUME NEW s, NEW z, Given(s, z), NEW cut, Classified(s, z, cut), NEW r, KeepsSplits(cut, r)
  PROVE  /\ \A n : Under(s, z, r, n) = Under(s, z, cut, n)
         /\ \A e \in 1 .. Len(cut.mesh.edges) :
              r.mesh.edges[e] = cut.mesh.edges[e] /\ SpanOf(s, z, r, e) = SpanOf(s, z, cut, e)
<1>1. ASSUME NEW e \in 1 .. s.nb_of_static_edges, Crosses(s, z, e)
      PROVE  Middle(r, e) = Middle(cut, e)
  <2>1. IsSplit(s, z, cut, e)
    BY <1>1 DEF Classified
  <2>2. s.nb_of_static_nodes \in Nat
    BY GivenParts
  <2>3. QED BY <2>1, <2>2, SplitsStay
<1>2. \A n : Under(s, z, r, n) = Under(s, z, cut, n)
  BY <1>1 DEF Under
<1>3. \A e \in 1 .. Len(cut.mesh.edges) : r.mesh.edges[e] = cut.mesh.edges[e]
  BY DEF KeepsSplits, Grown
<1>4. QED BY <1>2, <1>3 DEF SpanOf

\* The one edge that may be new, a closing edge.
IsClosing(s, z, f, r, e) ==
  r.mesh.edges[e][1] # r.mesh.edges[e][2] /\ SpanOf(s, z, r, e) = CornersAt(s, f)

LEMMA DealtSurface ==
  ASSUME NEW s, NEW z, Given(s, z), NEW cut, Classified(s, z, cut),
         NEW f \in 1 .. s.nb_of_static_facets, NEW r, Dealt(s, cut, f, r)
  PROVE  \/ r.surface_edges \subseteq cut.surface_edges \cup (1 .. s.nb_of_static_edges)
         \/ \E e : /\ r.surface_edges
                        \subseteq cut.surface_edges \cup (1 .. s.nb_of_static_edges) \cup {e}
                   /\ IsClosing(s, z, f, r, e)
<1> DEFINE sides == Parts(cut, f)
           old == cut.surface_edges \cup (1 .. s.nb_of_static_edges)
<1>1. cut.mesh.nb_of_static_edges = s.nb_of_static_edges
  BY DEF Classified, Grown
<1>2. CASE KeptWhole(cut, f, r, "immersed") \/ KeptWhole(cut, f, r, "emerged")
  BY <1>1, <1>2 DEF KeptWhole
<1>3. CASE ~(Len(sides.emerged) <= 1) /\ ~(Len(sides.immersed) <= 1) /\ Replaced(cut, r, sides)
  <2>1. /\ Parted(cut, sides, s.facets[f][1], s.facets[f][2], s.facets[f][3])
        /\ Cleaved(cut, sides, s.facets[f][1], s.facets[f][2], s.facets[f][3], Pieces(s, cut, f))
    BY FacetOfTheHullIsParted DEF Parts
  <2> HIDE DEF sides
  <2>2. /\ SideCloses(cut, sides.emerged, sides.first_emerged, "emerged")
        /\ SideCloses(cut, sides.immersed, sides.first_immersed, "immersed")
    BY <1>3, <2>1 DEF Parted
  <2>3. PICK a, b, c, d, o, p, e :
          /\ a = first_vertex_of_oriented_edge(cut.mesh, sides.immersed[sides.first_immersed + 1])
          /\ b = first_vertex_of_oriented_edge(cut.mesh, sides.emerged[sides.first_emerged + 1])
          /\ Grown(cut.mesh, c) /\ EdgesExist(c) /\ Runs(c, o, a, b)
          /\ Grown(cut.mesh, d) /\ EdgesExist(d) /\ Runs(d, p, b, a)
          /\ r.mesh.facets[Len(cut.mesh.facets) + 1]
               = NewFacet(c, InsertAt(sides.emerged, sides.first_emerged + 1, o))
          /\ r.mesh.facets[Len(cut.mesh.facets) + 2]
               = NewFacet(d, InsertAt(sides.immersed, sides.first_immersed + 1, p))
          /\ Len(r.mesh.facets) = Len(cut.mesh.facets) + 2
          /\ r.emerged = Append(cut.emerged, Len(cut.mesh.facets) + 1)
          /\ r.immersed = Append(cut.immersed, Len(cut.mesh.facets) + 2)
          /\ a # b => /\ e \in r.surface_edges /\ r.mesh.edges[e][1] = a
                      /\ r.mesh.edges[e][2] = b
          /\ r.surface_edges \subseteq cut.surface_edges \cup (1 .. cut.mesh.nb_of_static_edges)
                                        \cup IF a = b THEN {} ELSE {e}
    BY <1>3 DEF Replaced
  <2>4. CASE a = b
    BY <1>1, <2>3, <2>4
  <2>5. CASE a # b
    <3>1. r.surface_edges \subseteq old \cup {e}
      BY <1>1, <2>3, <2>5
    <3>2. ~Flat(cut, sides, s.facets[f][1], s.facets[f][2], s.facets[f][3])
      <4>1. Flat(cut, sides, s.facets[f][1], s.facets[f][2], s.facets[f][3])
              => /\ sides.first_immersed + 1 = 1 /\ sides.first_emerged + 1 = 1
                 /\ sides.emerged = sides.immersed
        BY DEF Flat
      <4>2. QED BY <2>3, <2>5, <4>1
    <3>3. PICK from, to : Cleft(cut, sides, from, to, Pieces(s, cut, f))
      BY <1>3, <2>1, <3>2 DEF Cleaved
    <3>4. a = from /\ b = to /\ from # to
      BY <2>3, <3>3 DEF Cleft, RunsRound
    <3>5. Under(s, z, cut, from) \cup Under(s, z, cut, to) = CornersAt(s, f)
      BY <2>2, <3>3, CleftSpans
    <3>6. SpanOf(s, z, r, e) = CornersAt(s, f)
      <4>1. \A n : Under(s, z, r, n) = Under(s, z, cut, n)
        BY SpansStay DEF Dealt
      <4>2. QED BY <2>3, <2>5, <3>4, <3>5, <4>1 DEF SpanOf
    <3>7. QED BY <2>3, <2>5, <3>1, <3>6 DEF IsClosing
  <2>6. QED BY <2>4, <2>5
<1>4. QED BY <1>2, <1>3 DEF Dealt

\* Before the first facet there are no edges on the surface.
LEMMA ApartFirst ==
  ASSUME NEW s, NEW z, NEW c, c.surface_edges = {}
  PROVE  SurfaceApart(s, z, 0, c)
BY DEF SurfaceApart, Apart

\* After the next facet.
LEMMA ApartNext ==
  ASSUME NEW s, NEW z, Given(s, z), Simple(s), NEW k \in Nat, k + 1 \in 1 .. s.nb_of_static_facets,
         NEW cut, Classified(s, z, cut), SurfaceApart(s, z, k, cut),
         NEW r, Classified(s, z, r), Dealt(s, cut, k + 1, r)
  PROVE  SurfaceApart(s, z, k + 1, r)
<1> DEFINE static == 1 .. s.nb_of_static_edges
           old == cut.surface_edges \cup static
<1>1. /\ s.nb_of_static_edges \in Nat /\ Len(s.edges) = s.nb_of_static_edges
      /\ s.nb_of_static_facets \in Nat /\ Len(s.facets) = s.nb_of_static_facets
  BY GivenParts
<1>2. /\ \A e \in 1 .. Len(cut.mesh.edges) :
           r.mesh.edges[e] = cut.mesh.edges[e] /\ SpanOf(s, z, r, e) = SpanOf(s, z, cut, e)
      /\ cut.surface_edges \subseteq 1 .. Len(cut.mesh.edges)
  <2>1. KeepsSplits(cut, r)
    BY DEF Dealt
  <2>2. cut.surface_edges \subseteq 1 .. Len(cut.mesh.edges)
    BY DEF Classified
  <2>3. QED BY <2>1, <2>2, SpansStay
<1>3. \A e \in static :
        /\ r.mesh.edges[e] = s.edges[e] /\ Ends(r.mesh, e) = Ends(s, e)
        /\ \A g \in 1 .. s.nb_of_static_facets : SpanOf(s, z, r, e) # CornersAt(s, g)
  BY StaticSpan
<1>4. \A e \in old : e \in static \/ \E g \in 1 .. k : SpanOf(s, z, r, e) = CornersAt(s, g)
  BY <1>2 DEF SurfaceApart, Placed
<1>5. k + 1 \in 1 .. Len(s.facets) /\ 1 .. k \subseteq 1 .. Len(s.facets)
      /\ 1 .. k \subseteq 1 .. k + 1 /\ k + 1 \in 1 .. k + 1 /\ k + 1 \notin 1 .. k
  BY <1>1
<1>6. \A g \in 1 .. k : CornersAt(s, g) # CornersAt(s, k + 1)
  BY <1>5 DEF Simple, FacetsApart
<1> HIDE DEF static
<1>7. ASSUME NEW e \in old, NEW d \in old, e # d PROVE Ends(r.mesh, e) # Ends(r.mesh, d)
  <2>1. CASE e \in static /\ d \in static
    BY <1>1, <1>3, <1>7, <2>1 DEF Simple, Apart, static
  <2>2. CASE e \in cut.surface_edges /\ d \in cut.surface_edges
    <3>1. Ends(cut.mesh, e) # Ends(cut.mesh, d)
      BY <1>7, <2>2 DEF SurfaceApart, Apart
    <3>2. QED BY <1>2, <2>2, <3>1 DEF Ends
  <2>3. ASSUME NEW x \in static, NEW y \in old, y \notin static
        PROVE  Ends(r.mesh, x) # Ends(r.mesh, y)
    <3>1. SpanOf(s, z, r, x) # SpanOf(s, z, r, y)
      BY <1>1, <1>3, <1>4, <1>5, <2>3
    <3>2. QED BY <3>1, SameEnds
  <2>4. QED BY <2>1, <2>2, <2>3
<1>8. ASSUME NEW e \in old PROVE r.mesh.edges[e][1] # r.mesh.edges[e][2]
  BY <1>1, <1>2, <1>3 DEF Simple, Apart, SurfaceApart, static
<1>9. \A e \in old : Placed(s, z, k + 1, r, e)
  BY <1>4, <1>5 DEF Placed, static
<1> HIDE DEF old
<1>10. CASE r.surface_edges \subseteq old
  BY <1>7, <1>8, <1>9, <1>10 DEF SurfaceApart, Apart
<1>11. ASSUME NEW n, r.surface_edges \subseteq old \cup {n}, IsClosing(s, z, k + 1, r, n)
       PROVE  SurfaceApart(s, z, k + 1, r)
  <2>1. r.mesh.edges[n][1] # r.mesh.edges[n][2] /\ Placed(s, z, k + 1, r, n)
    BY <1>5, <1>11 DEF IsClosing, Placed
  <2>2. ASSUME NEW e \in old PROVE Ends(r.mesh, e) # Ends(r.mesh, n)
    <3>1. SpanOf(s, z, r, e) # SpanOf(s, z, r, n)
      BY <1>1, <1>3, <1>4, <1>5, <1>6, <1>11 DEF IsClosing, old
    <3>2. QED BY <3>1, SameEnds
  <2>3. QED BY <1>7, <1>8, <1>9, <1>11, <2>1, <2>2 DEF SurfaceApart, Apart
<1>12. QED BY <1>10, <1>11, DealtSurface DEF old, static

-----------------------------------------------------------------------------
(* After all facets *)

\* While the facets are dealt with one after the other: the facets listed stand for the
\* facets of the hull up to number k, with which they balance, and what they have on the
\* surface is known.
Listed(c) == ToSet(c.emerged) \cup ToSet(c.immersed)
Target(c) == Counted(c, ToSet(c.emerged), ToSet(c.immersed))
Owing(s, c, k, x, y) == {f \in 1 .. k : <<x, y>> \in Pieces(s, c, f)}
Due(s, c, k, x, y) == Cardinality(Owing(s, c, k, x, y))

Progress(s, z, k, c) ==
  /\ Classified(s, z, c)
  /\ \A g \in Listed(c) : SurfaceKnown(c, g)
  /\ Listed(c) \subseteq 1 .. k \cup (s.nb_of_static_facets + 1 .. Len(c.mesh.facets))
  /\ \A x, y : Count(c.mesh, Target(c), x, y) + Due(s, c, k, y, x)
                  = Count(c.mesh, Target(c), y, x) + Due(s, c, k, x, y)
  /\ Simple(s) => SurfaceApart(s, z, k, c)

\* Nothing is listed and nothing due before the first facet.
LEMMA ProgressFirst ==
  ASSUME NEW s, NEW z, Given(s, z), NEW c, SplitUpTo(s, z, s.nb_of_static_edges, c)
  PROVE  Progress(s, z, 0, c)
<1>1. Classified(s, z, c)
  BY ClassifiedFirst
<1>2. Listed(c) = {} /\ Target(c) = {}
  <2>1. c.emerged = <<>> /\ c.immersed = <<>>
    BY DEF SplitUpTo
  <2>2. ToSet(<<>>) = {}
    BY DEF ToSet
  <2>3. ToSet(c.emerged) = {} /\ ToSet(c.immersed) = {}
    BY <2>1, <2>2
  <2>4. QED BY <2>3 DEF Listed, Target, Counted
<1>3. ASSUME NEW x, NEW y PROVE Count(c.mesh, Target(c), x, y) = 0 /\ Due(s, c, 0, x, y) = 0
  <2>1. HaveSide(c.mesh, Target(c), x, y) = {}
    BY <1>2 DEF HaveSide
  <2>2. Owing(s, c, 0, x, y) = {}
    BY DEF Owing
  <2>3. QED BY <2>1, <2>2, FS_EmptySet DEF Count, Due
<1>4. \A x, y : Count(c.mesh, Target(c), x, y) + Due(s, c, 0, y, x)
                  = Count(c.mesh, Target(c), y, x) + Due(s, c, 0, x, y)
  BY <1>3
<1>5. SurfaceApart(s, z, 0, c)
  BY ApartFirst DEF SplitUpTo
<1>6. QED BY <1>1, <1>2, <1>4, <1>5 DEF Progress

\* The pieces of a facet stay the same.
LEMMA PiecesStay ==
  ASSUME NEW s, NEW z, Given(s, z), NEW cut, Classified(s, z, cut), NEW r,
         KeepsSplits(cut, r), NEW f \in 1 .. s.nb_of_static_facets
  PROVE  Pieces(s, r, f) = Pieces(s, cut, f)
<1>1. ASSUME NEW i \in 1 .. 3 PROVE Piece(s, r, f, i) = Piece(s, cut, f, i)
  <2> DEFINE v == s.facets[f][i]
             w == s.facets[f][(i % 3) + 1]
             e == s.oriented_edges_per_facet[f][i].edge
  <2>1. IsSide(s, f, i, v, w, e)
    BY GivenParts DEF IsSide
  <2>2. /\ Piece(s, r, f, i) = PieceOf(r, v, w, Middle(r, e))
        /\ Piece(s, cut, f, i) = PieceOf(cut, v, w, Middle(cut, e))
    BY DEF Piece
  <2> HIDE DEF v, w, e
  <2>3. e \in 1 .. s.nb_of_static_edges /\ (Crossing(cut, v, w) <=> Crosses(s, z, e))
    BY <2>1, SideOfFacet
  <2>4. Crossing(r, v, w) <=> Crossing(cut, v, w)
    BY DEF KeepsSplits, Crossing
  <2>5. Crossing(cut, v, w) => Middle(r, e) = Middle(cut, e)
    <3>1. Crossing(cut, v, w) => IsSplit(s, z, cut, e)
      BY <2>3 DEF Classified
    <3>2. s.nb_of_static_nodes \in Nat
      BY GivenParts
    <3>3. QED BY <3>1, <3>2, SplitsStay
  <2>6. QED BY <2>2, <2>4, <2>5 DEF PieceOf
<1>2. QED BY <1>1 DEF Pieces

\* What is known of a facet stays known.
LEMMA KnownStays ==
  ASSUME NEW s, NEW z, NEW cut, Classified(s, z, cut), NEW r, KeepsSplits(cut, r),
         cut.surface_edges \subseteq r.surface_edges,
         NEW g \in 1 .. Len(cut.mesh.facets)
  PROVE  /\ SurfaceKnown(cut, g) => SurfaceKnown(r, g)
         /\ Flush(r, g) <=> Flush(cut, g)
         /\ r.mesh.facets[g] = cut.mesh.facets[g]
<1>1. /\ r.mesh.facets[g] = cut.mesh.facets[g] /\ r.immersions = cut.immersions
      /\ \A e \in cut.surface_edges : r.mesh.edges[e] = cut.mesh.edges[e]
  BY DEF KeepsSplits, Grown, Classified
<1>2. \A x, y : \A e \in cut.surface_edges :
        Between(r.mesh, e, x, y) <=> Between(cut.mesh, e, x, y)
  BY <1>1 DEF Between
<1>3. SurfaceKnown(cut, g) => SurfaceKnown(r, g)
  BY <1>1, <1>2 DEF SurfaceKnown
<1>4. Flush(r, g) <=> Flush(cut, g)
  BY <1>1 DEF Flush
<1>5. QED BY <1>1, <1>3, <1>4

\* One more facet makes its pieces due.
LEMMA OneMoreDue ==
  ASSUME NEW s, NEW c, NEW k \in Nat, NEW x, NEW y
  PROVE  /\ Due(s, c, k + 1, x, y) = Due(s, c, k, x, y) + One(Pieces(s, c, k + 1), x, y)
         /\ Due(s, c, k, x, y) \in Nat
<1> DEFINE A == Owing(s, c, k, x, y)
           B == Owing(s, c, k + 1, x, y)
           P == Pieces(s, c, k + 1)
<1>1. 1 .. k + 1 = 1 .. k \cup {k + 1} /\ k + 1 \notin 1 .. k
  OBVIOUS
<1>2. A \in SUBSET (1 .. k) /\ k + 1 \notin A
      /\ B = IF <<x, y>> \in P THEN A \cup {k + 1} ELSE A
  BY <1>1 DEF Owing
<1> HIDE DEF A, B
<1>3. IsFiniteSet(A) /\ Cardinality(A) \in Nat
  <2>1. IsFiniteSet(1 .. k)
    BY FS_Interval
  <2>2. QED BY <1>2, <2>1, FS_Subset, FS_CardinalityType
<1>4. Cardinality(A \cup {k + 1}) = Cardinality(A) + 1
  BY <1>2, <1>3, FS_AddElement
<1>5. Cardinality(B) = Cardinality(A) + One(P, x, y)
  <2>1. CASE <<x, y>> \in P
    BY <1>2, <1>4, <2>1 DEF One
  <2>2. CASE <<x, y>> \notin P
    <3>1. B = A /\ One(P, x, y) = 0
      BY <1>2, <2>2 DEF One
    <3>2. QED BY <1>3, <3>1
  <2>3. QED BY <2>1, <2>2
<1>6. QED BY <1>3, <1>5 DEF Due, A, B

\* What is due stays due.
LEMMA DueStays ==
  ASSUME NEW s, NEW z, Given(s, z), NEW cut, Classified(s, z, cut), NEW r,
         KeepsSplits(cut, r), NEW k \in 0 .. s.nb_of_static_facets, NEW x, NEW y
  PROVE  Due(s, r, k, x, y) = Due(s, cut, k, x, y)
<1>1. s.nb_of_static_facets \in Nat
  BY GivenParts
<1>2. \A f \in 1 .. k : f \in 1 .. s.nb_of_static_facets
  BY <1>1
<1>3. \A f \in 1 .. k : Pieces(s, r, f) = Pieces(s, cut, f)
  BY <1>2, PiecesStay
<1>4. Owing(s, r, k, x, y) = Owing(s, cut, k, x, y)
  BY <1>3 DEF Owing
<1>5. QED BY <1>4 DEF Due

\* After the next facet.
LEMMA ProgressNext ==
  ASSUME NEW s, NEW z, Given(s, z), NEW k \in Nat, k + 1 \in 1 .. s.nb_of_static_facets,
         NEW cut, Progress(s, z, k, cut), NEW r, Classified(s, z, r), Dealt(s, cut, k + 1, r)
  PROVE  Progress(s, z, k + 1, r)
<1> DEFINE n == s.nb_of_static_facets
           f == k + 1
           P == Pieces(s, cut, f)
           nc == Len(cut.mesh.facets)
           nr == Len(r.mesh.facets)
<1>1. /\ Classified(s, z, cut) /\ KeepsSplits(cut, r)
      /\ cut.surface_edges \subseteq r.surface_edges
      /\ \A g \in Listed(cut) : SurfaceKnown(cut, g)
      /\ Listed(cut) \subseteq 1 .. k \cup (n + 1 .. nc)
  BY DEF Progress, Dealt
<1>2. /\ n \in Nat /\ nc \in Nat /\ nr \in Nat /\ n <= nc /\ nc <= nr
  <2>1. n \in Nat /\ Len(s.facets) = n
    BY GivenParts
  <2>2. Grown(s, cut.mesh) /\ Grown(cut.mesh, r.mesh) /\ nc \in Nat /\ nr \in Nat
    BY <1>1, ClassifiedParts DEF KeepsSplits
  <2>3. QED BY <2>1, <2>2 DEF Grown
<1>3. Added(cut, f, r, P)
  BY <1>1, DealtIsAdded
<1>4. PICK E, I :
        /\ E \cup I \subseteq {f} \cup (nc + 1 .. nr)
        /\ ToSet(r.emerged) = ToSet(cut.emerged) \cup E
        /\ ToSet(r.immersed) = ToSet(cut.immersed) \cup I
        /\ Balances(r.mesh, Counted(r, E, I), P)
        /\ \A g \in E \cup I : SurfaceKnown(r, g)
  BY <1>3 DEF Added
<1> DEFINE N == Counted(r, E, I)
           T == Target(cut)
<1>5. Listed(cut) \subseteq 1 .. nc
  BY <1>1, <1>2
<1>6. \A g \in Listed(cut) :
        /\ SurfaceKnown(r, g) /\ (Flush(r, g) <=> Flush(cut, g))
        /\ r.mesh.facets[g] = cut.mesh.facets[g]
  <2> SUFFICES ASSUME NEW g \in Listed(cut)
               PROVE  /\ SurfaceKnown(r, g) /\ (Flush(r, g) <=> Flush(cut, g))
                      /\ r.mesh.facets[g] = cut.mesh.facets[g]
    OBVIOUS
  <2>1. g \in 1 .. nc /\ SurfaceKnown(cut, g)
    BY <1>1, <1>5
  <2>2. QED BY <1>1, <2>1, KnownStays
<1>7. Listed(r) = Listed(cut) \cup E \cup I
  BY <1>4 DEF Listed
<1>8. \A g \in Listed(r) : SurfaceKnown(r, g)
  BY <1>4, <1>6, <1>7
<1>9. Listed(r) \subseteq 1 .. f \cup (n + 1 .. nr)
  <2>1. 1 .. k \subseteq 1 .. f /\ f \in 1 .. f /\ n + 1 .. nc \subseteq n + 1 .. nr
        /\ nc + 1 .. nr \subseteq n + 1 .. nr
    BY <1>2
  <2> HIDE DEF f, n, nc, nr
  <2>2. QED BY <1>1, <1>4, <1>7, <2>1
<1>10. Target(r) = T \cup N
  <2>1. \A g \in ToSet(cut.emerged) : Flush(r, g) <=> Flush(cut, g)
    BY <1>6 DEF Listed
  <2>2. Target(r) = (ToSet(cut.immersed) \cup I)
                      \cup {g \in ToSet(cut.emerged) \cup E : ~Flush(r, g)}
    BY <1>4 DEF Target, Counted
  <2>3. T = ToSet(cut.immersed) \cup {g \in ToSet(cut.emerged) : ~Flush(cut, g)}
    BY DEF Target, Counted
  <2>4. N = I \cup {g \in E : ~Flush(r, g)}
    BY DEF Counted
  <2> HIDE DEF T, N
  <2>5. QED BY <2>1, <2>2, <2>3, <2>4
<1>11. T \subseteq Listed(cut) /\ N \subseteq E \cup I
  BY DEF Target, Counted, Listed
<1>12. T \cap N = {}
  <2>1. \A g \in 1 .. k \cup (n + 1 .. nc) : g \notin {f} \cup (nc + 1 .. nr)
    BY <1>2
  <2> HIDE DEF f, n, nc, nr, N, T
  <2>2. QED BY <1>1, <1>4, <1>11, <2>1
<1>13. IsFiniteSet(T) /\ IsFiniteSet(N)
  <2>1. T \in SUBSET (1 .. nc) /\ N \in SUBSET (1 .. nr)
    <3>1. {f} \cup (nc + 1 .. nr) \subseteq 1 .. nr
      BY <1>2
    <3> HIDE DEF f, nc, nr, N, T
    <3>2. QED BY <1>4, <1>5, <1>11, <3>1
  <2>2. IsFiniteSet(1 .. nc) /\ IsFiniteSet(1 .. nr)
    <3>1. 1 \in Int /\ nc \in Int /\ nr \in Int
      BY <1>2
    <3> HIDE DEF nc, nr
    <3>2. QED BY <3>1, FS_Interval
  <2> HIDE DEF T, N, nc, nr
  <2>3. QED BY <2>1, <2>2, FS_Subset
<1> HIDE DEF T, N, n, nc, nr
<1>14. ASSUME NEW x, NEW y
       PROVE  Count(r.mesh, T, x, y) = Count(cut.mesh, T, x, y)
  <2>1. \A g \in T : r.mesh.facets[g] = cut.mesh.facets[g]
    BY <1>6, <1>11
  <2>2. HaveSide(r.mesh, T, x, y) = HaveSide(cut.mesh, T, x, y)
    BY <2>1 DEF HaveSide
  <2>3. QED BY <2>2 DEF Count
<1>15. ASSUME NEW x, NEW y
       PROVE  /\ Count(r.mesh, Target(r), x, y) = Count(cut.mesh, T, x, y) + Count(r.mesh, N, x, y)
              /\ Count(cut.mesh, T, x, y) \in Nat /\ Count(r.mesh, N, x, y) \in Nat
  <2>1. /\ Count(r.mesh, T \cup N, x, y) = Count(r.mesh, T, x, y) + Count(r.mesh, N, x, y)
        /\ Count(r.mesh, T, x, y) \in Nat /\ Count(r.mesh, N, x, y) \in Nat
    BY <1>12, <1>13, CountTogether
  <2>2. QED BY <1>10, <1>14, <2>1
<1>16. ASSUME NEW x, NEW y
       PROVE  /\ Due(s, r, f, x, y) = Due(s, cut, k, x, y) + One(P, x, y)
              /\ Due(s, cut, k, x, y) \in Nat /\ One(P, x, y) \in Nat
  <2>1. f \in 0 .. s.nb_of_static_facets
    BY <1>2 DEF n
  <2>2. Due(s, r, f, x, y) = Due(s, cut, f, x, y)
    BY <1>1, <2>1, DueStays
  <2>3. /\ Due(s, cut, f, x, y) = Due(s, cut, k, x, y) + One(P, x, y)
        /\ Due(s, cut, k, x, y) \in Nat
    BY OneMoreDue
  <2>4. One(P, x, y) \in Nat
    BY DEF One
  <2>5. QED BY <2>2, <2>3, <2>4
<1> HIDE DEF P, f
<1>17. ASSUME NEW x, NEW y
       PROVE  Count(r.mesh, Target(r), x, y) + Due(s, r, f, y, x)
                = Count(r.mesh, Target(r), y, x) + Due(s, r, f, x, y)
  <2>1. Count(cut.mesh, T, x, y) + Due(s, cut, k, y, x)
          = Count(cut.mesh, T, y, x) + Due(s, cut, k, x, y)
    BY DEF Progress, T
  <2>2. Count(r.mesh, N, x, y) + One(P, y, x) = Count(r.mesh, N, y, x) + One(P, x, y)
    BY <1>4 DEF Balances, N
  <2>3. /\ Count(r.mesh, Target(r), x, y) = Count(cut.mesh, T, x, y) + Count(r.mesh, N, x, y)
        /\ Count(cut.mesh, T, x, y) \in Nat /\ Count(r.mesh, N, x, y) \in Nat
        /\ Count(r.mesh, Target(r), y, x) = Count(cut.mesh, T, y, x) + Count(r.mesh, N, y, x)
        /\ Count(cut.mesh, T, y, x) \in Nat /\ Count(r.mesh, N, y, x) \in Nat
    BY <1>15
  <2>4. /\ Due(s, r, f, x, y) = Due(s, cut, k, x, y) + One(P, x, y)
        /\ Due(s, cut, k, x, y) \in Nat /\ One(P, x, y) \in Nat
        /\ Due(s, r, f, y, x) = Due(s, cut, k, y, x) + One(P, y, x)
        /\ Due(s, cut, k, y, x) \in Nat /\ One(P, y, x) \in Nat
    BY <1>16
  <2>5. QED BY <2>1, <2>2, <2>3, <2>4
<1>19. Simple(s) => SurfaceApart(s, z, f, r)
  BY <1>1, ApartNext DEF Progress, f
<1>18. QED BY <1>8, <1>9, <1>17, <1>19 DEF Progress, f, n, nr

\* Each facet in turn is dealt with, from the first to the last.
LEMMA AllDealt ==
  ASSUME NEW s, NEW z, Given(s, z), NEW cut, SplitUpTo(s, z, s.nb_of_static_edges, cut)
  PROVE  Progress(s, z, s.nb_of_static_facets, classify_or_split(cut))
<1> DEFINE n == s.nb_of_static_facets
           a == AfterFacets(cut)
           T == {k \in 0 .. n : Progress(s, z, k, a[k])}
<1>1. n \in Nat /\ cut.mesh.nb_of_static_facets = n
      /\ cut.facet_crosses_free_surface = Flagged(s, z)
  BY GivenParts DEF SplitUpTo, Grown
<1>2. /\ classify_or_split(cut) = a[n] /\ a[0] = cut
      /\ \A k \in 1 .. n : a[k] = NextFacet(cut, k, a[k - 1])
  BY <1>1, FacetStepsAre
<1> HIDE DEF a
<1>3. ASSUME NEW k \in 0 .. n - 1, k \in T PROVE k + 1 \in T
  <2>1. k + 1 \in 1 .. n /\ k + 1 \in 0 .. n /\ (k + 1) - 1 = k /\ k \in Nat
    BY <1>1
  <2>2. a[k + 1] = NextFacet(cut, k + 1, a[k])
    BY <1>2, <2>1
  <2>3. Progress(s, z, k, a[k])
    BY <1>3
  <2>4. Classified(s, z, a[k])
    BY <2>3 DEF Progress
  <2>5. k + 1 \in 1 .. s.nb_of_static_facets
    BY <2>1
  <2>6. Classified(s, z, a[k + 1]) /\ Dealt(s, a[k], k + 1, a[k + 1])
    <3>1. CASE k + 1 \in Flagged(s, z)
      <4>1. a[k + 1] = split_partially_immersed_facet_and_classify(a[k], k + 1)
        BY <1>1, <2>2, <3>1 DEF NextFacet
      <4>2. QED BY <2>4, <2>5, <4>1, SplitFacet
    <3>2. CASE k + 1 \notin Flagged(s, z)
      <4>1. a[k + 1] = classify_facet(a[k], k + 1)
        BY <1>1, <2>2, <3>2 DEF NextFacet
      <4>2. QED BY <2>4, <2>5, <3>2, <4>1, ClassifyFacet
    <3>3. QED BY <3>1, <3>2
  <2>7. Progress(s, z, k + 1, a[k + 1])
    BY <2>1, <2>3, <2>5, <2>6, ProgressNext
  <2>8. QED BY <2>1, <2>7
<1>4. \A k \in 0 .. n : k \in T
  <2>1. 0 \in T
    <3>1. Progress(s, z, 0, a[0])
      BY <1>2, ProgressFirst
    <3>2. QED BY <1>1, <3>1
  <2> HIDE DEF T, n
  <2>2. QED BY <1>1, <1>3, <2>1, InductionUpTo
<1>5. Progress(s, z, n, a[n])
  BY <1>1, <1>4
<1>6. QED BY <1>2, <1>5

\* What is listed runs as often one way as the other, and what it has on the surface is known.
Watertight(c) == \A x, y : Count(c.mesh, Target(c), x, y) = Count(c.mesh, Target(c), y, x)
AllKnown(c) == \A g \in Listed(c) : SurfaceKnown(c, g)

\* After all facets of a hull that is closed.
LEMMA CutIsWatertight ==
  ASSUME NEW s, NEW z, Given(s, z), EdgesDiffer(s.edges), Balanced(s)
  PROVE  LET c == classify_or_split(find_intersection_with_free_surface(Cut(s, z)))
         IN Classified(s, z, c) /\ Watertight(c) /\ AllKnown(c)
<1> DEFINE c == classify_or_split(find_intersection_with_free_surface(Cut(s, z)))
           n == s.nb_of_static_facets
<1>1. Progress(s, z, n, c)
  BY AllSplit, AllDealt
<1> HIDE DEF c
<1>2. Classified(s, z, c) /\ AllKnown(c)
  BY <1>1 DEF Progress, AllKnown
<1>3. ASSUME NEW x, NEW y
      PROVE  Count(c.mesh, Target(c), x, y) = Count(c.mesh, Target(c), y, x)
  <2>1. n \in Nat /\ Len(s.facets) = n
    BY GivenParts
  <2>2. Due(s, c, n, x, y) = Due(s, c, n, y, x)
    <3>1. Cardinality(PiecedBy(s, c, <<x, y>>)) = Cardinality(PiecedBy(s, c, <<y, x>>))
      BY <1>2, PiecesBalance
    <3>2. /\ Owing(s, c, n, x, y) = PiecedBy(s, c, <<x, y>>)
          /\ Owing(s, c, n, y, x) = PiecedBy(s, c, <<y, x>>)
      BY <2>1 DEF Owing, PiecedBy
    <3>3. QED BY <3>1, <3>2 DEF Due
  <2>3. Due(s, c, n, x, y) \in Nat
    BY <2>1, OneMoreDue
  <2>4. Count(c.mesh, Target(c), x, y) \in Nat /\ Count(c.mesh, Target(c), y, x) \in Nat
    <3>1. Len(c.mesh.facets) \in Nat
      BY <1>2, ClassifiedParts
    <3>2. Listed(c) \subseteq 1 .. Len(c.mesh.facets)
      <4>1. Listed(c) \subseteq 1 .. n \cup (n + 1 .. Len(c.mesh.facets))
        BY <1>1 DEF Progress
      <4>2. n <= Len(c.mesh.facets)
        BY <1>2, <2>1 DEF Classified, Grown
      <4>3. 1 .. n \cup (n + 1 .. Len(c.mesh.facets)) \subseteq 1 .. Len(c.mesh.facets)
        BY <2>1, <3>1, <4>2
      <4> HIDE DEF n
      <4>4. QED BY <4>1, <4>3
    <3>3. Target(c) \in SUBSET (1 .. Len(c.mesh.facets))
      BY <3>2 DEF Target, Counted, Listed
    <3>4. IsFiniteSet(Target(c))
      <4>1. IsFiniteSet(1 .. Len(c.mesh.facets))
        BY <3>1, FS_Interval
      <4>2. QED BY <3>3, <4>1, FS_Subset
    <3>5. Target(c) \cap {} = {} /\ IsFiniteSet({})
      BY FS_EmptySet
    <3>6. QED BY <3>4, <3>5, CountTogether
  <2>5. Count(c.mesh, Target(c), x, y) + Due(s, c, n, y, x)
          = Count(c.mesh, Target(c), y, x) + Due(s, c, n, x, y)
    BY <1>1 DEF Progress
  <2> HIDE DEF n
  <2>6. QED BY <2>2, <2>3, <2>4, <2>5
<1>4. Watertight(c)
  BY <1>3 DEF Watertight
<1>5. QED BY <1>2, <1>4 DEF c

\* No two edges on the surface have the same ends, in a hull no two of whose facets have
\* the same corners.
LEMMA CutIsApart ==
  ASSUME NEW s, NEW z, Given(s, z), Simple(s)
  PROVE  LET c == classify_or_split(find_intersection_with_free_surface(Cut(s, z)))
         IN Apart(c.mesh, c.surface_edges)
<1> DEFINE c == classify_or_split(find_intersection_with_free_surface(Cut(s, z)))
<1>1. Progress(s, z, s.nb_of_static_facets, c)
  BY AllSplit, AllDealt
<1> HIDE DEF c
<1>2. Apart(c.mesh, c.surface_edges)
  BY <1>1 DEF Progress, SurfaceApart
<1>3. QED BY <1>2 DEF c

\* From a mesh that has grown in any way, an update starts from the static mesh, and leaves
\* all facets it lists on their side.
LEMMA UpdateClassifies ==
  ASSUME NEW s, Static(s), FacetsExistIn(s), NEW m, Grown(s, m),
         NEW z \in [1 .. m.nb_of_static_nodes -> Int]
  PROVE  /\ Given(s, z)
         /\ Classified(s, z, Intersection(m, z))
         /\ Intersection(m, z) = classify_or_split(find_intersection_with_free_surface(Cut(s, z)))
<1>1. reset_dynamic_data(m) = s
  BY ResetIs
<1>2. Given(s, z)
  BY DEF Grown, Given
<1>3. Intersection(m, z) = classify_or_split(find_intersection_with_free_surface(Cut(s, z)))
  BY <1>1 DEF Intersection
<1>4. Classified(s, z, classify_or_split(find_intersection_with_free_surface(Cut(s, z))))
  BY <1>2, AllSplit, AllDealt DEF Progress
<1>5. QED BY <1>2, <1>3, <1>4

\* Every hull is read into a static mesh that has its corners and edges once, and the
\* immersions given are those of its nodes.
LEMMA HullsAreBuilt ==
  ASSUME NEW hull \in Hulls
  PROVE  /\ Static(build(hull)) /\ FacetsExistIn(build(hull))
         /\ EdgesDiffer(build(hull).edges) /\ SameCorners(build(hull), hull)
         /\ EdgesJoinTwo(build(hull).edges)
         /\ Positions(build(hull).nb_of_static_nodes)
              \subseteq [1 .. build(hull).nb_of_static_nodes -> Int]
<1>1. hull \in Seq(Triangles)
  BY HullsAssumption
<1>2. Len(hull) \in Nat
  BY <1>1, LenProperties
<1>3. ASSUME NEW f \in 1 .. Len(hull)
      PROVE  /\ Len(hull[f]) = 3
             /\ \A i \in 1 .. 3 : hull[f][i] \in Corners
             /\ \A i, j \in 1 .. 3 : i # j => hull[f][i] # hull[f][j]
  <2>1. hull[f] \in Triangles
    BY <1>1, ElementOfSeq
  <2> DEFINE t == hull[f]
  <2>2. /\ t \in [1 .. 3 -> Corners]
        /\ \A i, j \in 1 .. 3 : i # j => t[i] # t[j]
    BY <2>1 DEF Triangles
  <2> HIDE DEF t
  <2>3. t = [i \in 1 .. 3 |-> t[i]] /\ \A i \in 1 .. 3 : t[i] \in Corners
    BY <2>2
  <2>4. Len([i \in 1 .. 3 |-> t[i]]) = 3
    OBVIOUS
  <2>5. QED BY <2>2, <2>3, <2>4 DEF t
<1>4. IsHull(Corners, hull)
  BY <1>2, <1>3 DEF IsHull
<1>5. /\ Static(build(hull)) /\ FacetsExistIn(build(hull))
      /\ EdgesDiffer(build(hull).edges) /\ SameCorners(build(hull), hull)
      /\ EdgesJoinTwo(build(hull).edges)
  BY <1>4, BuiltIs
<1>6. QED BY <1>5, PositionsAssumption

-----------------------------------------------------------------------------
(* The inductive invariant *)

Now == [mesh |-> mesh, immersions |-> all_relative_immersions]
Surface == index_of_edges_exactly_on_surface

\* The mesh is the hull with what the last update has added and the closing facets;
\* the facets that were classified are on their side.
MeshInv ==
  /\ \E hull \in Hulls : Grown(build(hull), mesh)
  /\ EdgesExist(mesh) /\ FacetsExistIn(mesh)
  /\ mesh.total_number_of_nodes <= mesh.nb_of_static_nodes + mesh.nb_of_static_edges
  /\ Updated =>
       /\ all_relative_immersions \in Seq(Int)
       /\ Len(all_relative_immersions) = mesh.total_number_of_nodes
       /\ AllOnSide(Now, "emerged", index_of_emerged_facets)
       /\ AllOnSide(Now, "immersed", index_of_immersed_facets)
  /\ Surface \subseteq 1 .. Len(mesh.edges)

\* Walks are along edges on the surface, and only while closing facets are built.
WalkInv ==
  /\ building \in {"no", "yes", "failed"}
  /\ building # "yes" => component = {}
  /\ component = {} => path = <<>> /\ contours = <<>>
  /\ components \subseteq SUBSET Surface /\ component \subseteq Surface
  /\ path \in Seq(Along(Surface)) /\ contours \in Seq(Seq(Along(Surface)))

Inv == MeshInv /\ WalkInv /\ UpdateForgetsThePast

\* The mesh has grown from some hull.
LEMMA HullOfMesh ==
  ASSUME MeshInv
  PROVE  \E hull \in Hulls :
           /\ Static(build(hull)) /\ FacetsExistIn(build(hull)) /\ Grown(build(hull), mesh)
           /\ mesh \in Meshes /\ Len(mesh.edges) \in Nat /\ Len(mesh.facets) \in Nat
           /\ mesh.total_number_of_nodes \in Nat
           /\ Positions(mesh.nb_of_static_nodes) \subseteq [1 .. mesh.nb_of_static_nodes -> Int]
<1>1. PICK hull \in Hulls : Grown(build(hull), mesh)
  BY DEF MeshInv
<1>2. /\ mesh \in Meshes /\ mesh.nb_of_static_nodes = build(hull).nb_of_static_nodes
  BY <1>1 DEF Grown
<1>3. QED BY <1>1, <1>2, HullsAreBuilt, MeshParts

\* MeshInv stays when the mesh and the lists do, also when an update is refused.
LEMMA MeshInvStays ==
  ASSUME MeshInv, UNCHANGED <<mesh, classification>>,
         Updated' => all_relative_immersions' = all_relative_immersions
  PROVE  MeshInv'
<1>1. /\ mesh' = mesh /\ index_of_emerged_facets' = index_of_emerged_facets
      /\ index_of_immersed_facets' = index_of_immersed_facets /\ Surface' = Surface
  BY DEF classification, Surface
<1>2. ASSUME Updated'
      PROVE  /\ Updated /\ Now' = Now /\ all_relative_immersions' = all_relative_immersions
  BY <1>1, <1>2 DEF Updated, Now
<1>3. Updated' =>
       /\ all_relative_immersions' \in Seq(Int)
       /\ Len(all_relative_immersions') = mesh'.total_number_of_nodes
       /\ AllOnSide(Now', "emerged", index_of_emerged_facets')
       /\ AllOnSide(Now', "immersed", index_of_immersed_facets')
  BY <1>1, <1>2 DEF MeshInv
<1>4. /\ \E hull \in Hulls : Grown(build(hull), mesh')
      /\ EdgesExist(mesh') /\ FacetsExistIn(mesh')
      /\ mesh'.total_number_of_nodes <= mesh'.nb_of_static_nodes + mesh'.nb_of_static_edges
      /\ Surface' \subseteq 1 .. Len(mesh'.edges)
  BY <1>1 DEF MeshInv
<1>5. QED BY <1>3, <1>4 DEF MeshInv

\* What an update leaves.
LEMMA UpdateKeepsInv ==
  ASSUME Inv, NEW z \in Positions(mesh.nb_of_static_nodes), update(z)
  PROVE  Inv'
<1>1. PICK hull \in Hulls :
        /\ Static(build(hull)) /\ FacetsExistIn(build(hull)) /\ Grown(build(hull), mesh)
        /\ Positions(mesh.nb_of_static_nodes) \subseteq [1 .. mesh.nb_of_static_nodes -> Int]
  BY HullOfMesh DEF Inv
<1> DEFINE s == build(hull)
           cut == Intersection(mesh, z)
           nn == s.nb_of_static_nodes
<1>2. /\ mesh' = cut.mesh /\ all_relative_immersions' = cut.immersions
      /\ index_of_emerged_facets' = cut.emerged
      /\ index_of_immersed_facets' = cut.immersed
      /\ index_of_edges_exactly_on_surface' = cut.surface_edges
      /\ building' = "no" /\ components' = {}
      /\ component' = {} /\ path' = <<>> /\ contours' = <<>>
  BY DEF update, NoWalk
<1>3. z \in [1 .. mesh.nb_of_static_nodes -> Int]
  BY <1>1
<1>4. /\ Given(s, z) /\ Classified(s, z, cut)
      /\ cut = classify_or_split(find_intersection_with_free_surface(Cut(s, z)))
  BY <1>1, <1>3, UpdateClassifies
<1>5. Static(s) /\ FacetsExistIn(s) /\ Grown(s, mesh)
  BY <1>1
<1> HIDE DEF s, cut
<1>6. /\ cut \in Cuts /\ cut.mesh \in Meshes /\ EdgesExist(cut.mesh)
      /\ FacetsExistIn(cut.mesh) /\ Grown(s, cut.mesh) /\ Grown(cut.mesh, cut.mesh)
      /\ AllOnSide(cut, "emerged", cut.emerged)
      /\ AllOnSide(cut, "immersed", cut.immersed)
      /\ Len(cut.mesh.edges) \in Nat
  BY <1>4, ClassifiedParts
<1>7. /\ cut.mesh.total_number_of_nodes <= s.nb_of_static_nodes + s.nb_of_static_edges
      /\ Len(cut.immersions) = cut.mesh.total_number_of_nodes
      /\ cut.surface_edges \subseteq 1 .. Len(cut.mesh.edges)
      /\ cut.immersions \in Seq(Int)
      /\ \A i \in 1 .. nn : cut.immersions[i] = z[i]
  BY <1>4, <1>6 DEF Classified, Cuts
<1>8. MeshInv'
  <2>1. Now'.mesh = cut.mesh /\ Now'.immersions = cut.immersions
    BY <1>2 DEF Now
  <2>2. /\ AllOnSide(Now', "emerged", cut.emerged)
        /\ AllOnSide(Now', "immersed", cut.immersed)
    BY <1>6, <2>1, FacetsStay
  <2>3. \E h \in Hulls : Grown(build(h), mesh')
    BY <1>2, <1>6 DEF s
  <2>4. mesh'.total_number_of_nodes <= mesh'.nb_of_static_nodes + mesh'.nb_of_static_edges
    BY <1>2, <1>6, <1>7 DEF Grown
  <2>5. Surface' \subseteq 1 .. Len(mesh'.edges)
    BY <1>2, <1>7 DEF Surface
  <2>6. EdgesExist(mesh') /\ FacetsExistIn(mesh')
    BY <1>2, <1>6
  <2>7. /\ all_relative_immersions' \in Seq(Int)
        /\ Len(all_relative_immersions') = mesh'.total_number_of_nodes
        /\ AllOnSide(Now', "emerged", index_of_emerged_facets')
        /\ AllOnSide(Now', "immersed", index_of_immersed_facets')
    BY <1>2, <1>7, <2>2
  <2>8. QED BY <2>3, <2>4, <2>5, <2>6, <2>7 DEF MeshInv
<1>9. WalkInv'
  <2>1. <<>> \in Seq(Along(Surface')) /\ <<>> \in Seq(Seq(Along(Surface')))
    BY EmptySeq
  <2>2. QED BY <1>2, <2>1 DEF WalkInv
<1>10. UpdateForgetsThePast'
  <2> DEFINE y == SubSeq(cut.immersions, 1, cut.mesh.nb_of_static_nodes)
  <2>1. y = z
    <3>1. /\ cut.mesh.nb_of_static_nodes = nn /\ z \in Seq(Int) /\ Len(z) = nn /\ nn \in Nat
          /\ \A i \in 1 .. nn : z[i] \in Int
      BY <1>4, <1>6, GivenParts DEF Grown
    <3> DEFINE q == cut.immersions
    <3>2. /\ SubSeq(q, 1, nn) \in Seq(Int)
          /\ Len(SubSeq(q, 1, nn)) = IF 1 <= nn THEN nn - 1 + 1 ELSE 0
          /\ \A i \in 1 .. nn - 1 + 1 : SubSeq(q, 1, nn)[i] = q[1 + i - 1]
      <4>1. \A i \in 1 .. nn : q[i] \in Int
        BY <1>7, <3>1
      <4>2. 1 \in Int /\ nn \in Int
        BY <3>1
      <4> HIDE DEF q, nn
      <4>3. QED BY <4>1, <4>2, SubSeqProperties
    <3>3. /\ SubSeq(q, 1, nn) \in Seq(Int) /\ Len(SubSeq(q, 1, nn)) = nn
          /\ \A i \in 1 .. nn : SubSeq(q, 1, nn)[i] = z[i]
      <4>1. \A i \in 1 .. nn : q[i] = z[i]
        BY <1>7
      <4> HIDE DEF q, nn
      <4>2. QED BY <3>1, <3>2, <4>1
    <3>4. SubSeq(q, 1, nn) = z
      <4> HIDE DEF q, nn
      <4>1. QED BY <3>1, <3>3, SeqEqual
    <3>5. QED BY <3>1, <3>4
  <2>2. reset_dynamic_data(cut.mesh) = s
    BY <1>5, <1>6, ResetIs
  <2>3. Intersection(reset_dynamic_data(cut.mesh), y) = cut
    <3>1. Grown(s, s) /\ z \in [1 .. s.nb_of_static_nodes -> Int]
      BY <1>4, GivenParts DEF Given
    <3>2. Intersection(s, z)
            = classify_or_split(find_intersection_with_free_surface(Cut(s, z)))
      BY <1>5, <3>1, UpdateClassifies
    <3>3. QED BY <1>4, <2>1, <2>2, <3>2
  <2>4. LET fresh == reset_dynamic_data(mesh')
            x == SubSeq(all_relative_immersions', 1, mesh'.nb_of_static_nodes)
            c == Intersection(fresh, x)
        IN /\ mesh' = c.mesh
           /\ classification' = <<c.emerged, c.immersed, c.surface_edges>>
    BY <1>2, <2>3 DEF classification
  <2>5. QED BY <2>4 DEF UpdateForgetsThePast, reset_dynamic_data
<1>11. QED BY <1>8, <1>9, <1>10 DEF Inv

\* The invariant holds initially, with no facet classified.
LEMMA InitInv ==
  ASSUME Init
  PROVE  Inv
<1>1. PICK hull \in Hulls : mesh = build(hull)
  BY DEF Init
<1>2. /\ Static(mesh) /\ FacetsExistIn(mesh)
  BY <1>1, HullsAreBuilt
<1>3. /\ ~Updated /\ Surface = {} /\ building = "no" /\ components = {}
      /\ component = {} /\ path = <<>> /\ contours = <<>>
  BY DEF Init, Updated, NaN, Surface
<1>4. mesh \in Meshes /\ EdgesExist(mesh) /\ mesh.total_number_of_nodes = mesh.nb_of_static_nodes
  BY <1>2 DEF Static
<1>5. mesh.total_number_of_nodes <= mesh.nb_of_static_nodes + mesh.nb_of_static_edges
  BY <1>4, MeshParts
<1>6. MeshInv
  BY <1>1, <1>2, <1>3, <1>4, <1>5, GrownItself DEF MeshInv
<1>7. WalkInv
  BY <1>3, EmptySeq DEF WalkInv
<1>8. UpdateForgetsThePast
  BY <1>3 DEF UpdateForgetsThePast
<1>9. QED BY <1>6, <1>7, <1>8 DEF Inv

-----------------------------------------------------------------------------
(* The other actions *)

\* The actions that leave the mesh and the facets alone.
LEMMA RefuseKeepsInv ==
  ASSUME Inv, refuse
  PROVE  Inv'
<1>1. /\ UNCHANGED <<mesh, classification>> /\ ~Updated' /\ building' = "failed"
      /\ components' = components /\ component' = component
      /\ path' = path /\ contours' = contours /\ Surface' = Surface
      /\ building # "yes"
  BY DEF refuse, Updated, classification, walk, Surface
<1>2. MeshInv'
  BY <1>1, MeshInvStays DEF Inv
<1>3. WalkInv'
  BY <1>1 DEF Inv, WalkInv
<1>4. UpdateForgetsThePast'
  BY <1>1 DEF UpdateForgetsThePast
<1>5. QED BY <1>2, <1>3, <1>4 DEF Inv

\* There are finitely many edges on the surface.
LEMMA SurfaceIsFinite ==
  ASSUME MeshInv
  PROVE  IsFiniteSet(Surface)
<1>1. Len(mesh.edges) \in Nat /\ Surface \subseteq 1 .. Len(mesh.edges)
  BY HullOfMesh DEF MeshInv
<1>2. IsFiniteSet(1 .. Len(mesh.edges))
  BY <1>1, FS_Interval
<1>3. QED BY <1>1, <1>2, FS_Subset

\* The components are made of edges on the surface.
LEMMA BuildKeepsInv ==
  ASSUME Inv, build_closing_edge
  PROVE  Inv'
<1>1. /\ UNCHANGED <<mesh, classification>>
      /\ all_relative_immersions' = all_relative_immersions
      /\ building = "no" /\ building' = "yes"
      /\ components' = group_connected_edges(mesh, Surface)
      /\ component' = component /\ path' = path /\ contours' = contours
      /\ Surface' = Surface
  BY DEF build_closing_edge, classification, walk, Surface
<1>2. MeshInv'
  BY <1>1, MeshInvStays DEF Inv
<1>3. components' \subseteq SUBSET Surface
  <2>1. \A e \in Surface : Component(mesh, Surface, e) \subseteq Surface
    BY SurfaceIsFinite, ComponentIs DEF Inv
  <2>2. QED BY <1>1, <2>1 DEF group_connected_edges
<1>4. WalkInv'
  BY <1>1, <1>3 DEF Inv, WalkInv
<1>5. UpdateForgetsThePast'
  BY <1>1 DEF UpdateForgetsThePast
<1>6. QED BY <1>2, <1>4, <1>5 DEF Inv

\* The component at hand is one of the components.
LEMMA TakeKeepsInv ==
  ASSUME Inv, take_component
  PROVE  Inv'
<1>1. /\ UNCHANGED <<mesh, classification>>
      /\ all_relative_immersions' = all_relative_immersions
      /\ building = "yes" /\ building' = "yes" /\ component = {}
      /\ path' = path /\ contours' = contours /\ Surface' = Surface
  BY DEF take_component, classification, Surface
<1>2. PICK c \in components : /\ components' = components \ {c}
                              /\ component' = IF Cardinality(c) = 1 THEN {} ELSE c
  BY DEF take_component
<1>3. MeshInv'
  BY <1>1, MeshInvStays DEF Inv
<1>4. components' \subseteq SUBSET Surface /\ component' \subseteq Surface
  BY <1>2 DEF Inv, WalkInv
<1>5. WalkInv'
  BY <1>1, <1>4 DEF Inv, WalkInv
<1>6. UpdateForgetsThePast'
  BY <1>1 DEF UpdateForgetsThePast
<1>7. QED BY <1>3, <1>5, <1>6 DEF Inv

\* While there is a component, closing facets are being built.
LEMMA WalkWhileBuilding ==
  ASSUME Inv
  PROVE  component # {} \/ path # <<>> \/ contours # <<>> => building = "yes"
BY DEF Inv, WalkInv

\* A walk starts from an edge of the component.
LEMMA StartKeepsInv ==
  ASSUME Inv, start_contour
  PROVE  Inv'
<1>1. /\ UNCHANGED <<mesh, classification>>
      /\ all_relative_immersions' = all_relative_immersions
      /\ building' = building /\ component # {} /\ component' = component
      /\ components' = components /\ contours' = contours /\ Surface' = Surface
  BY DEF start_contour, classification, Surface
<1>2. building' = "yes"
  BY <1>1, WalkWhileBuilding
<1>3. PICK e \in component : path' = <<OrientedEdge(e, FALSE)>>
  BY DEF start_contour
<1>4. OrientedEdge(e, FALSE) \in Along(Surface)
  <2>1. e \in Surface
    BY DEF Inv, WalkInv
  <2>2. QED BY <2>1 DEF OrientedEdge, Along
<1>5. path' \in Seq(Along(Surface))
  <2> DEFINE o == OrientedEdge(e, FALSE)
             S == Along(Surface)
  <2>1. o \in S /\ path' = <<o>>
    BY <1>3, <1>4
  <2> HIDE DEF o, S
  <2>2. path' \in Seq(S)
    BY <2>1
  <2>3. QED BY <2>2 DEF S
<1>6. MeshInv'
  BY <1>1, MeshInvStays DEF Inv
<1>7. WalkInv'
  BY <1>1, <1>2, <1>5 DEF Inv, WalkInv
<1>8. UpdateForgetsThePast'
  BY <1>2 DEF UpdateForgetsThePast
<1>9. QED BY <1>6, <1>7, <1>8 DEF Inv

\* A walk goes on along edges of the component, and ends as a contour.
LEMMA FollowKeepsInv ==
  ASSUME Inv, follow
  PROVE  Inv'
<1> DEFINE o == path[Len(path)]
           S == Along(Surface)
           Ends_with(contour) == contours' = Append(contours, contour) /\ path' = <<>>
<1>1. /\ UNCHANGED <<mesh, classification>>
      /\ all_relative_immersions' = all_relative_immersions
      /\ building' = building /\ path # <<>> /\ component' = component
      /\ components' = components /\ Surface' = Surface
  BY DEF follow, classification, Surface
<1>2. building' = "yes" /\ component # {}
  BY <1>1, WalkWhileBuilding DEF Inv, WalkInv
<1>3. path \in Seq(S) /\ contours \in Seq(Seq(S)) /\ component \subseteq Surface
  BY DEF Inv, WalkInv
<1>4. \/ Ends_with(<<>>)
      \/ \E edge \in ConnectedToEnd(mesh, component, o) :
           \/ Ends_with(path) \/ Ends_with(flip(path))
           \/ /\ path' = Append(path, OrientedEdge(edge, need_to_reverse(mesh, o, edge)))
              /\ UNCHANGED contours
  BY DEF follow
<1> HIDE DEF o, S
<1>5. ASSUME NEW contour \in Seq(S), Ends_with(contour)
      PROVE  path' \in Seq(S) /\ contours' \in Seq(Seq(S))
  <2>1. Append(contours, contour) \in Seq(Seq(S))
    BY <1>3, AppendProperties
  <2>2. <<>> \in Seq(S)
    BY EmptySeq
  <2>3. QED BY <1>5, <2>1, <2>2
<1>6. ASSUME NEW edge \in ConnectedToEnd(mesh, component, o),
             path' = Append(path, OrientedEdge(edge, need_to_reverse(mesh, o, edge))),
             UNCHANGED contours
      PROVE  path' \in Seq(S) /\ contours' \in Seq(Seq(S))
  <2>1. edge \in Surface
    BY <1>3 DEF ConnectedToEnd
  <2>2. need_to_reverse(mesh, o, edge) \in BOOLEAN
    BY Zenon DEF need_to_reverse
  <2>3. OrientedEdge(edge, need_to_reverse(mesh, o, edge)) \in S
    BY <2>1, <2>2, Zenon DEF OrientedEdge, Along, S
  <2>4. QED BY <1>3, <1>6, <2>3, AppendProperties
<1>7. flip(path) \in Seq(S) /\ <<>> \in Seq(S)
  BY <1>3, FlipIs, EmptySeq DEF S
<1> HIDE DEF Ends_with
<1>8. path' \in Seq(S) /\ contours' \in Seq(Seq(S))
  BY <1>3, <1>4, <1>5, <1>6, <1>7
<1>9. MeshInv'
  BY <1>1, MeshInvStays DEF Inv
<1>10. WalkInv'
  BY <1>1, <1>2, <1>8 DEF Inv, WalkInv, S
<1>11. UpdateForgetsThePast'
  BY <1>2 DEF UpdateForgetsThePast
<1>12. QED BY <1>9, <1>10, <1>11 DEF Inv

\* The facet that the first of two contours becomes.
LEMMA ClosingFacetIs ==
  ASSUME Inv, Len(contours) = 2
  PROVE  LET r == create_facet_from_edges(mesh, contours[1])
         IN /\ Grown(mesh, r) /\ EdgesExist(r) /\ FacetsExistIn(r) /\ r.edges = mesh.edges
            /\ r.total_number_of_nodes = mesh.total_number_of_nodes
            /\ Len(r.facets) = Len(mesh.facets) + 1
            /\ r.facets[Len(mesh.facets) + 1] = NewFacet(mesh, contours[1])
<1>1. mesh \in Meshes
  BY HullOfMesh DEF Inv
<1>2. /\ EdgesExist(mesh) /\ FacetsExistIn(mesh) /\ Surface \subseteq 1 .. Len(mesh.edges)
  BY DEF Inv, MeshInv
<1>3. contours[1] \in Seq(Along(1 .. Len(mesh.edges)))
  <2>1. contours \in Seq(Seq(Along(Surface))) /\ 1 \in 1 .. Len(contours)
    BY DEF Inv, WalkInv
  <2>2. contours[1] \in Seq(Along(Surface))
    BY <2>1, ElementOfSeq
  <2>3. QED BY <1>2, <2>2, AlongMore
<1>4. QED BY <1>1, <1>2, <1>3, CreateFacetGrows

\* A closing facet is appended to the mesh, and the lists of facets are kept.
LEMMA CloseKeepsInv ==
  ASSUME Inv, close_contour
  PROVE  Inv'
<1>1. /\ UNCHANGED classification /\ Surface' = Surface
      /\ all_relative_immersions' = all_relative_immersions
      /\ Len(contours) = 2 /\ components' = components
      /\ component' = {} /\ path' = <<>> /\ contours' = <<>>
      /\ \/ building' = "failed" /\ mesh' = mesh
         \/ building' = building /\ mesh' = mesh
         \/ building' = building /\ mesh' = create_facet_from_edges(mesh, contours[1])
  BY DEF close_contour, classification, NoWalk, Surface
<1>2. contours # <<>>
  BY <1>1
<1>3. building = "yes" /\ building' \in {"yes", "failed"}
  BY <1>1, <1>2, WalkWhileBuilding
<1>4. MeshInv'
  <2>1. CASE mesh' = mesh
    BY <1>1, <2>1, MeshInvStays DEF Inv
  <2>2. CASE mesh' = create_facet_from_edges(mesh, contours[1])
    <3> DEFINE r == create_facet_from_edges(mesh, contours[1])
    <3>1. PICK hull \in Hulls :
            /\ Static(build(hull)) /\ Grown(build(hull), mesh) /\ mesh \in Meshes
      BY HullOfMesh DEF Inv
    <3>2. /\ EdgesExist(mesh) /\ FacetsExistIn(mesh) /\ Surface \subseteq 1 .. Len(mesh.edges)
      BY DEF Inv, MeshInv
    <3>3. /\ Grown(mesh, r) /\ EdgesExist(r) /\ FacetsExistIn(r) /\ r.edges = mesh.edges
          /\ r.total_number_of_nodes = mesh.total_number_of_nodes
      BY <1>1, ClosingFacetIs
    <3>4. mesh' = r
      BY <2>2
    <3> HIDE DEF r
    <3>5. Grown(build(hull), mesh')
      <4>1. build(hull) \in Meshes
        BY <3>1 DEF Static
      <4>2. QED BY <3>1, <3>3, <3>4, <4>1, GrownTransitive
    <3>6. /\ EdgesExist(mesh') /\ FacetsExistIn(mesh')
          /\ mesh'.total_number_of_nodes <= mesh'.nb_of_static_nodes + mesh'.nb_of_static_edges
          /\ Surface' \subseteq 1 .. Len(mesh'.edges)
      <4>1. mesh.total_number_of_nodes <= mesh.nb_of_static_nodes + mesh.nb_of_static_edges
        BY DEF Inv, MeshInv
      <4>2. r.nb_of_static_nodes = mesh.nb_of_static_nodes
            /\ r.nb_of_static_edges = mesh.nb_of_static_edges
        BY <3>3 DEF Grown
      <4>3. QED BY <1>1, <3>2, <3>3, <3>4, <4>1, <4>2
    <3>7. ASSUME Updated'
          PROVE  /\ all_relative_immersions' \in Seq(Int)
                 /\ Len(all_relative_immersions') = mesh'.total_number_of_nodes
                 /\ AllOnSide(Now', "emerged", index_of_emerged_facets')
                 /\ AllOnSide(Now', "immersed", index_of_immersed_facets')
      <4>1. Updated
        BY <1>1, <3>7 DEF Updated
      <4>2. /\ all_relative_immersions \in Seq(Int)
            /\ Len(all_relative_immersions) = mesh.total_number_of_nodes
            /\ AllOnSide(Now, "emerged", index_of_emerged_facets)
            /\ AllOnSide(Now, "immersed", index_of_immersed_facets)
        BY <4>1 DEF Inv, MeshInv
      <4>3. /\ Now.mesh = mesh /\ Now'.mesh = r
            /\ Now'.immersions = Now.immersions
        BY <1>1, <3>4 DEF Now
      <4>4. /\ AllOnSide(Now', "emerged", index_of_emerged_facets)
            /\ AllOnSide(Now', "immersed", index_of_immersed_facets)
        BY <3>1, <3>3, <4>2, <4>3, FacetsStay
      <4>5. QED BY <1>1, <3>3, <3>4, <4>2, <4>4 DEF classification
    <3>8. QED BY <3>5, <3>6, <3>7 DEF MeshInv
  <2>3. QED BY <1>1, <2>1, <2>2
<1>5. WalkInv'
  <2>1. <<>> \in Seq(Along(Surface)) /\ <<>> \in Seq(Seq(Along(Surface)))
    BY EmptySeq
  <2>2. QED BY <1>1, <1>3, <2>1 DEF Inv, WalkInv
<1>6. UpdateForgetsThePast'
  BY <1>3 DEF UpdateForgetsThePast
<1>7. QED BY <1>4, <1>5, <1>6 DEF Inv

\* When the closing facets are built, nothing but flags changes.
LEMMA BuiltKeepsInv ==
  ASSUME Inv, closing_facets_built
  PROVE  Inv'
<1>1. /\ UNCHANGED <<mesh, classification>>
      /\ all_relative_immersions' = all_relative_immersions
      /\ building' = "no" /\ need_to_update_closing_facet' = FALSE
      /\ component = {} /\ component' = component /\ components' = components
      /\ path' = path /\ contours' = contours /\ Surface' = Surface
  BY DEF closing_facets_built, classification, walk, Surface
<1>2. MeshInv'
  BY <1>1, MeshInvStays DEF Inv
<1>3. WalkInv'
  BY <1>1 DEF Inv, WalkInv
<1>4. UpdateForgetsThePast'
  BY <1>1 DEF UpdateForgetsThePast
<1>5. QED BY <1>2, <1>3, <1>4 DEF Inv

\* A stuttering step changes nothing.
LEMMA StutterKeepsInv ==
  ASSUME Inv, UNCHANGED vars
  PROVE  Inv'
<1>1. /\ UNCHANGED <<mesh, classification>> /\ Surface' = Surface
      /\ all_relative_immersions' = all_relative_immersions
      /\ need_to_update_closing_facet' = need_to_update_closing_facet
      /\ building' = building /\ component' = component /\ components' = components
      /\ path' = path /\ contours' = contours
  BY DEF vars, classification, walk, Surface
<1>2. MeshInv'
  BY <1>1, MeshInvStays DEF Inv
<1>3. WalkInv'
  BY <1>1 DEF Inv, WalkInv
<1>4. UpdateForgetsThePast'
  BY <1>1 DEF Inv, UpdateForgetsThePast, Updated, classification
<1>5. QED BY <1>2, <1>3, <1>4 DEF Inv

-----------------------------------------------------------------------------
(* The theorems *)

\* The mesh is always the hull with what the last update and the closing facets added,
\* walks are along the surface, and an update not yet followed by closing facets is the one
\* that the hull alone would give.
THEOREM InvIsInvariant == Spec => []Inv
<1>1. Init => Inv
  BY InitInv
<1>2. Inv /\ [Next]_vars => Inv'
  <2> SUFFICES ASSUME Inv, [Next]_vars PROVE Inv'
    OBVIOUS
  <2>1. ASSUME NEW z \in Positions(mesh.nb_of_static_nodes), update(z) PROVE Inv'
    BY <2>1, UpdateKeepsInv
  <2>2. CASE refuse
    BY <2>2, RefuseKeepsInv
  <2>3. CASE build_closing_edge
    BY <2>3, BuildKeepsInv
  <2>4. CASE take_component
    BY <2>4, TakeKeepsInv
  <2>5. CASE start_contour
    BY <2>5, StartKeepsInv
  <2>6. CASE follow
    BY <2>6, FollowKeepsInv
  <2>7. CASE close_contour
    BY <2>7, CloseKeepsInv
  <2>8. CASE closing_facets_built
    BY <2>8, BuiltKeepsInv
  <2>9. CASE UNCHANGED vars
    BY <2>9, StutterKeepsInv
  <2>10. QED BY <2>1, <2>2, <2>3, <2>4, <2>5, <2>6, <2>7, <2>8, <2>9 DEF Next
<1>3. QED BY <1>1, <1>2, PTL DEF Spec

\* All edges and facets have nodes that exist, and the room that is reserved for the
\* nodes where edges are cut is enough, in every reachable state.
THEOREM TypeIsCorrect == Spec => []TypeOK
<1>1. Inv => TypeOK
  <2> SUFFICES ASSUME Inv PROVE TypeOK
    OBVIOUS
  <2>1. /\ mesh \in Meshes /\ mesh.edges \in Seq(Nat \X Nat) /\ mesh.facets \in Seq(Seq(Nat))
    BY HullOfMesh, MeshParts DEF Inv
  <2>2. DOMAIN mesh.edges = 1 .. Len(mesh.edges) /\ DOMAIN mesh.facets = 1 .. Len(mesh.facets)
    BY <2>1, LenProperties
  <2>3. ASSUME NEW e \in DOMAIN mesh.edges PROVE Ends(mesh, e) \subseteq Node
    BY <2>2 DEF Inv, MeshInv, EdgesExist, Ends, Node
  <2>4. ASSUME NEW f \in DOMAIN mesh.facets PROVE ToSet(mesh.facets[f]) \subseteq Node
    <3>1. f \in 1 .. Len(mesh.facets) /\ mesh.facets[f] \in Seq(Nat)
      BY <2>1, <2>2, ElementOfSeq
    <3>2. DOMAIN mesh.facets[f] = 1 .. Len(mesh.facets[f])
      BY <3>1, LenProperties
    <3>3. QED BY <3>1, <3>2 DEF Inv, MeshInv, FacetsExistIn, ToSet, Node
  <2>5. Updated => DOMAIN all_relative_immersions = Node
    BY LenProperties DEF Inv, MeshInv, Node
  <2>6. /\ mesh.total_number_of_nodes <= mesh.nb_of_static_nodes + mesh.nb_of_static_edges
        /\ index_of_edges_exactly_on_surface \subseteq DOMAIN mesh.edges
        /\ building \in {"no", "yes", "failed"}
    BY <2>2 DEF Inv, MeshInv, WalkInv, Surface
  <2>7. QED BY <2>3, <2>4, <2>5, <2>6 DEF TypeOK
<1>2. QED BY <1>1, InvIsInvariant, PTL

\* No facet listed as emerged has an immersed node and no facet listed as immersed an
\* emerged one, for every hull made of triangles and all immersions of its nodes.
THEOREM FacetsStayOnTheirSide == Spec => []FacetsAreOnTheirSide
<1>1. Inv => FacetsAreOnTheirSide
  <2> SUFFICES ASSUME Inv, Updated
               PROVE  /\ \A f \in Emerged : \A n \in ToSet(mesh.facets[f]) :
                           all_relative_immersions[n] <= 0
                      /\ \A f \in Immersed : \A n \in ToSet(mesh.facets[f]) :
                           all_relative_immersions[n] >= 0
    BY DEF FacetsAreOnTheirSide
  <2>1. mesh.facets \in Seq(Seq(Nat))
    BY HullOfMesh, MeshParts DEF Inv
  <2>2. ASSUME NEW side, NEW L, AllOnSide(Now, side, L), NEW f \in ToSet(L),
               NEW n \in ToSet(mesh.facets[f])
        PROVE  OnSide(Now, side, n)
    <3>1. L \in Seq(Nat) /\ \A i \in 1 .. Len(L) : FacetOnSide(Now, side, L[i])
      BY <2>2 DEF AllOnSide
    <3>2. DOMAIN L = 1 .. Len(L)
      BY <3>1, LenProperties
    <3>3. PICK i \in 1 .. Len(L) : f = L[i]
      BY <3>2 DEF ToSet
    <3>4. FacetOnSide(Now, side, f) /\ Now.mesh = mesh
      BY <3>1, <3>3 DEF Now
    <3>5. f \in 1 .. Len(mesh.facets)
      BY <3>4 DEF FacetOnSide
    <3>6. mesh.facets[f] \in Seq(Nat)
      BY <2>1, <3>5, ElementOfSeq
    <3>7. DOMAIN mesh.facets[f] = 1 .. Len(mesh.facets[f])
      BY <3>6, LenProperties
    <3>8. PICK j \in 1 .. Len(mesh.facets[f]) : n = mesh.facets[f][j]
      BY <3>7 DEF ToSet
    <3>9. QED BY <3>4, <3>8 DEF FacetOnSide
  <2>3. /\ AllOnSide(Now, "emerged", index_of_emerged_facets)
        /\ AllOnSide(Now, "immersed", index_of_immersed_facets)
    BY DEF Inv, MeshInv
  <2>4. /\ \A n : OnSide(Now, "emerged", n) => all_relative_immersions[n] <= 0
        /\ \A n : OnSide(Now, "immersed", n) => all_relative_immersions[n] >= 0
    BY DEF OnSide, Now
  <2>5. QED BY <2>2, <2>3, <2>4 DEF Emerged, Immersed
<1>2. QED BY <1>1, InvIsInvariant, PTL

\* After an update, the mesh and the lists are what they would be if the hull had just
\* been read: nothing is left of earlier updates, closing facets or refusals.
THEOREM EveryUpdateStartsAfresh == Spec => []UpdateForgetsThePast
<1>1. Inv => UpdateForgetsThePast
  BY DEF Inv
<1>2. QED BY <1>1, InvIsInvariant, PTL

-----------------------------------------------------------------------------
(* The hull stays watertight *)

\* What the last update has left.
Result == [mesh |-> mesh, immersions |-> all_relative_immersions,
         emerged |-> index_of_emerged_facets, immersed |-> index_of_immersed_facets,
         surface_edges |-> index_of_edges_exactly_on_surface]

\* The facets listed are a closed surface, whose edges on the free surface are known.
HullInv == Updated => Watertight(Result) /\ AllKnown(Result)

\* A listed facet exists.
LEMMA ListedFacet ==
  ASSUME NEW cut, NEW side, NEW L, AllOnSide(cut, side, L), NEW g \in ToSet(L)
  PROVE  g \in Nat /\ FacetOnSide(cut, side, g)
<1>1. L \in Seq(Nat) /\ \A i \in 1 .. Len(L) : FacetOnSide(cut, side, L[i])
  BY DEF AllOnSide
<1>2. DOMAIN L = 1 .. Len(L)
  BY <1>1, LenProperties
<1>3. PICK i \in 1 .. Len(L) : g = L[i]
  BY <1>2 DEF ToSet
<1>4. L[i] \in Nat
  BY <1>1, ElementOfSeq
<1>5. QED BY <1>1, <1>3, <1>4

\* What is listed is a closed surface whatever else the mesh is given.
LEMMA WatertightStays ==
  ASSUME NEW c, NEW r, Grown(c.mesh, r.mesh), r.immersions = c.immersions,
         r.emerged = c.emerged, r.immersed = c.immersed, r.surface_edges = c.surface_edges,
         Listed(c) \subseteq 1 .. Len(c.mesh.facets),
         c.surface_edges \subseteq 1 .. Len(c.mesh.edges),
         Watertight(c), AllKnown(c)
  PROVE  Watertight(r) /\ AllKnown(r)
<1>1. /\ \A g \in Listed(c) : r.mesh.facets[g] = c.mesh.facets[g]
      /\ \A e \in c.surface_edges : r.mesh.edges[e] = c.mesh.edges[e]
  BY DEF Grown
<1>2. Listed(r) = Listed(c)
  BY DEF Listed
<1>3. \A g \in Listed(c) : Flush(r, g) <=> Flush(c, g)
  BY <1>1 DEF Flush
<1>4. Target(r) = Target(c)
  <2>1. \A g \in ToSet(c.emerged) : Flush(r, g) <=> Flush(c, g)
    BY <1>3 DEF Listed
  <2>2. Target(r) = ToSet(c.immersed) \cup {g \in ToSet(c.emerged) : ~Flush(r, g)}
    BY DEF Target, Counted
  <2>3. Target(c) = ToSet(c.immersed) \cup {g \in ToSet(c.emerged) : ~Flush(c, g)}
    BY DEF Target, Counted
  <2>4. QED BY <2>1, <2>2, <2>3
<1>5. ASSUME NEW x, NEW y
      PROVE  Count(r.mesh, Target(r), x, y) = Count(c.mesh, Target(c), x, y)
  <2>1. Target(c) \subseteq Listed(c)
    BY DEF Target, Counted, Listed
  <2>2. \A g \in Target(c) : r.mesh.facets[g] = c.mesh.facets[g]
    BY <1>1, <2>1
  <2>3. HaveSide(r.mesh, Target(c), x, y) = HaveSide(c.mesh, Target(c), x, y)
    BY <2>2 DEF HaveSide
  <2>4. QED BY <1>4, <2>3 DEF Count
<1>6. Watertight(r)
  BY <1>5 DEF Watertight
<1>7. ASSUME NEW g \in Listed(c) PROVE SurfaceKnown(r, g)
  <2>1. SurfaceKnown(c, g)
    BY DEF AllKnown
  <2>2. \A x, y : \A e \in c.surface_edges : Between(r.mesh, e, x, y) <=> Between(c.mesh, e, x, y)
    BY <1>1 DEF Between
  <2>3. r.mesh.facets[g] = c.mesh.facets[g]
    BY <1>1
  <2>4. QED BY <2>1, <2>2, <2>3 DEF SurfaceKnown
<1>8. QED BY <1>2, <1>6, <1>7 DEF AllKnown

\* What is known of the state after an update.
LEMMA LastParts ==
  ASSUME Inv, Updated
  PROVE  /\ Result.mesh = mesh /\ Result.immersions = all_relative_immersions
         /\ Result.emerged = index_of_emerged_facets /\ Result.immersed = index_of_immersed_facets
         /\ Result.surface_edges = index_of_edges_exactly_on_surface
         /\ AllOnSide(Result, "emerged", Result.emerged)
         /\ AllOnSide(Result, "immersed", Result.immersed)
         /\ Listed(Result) \subseteq 1 .. Len(mesh.facets)
         /\ Result.surface_edges \subseteq 1 .. Len(mesh.edges)
         /\ mesh \in Meshes /\ FacetsExistIn(mesh)
         /\ Result.immersions \in Seq(Int) /\ Len(Result.immersions) = mesh.total_number_of_nodes
<1>1. /\ Result.mesh = mesh /\ Result.immersions = all_relative_immersions
      /\ Result.emerged = index_of_emerged_facets /\ Result.immersed = index_of_immersed_facets
      /\ Result.surface_edges = index_of_edges_exactly_on_surface
  BY DEF Result
<1>2. /\ AllOnSide(Now, "emerged", index_of_emerged_facets)
      /\ AllOnSide(Now, "immersed", index_of_immersed_facets)
      /\ index_of_edges_exactly_on_surface \subseteq 1 .. Len(mesh.edges)
      /\ FacetsExistIn(mesh)
      /\ all_relative_immersions \in Seq(Int)
      /\ Len(all_relative_immersions) = mesh.total_number_of_nodes
  BY DEF Inv, MeshInv, Surface
<1>3. mesh \in Meshes /\ Grown(mesh, mesh)
  <2>1. mesh \in Meshes
    BY HullOfMesh DEF Inv
  <2>2. QED BY <2>1, GrownItself
<1>4. Now.mesh = mesh /\ Now.immersions = all_relative_immersions
  BY DEF Now
<1>5. /\ AllOnSide(Result, "emerged", index_of_emerged_facets)
      /\ AllOnSide(Result, "immersed", index_of_immersed_facets)
  BY <1>1, <1>2, <1>3, <1>4, FacetsStay
<1>6. Listed(Result) \subseteq 1 .. Len(mesh.facets)
  <2>1. ASSUME NEW g \in ToSet(index_of_emerged_facets) PROVE g \in 1 .. Len(mesh.facets)
    BY <1>1, <1>5, ListedFacet DEF FacetOnSide
  <2>2. ASSUME NEW g \in ToSet(index_of_immersed_facets) PROVE g \in 1 .. Len(mesh.facets)
    BY <1>1, <1>5, ListedFacet DEF FacetOnSide
  <2>3. QED BY <1>1, <2>1, <2>2 DEF Listed
<1>7. QED BY <1>1, <1>2, <1>3, <1>5, <1>6

\* HullInv stays when the lists do and the mesh grows, also when an update is refused.
LEMMA HullInvStays ==
  ASSUME Inv, HullInv, Grown(mesh, mesh'), UNCHANGED classification,
         Updated' => all_relative_immersions' = all_relative_immersions
  PROVE  HullInv'
<1> SUFFICES ASSUME Updated' PROVE Watertight(Result') /\ AllKnown(Result')
  BY DEF HullInv
<1>1. Updated /\ all_relative_immersions' = all_relative_immersions
  BY DEF Updated
<1>2. Watertight(Result) /\ AllKnown(Result)
  BY <1>1 DEF HullInv
<1>3. /\ Result.mesh = mesh /\ Listed(Result) \subseteq 1 .. Len(Result.mesh.facets)
      /\ Result.surface_edges \subseteq 1 .. Len(Result.mesh.edges)
  BY <1>1, LastParts
<1>4. /\ Grown(Result.mesh, (Result').mesh) /\ (Result').immersions = Result.immersions
      /\ (Result').emerged = Result.emerged /\ (Result').immersed = Result.immersed
      /\ (Result').surface_edges = Result.surface_edges
  BY <1>1 DEF Result, classification
<1>5. QED BY <1>2, <1>3, <1>4, WatertightStays

\* The mesh grows from itself.
LEMMA MeshGrowsFromItself ==
  ASSUME Inv
  PROVE  Grown(mesh, mesh)
<1>1. mesh \in Meshes
  BY HullOfMesh DEF Inv
<1>2. QED BY <1>1, GrownItself

\* An update lists a closed surface.
LEMMA UpdateKeepsHullInv ==
  ASSUME HullsAreClosed, Inv, NEW z \in Positions(mesh.nb_of_static_nodes), update(z)
  PROVE  HullInv'
<1>1. PICK hull \in Hulls :
        /\ Static(build(hull)) /\ FacetsExistIn(build(hull)) /\ Grown(build(hull), mesh)
        /\ Positions(mesh.nb_of_static_nodes) \subseteq [1 .. mesh.nb_of_static_nodes -> Int]
  BY HullOfMesh DEF Inv
<1> DEFINE s == build(hull)
           cut == Intersection(mesh, z)
<1>2. EdgesDiffer(s.edges) /\ SameCorners(s, hull)
  BY HullsAreBuilt
<1>3. z \in [1 .. mesh.nb_of_static_nodes -> Int]
  BY <1>1
<1>4. /\ Given(s, z)
      /\ cut = classify_or_split(find_intersection_with_free_surface(Cut(s, z)))
  BY <1>1, <1>3, UpdateClassifies
<1>5. /\ mesh' = cut.mesh /\ all_relative_immersions' = cut.immersions
      /\ index_of_emerged_facets' = cut.emerged
      /\ index_of_immersed_facets' = cut.immersed
      /\ index_of_edges_exactly_on_surface' = cut.surface_edges
  BY DEF update
<1> HIDE DEF s, cut
<1>6. Balanced(s)
  BY <1>2, ClosedIsBalanced
<1>7. Classified(s, z, cut) /\ Watertight(cut) /\ AllKnown(cut)
  BY <1>2, <1>4, <1>6, CutIsWatertight
<1>8. /\ (Result').mesh = cut.mesh /\ (Result').immersions = cut.immersions
      /\ (Result').emerged = cut.emerged /\ (Result').immersed = cut.immersed
      /\ (Result').surface_edges = cut.surface_edges
  BY <1>5 DEF Result
<1>9. Grown(cut.mesh, (Result').mesh)
  BY <1>7, <1>8, ClassifiedParts
<1>10. /\ Listed(cut) \subseteq 1 .. Len(cut.mesh.facets)
       /\ cut.surface_edges \subseteq 1 .. Len(cut.mesh.edges)
  <2>1. AllOnSide(cut, "emerged", cut.emerged) /\ AllOnSide(cut, "immersed", cut.immersed)
    BY <1>7, ClassifiedParts
  <2>2. ASSUME NEW g \in ToSet(cut.emerged) PROVE g \in 1 .. Len(cut.mesh.facets)
    BY <2>1, ListedFacet DEF FacetOnSide
  <2>3. ASSUME NEW g \in ToSet(cut.immersed) PROVE g \in 1 .. Len(cut.mesh.facets)
    BY <2>1, ListedFacet DEF FacetOnSide
  <2>4. QED BY <1>7, <2>2, <2>3 DEF Listed, Classified
<1>11. Watertight(Result') /\ AllKnown(Result')
  BY <1>7, <1>8, <1>9, <1>10, WatertightStays
<1>12. QED BY <1>11 DEF HullInv

\* A closing facet leaves what is listed alone.
LEMMA CloseKeepsHullInv ==
  ASSUME Inv, HullInv, close_contour
  PROVE  HullInv'
<1>1. /\ UNCHANGED classification /\ all_relative_immersions' = all_relative_immersions
      /\ Len(contours) = 2
      /\ mesh' = mesh \/ mesh' = create_facet_from_edges(mesh, contours[1])
  BY DEF close_contour, classification
<1>2. Grown(mesh, mesh')
  <2>1. CASE mesh' = mesh
    BY <2>1, MeshGrowsFromItself
  <2>2. CASE mesh' = create_facet_from_edges(mesh, contours[1])
    <3>1. Grown(mesh, create_facet_from_edges(mesh, contours[1]))
      BY <1>1, ClosingFacetIs
    <3>2. QED BY <2>2, <3>1
  <2>3. QED BY <1>1, <2>1, <2>2
<1>3. QED BY <1>1, <1>2, HullInvStays

\* So does every step that only walks along the surface, or that refuses an update.
LEMMA OthersKeepHullInv ==
  ASSUME Inv, HullInv, UNCHANGED <<mesh, classification>>,
         Updated' => all_relative_immersions' = all_relative_immersions
  PROVE  HullInv'
<1>1. Grown(mesh, mesh')
  BY MeshGrowsFromItself
<1>2. QED BY <1>1, HullInvStays

\* No step of the program opens the hull.
LEMMA HullInvIsInvariant ==
  ASSUME HullsAreClosed
  PROVE  Spec => []HullInv
<1>1. Init => HullInv
  BY DEF Init, HullInv, Updated, NaN
<1>2. Inv /\ HullInv /\ [Next]_vars => HullInv'
  <2> SUFFICES ASSUME Inv, HullInv, [Next]_vars PROVE HullInv'
    OBVIOUS
  <2>1. ASSUME NEW z \in Positions(mesh.nb_of_static_nodes), update(z) PROVE HullInv'
    BY <2>1, UpdateKeepsHullInv
  <2>2. CASE refuse
    <3>1. UNCHANGED <<mesh, classification>> /\ ~Updated'
      BY <2>2 DEF refuse, Updated, classification
    <3>2. QED BY <3>1, OthersKeepHullInv
  <2>3. CASE close_contour
    BY <2>3, CloseKeepsHullInv
  <2>4. CASE build_closing_edge \/ take_component \/ start_contour \/ follow
             \/ closing_facets_built \/ UNCHANGED vars
    <3>1. /\ UNCHANGED <<mesh, classification>>
          /\ all_relative_immersions' = all_relative_immersions
      BY <2>4 DEF build_closing_edge, take_component, start_contour, follow,
                  closing_facets_built, vars, classification
    <3>2. QED BY <3>1, OthersKeepHullInv
  <2>5. QED BY <2>1, <2>2, <2>3, <2>4 DEF Next
<1>3. QED BY <1>1, <1>2, InvIsInvariant, PTL DEF Spec

\* The sides, their counts and the facets that lie on the surface are those of the proofs.
LEMMA SidesAre ==
  ASSUME Inv, Updated
  PROVE  /\ \A f \in 1 .. Len(mesh.facets) :
              Sides(f) = SidesOfNodes(mesh.facets[f]) /\ (OnSurface(f) <=> Flush(Result, f))
         /\ \A F \in SUBSET (1 .. Len(mesh.facets)) : \A x, y :
              Times(F, <<x, y>>) = Count(mesh, F, x, y)
<1>1. mesh.facets \in Seq(Seq(Nat))
  BY HullOfMesh, MeshParts DEF Inv
<1>2. ASSUME NEW f \in 1 .. Len(mesh.facets)
      PROVE  Sides(f) = SidesOfNodes(mesh.facets[f]) /\ (OnSurface(f) <=> Flush(Result, f))
  <2> DEFINE v == mesh.facets[f]
  <2>1. v \in Seq(Nat)
    BY <1>1, ElementOfSeq
  <2>2. DOMAIN v = 1 .. Len(v)
    BY <2>1, LenProperties
  <2>3. Sides(f) = SidesOfNodes(v)
    BY <2>2 DEF Sides, SidesOfNodes
  <2>4. OnSurface(f) <=> \A i \in 1 .. Len(v) : all_relative_immersions[v[i]] = 0
    BY <2>2 DEF OnSurface, ToSet
  <2>5. Flush(Result, f) <=> \A i \in 1 .. Len(v) : all_relative_immersions[v[i]] = 0
    BY DEF Flush, Result
  <2>6. QED BY <2>3, <2>4, <2>5
<1>3. ASSUME NEW F \in SUBSET (1 .. Len(mesh.facets)), NEW x, NEW y
      PROVE  Times(F, <<x, y>>) = Count(mesh, F, x, y)
  <2>1. \A f \in F : Sides(f) = SidesOfNodes(mesh.facets[f])
    BY <1>2
  <2>2. {f \in F : <<x, y>> \in Sides(f)} = HaveSide(mesh, F, x, y)
    BY <2>1 DEF HaveSide
  <2>3. QED BY <2>2 DEF Times, Count
<1>4. QED BY <1>2, <1>3

\* A side is a pair of nodes.
LEMMA SideIsPair ==
  ASSUME Inv, Updated, NEW F \in SUBSET (1 .. Len(mesh.facets)), NEW s \in SidesOf(F)
  PROVE  \E g \in F : \E x, y : s = <<x, y>> /\ <<x, y>> \in SidesOfNodes(mesh.facets[g])
<1>1. PICK g \in F : s \in Sides(g)
  BY DEF SidesOf
<1>2. s \in SidesOfNodes(mesh.facets[g])
  BY <1>1, SidesAre
<1>3. QED BY <1>1, <1>2 DEF SidesOfNodes

\* If every side between two corners of the hull is run through as often in each direction,
\* so is every side of the facets that an update leaves: no facet is lost, counted twice
\* or turned over, and the parts of neighbouring facets have the same nodes on their
\* common side.
THEOREM HullsStayWatertight ==
  ASSUME HullsAreClosed
  PROVE  Spec => []TheHullStaysWatertight
<1>1. Inv /\ HullInv => TheHullStaysWatertight
  <2> SUFFICES ASSUME Inv, HullInv, Updated
               PROVE  OpenSides(Immersed \cup {f \in Emerged : ~OnSurface(f)}) = {}
    BY DEF TheHullStaysWatertight
  <2> DEFINE T == Target(Result)
  <2>1. /\ Listed(Result) = Emerged \cup Immersed
        /\ Listed(Result) \subseteq 1 .. Len(mesh.facets) /\ Result.mesh = mesh
        /\ T = Immersed \cup {f \in Emerged : ~Flush(Result, f)}
    BY LastParts DEF Listed, Emerged, Immersed, Target, Counted
  <2>2. T \in SUBSET (1 .. Len(mesh.facets))
    BY <2>1
  <2>3. Immersed \cup {f \in Emerged : ~OnSurface(f)} = T
    <3>1. \A f \in Emerged : OnSurface(f) <=> Flush(Result, f)
      BY <2>1, SidesAre
    <3>2. QED BY <2>1, <3>1
  <2>4. ASSUME NEW s \in OpenSides(T) PROVE FALSE
    <3>1. s \in SidesOf(T) /\ Times(T, s) # Times(T, Backwards(s))
      BY <2>4 DEF OpenSides
    <3>2. PICK x, y : s = <<x, y>>
      <4>1. \E g \in T : \E x, y : s = <<x, y>> /\ <<x, y>> \in SidesOfNodes(mesh.facets[g])
        BY <2>2, <3>1, SideIsPair
      <4>2. QED BY <4>1
    <3>3. Backwards(s) = <<y, x>>
      BY <3>2 DEF Backwards
    <3>4. Times(T, s) = Count(mesh, T, x, y) /\ Times(T, Backwards(s)) = Count(mesh, T, y, x)
      BY <2>2, <3>2, <3>3, SidesAre
    <3>5. Count(mesh, T, x, y) = Count(mesh, T, y, x)
      BY <2>1 DEF HullInv, Watertight
    <3>6. QED BY <3>1, <3>4, <3>5
  <2>5. QED BY <2>3, <2>4
<1>2. QED BY <1>1, InvIsInvariant, HullInvIsInvariant, PTL

\* A node of a facet of one side that is not on the surface is not on a facet of the other
\* side, nor on one that lies on the surface.
LEMMA SideOfOneList ==
  ASSUME Inv, HullInv, Updated, NEW F, F = Emerged \/ F = Immersed,
         NEW x, NEW y, ~(Result.immersions[x] = 0 /\ Result.immersions[y] = 0),
         NEW g \in F, <<x, y>> \in SidesOfNodes(mesh.facets[g])
  PROVE  /\ HaveSide(mesh, F, x, y) = HaveSide(mesh, Target(Result), x, y)
         /\ HaveSide(mesh, F, y, x) = HaveSide(mesh, Target(Result), y, x)
<1> DEFINE z(n) == Result.immersions[n]
<1>1. /\ Result.mesh = mesh /\ Listed(Result) = Emerged \cup Immersed
      /\ Target(Result) = Immersed \cup {f \in Emerged : ~Flush(Result, f)}
  BY LastParts DEF Listed, Emerged, Immersed, Target, Counted
<1>2. ASSUME NEW h \in Emerged \cup Immersed, NEW a, NEW b,
             <<a, b>> \in SidesOfNodes(mesh.facets[h])
      PROVE  /\ z(a) \in Int /\ z(b) \in Int
             /\ h \in Emerged => z(a) <= 0 /\ z(b) <= 0
             /\ h \in Immersed => z(a) >= 0 /\ z(b) >= 0
             /\ Flush(Result, h) => z(a) = 0 /\ z(b) = 0
  <2>1. h \in 1 .. Len(mesh.facets) /\ FacetsExistIn(mesh)
    BY <1>1, LastParts
  <2>2. Len(mesh.facets[h]) \in Nat
    <3>1. mesh.facets \in Seq(Seq(Nat))
      BY LastParts, MeshParts
    <3>2. mesh.facets[h] \in Seq(Nat)
      BY <2>1, <3>1, ElementOfSeq
    <3>3. QED BY <3>2, LenProperties
  <2>3. PICK i, j \in 1 .. Len(mesh.facets[h]) : a = mesh.facets[h][i] /\ b = mesh.facets[h][j]
    BY <1>2, <2>2, SidesJoinNodes
  <2>4. a \in 1 .. mesh.total_number_of_nodes /\ b \in 1 .. mesh.total_number_of_nodes
    BY <2>1, <2>3 DEF FacetsExistIn
  <2>5. z(a) \in Int /\ z(b) \in Int
    <3>1. /\ Result.immersions \in Seq(Int)
          /\ a \in 1 .. Len(Result.immersions) /\ b \in 1 .. Len(Result.immersions)
      BY <2>4, LastParts
    <3>2. QED BY <3>1, ElementOfSeq
  <2>6. ASSUME NEW side, FacetOnSide(Result, side, h)
        PROVE  OnSide(Result, side, a) /\ OnSide(Result, side, b)
    BY <1>1, <2>3, <2>6 DEF FacetOnSide
  <2>7. h \in Emerged => z(a) <= 0 /\ z(b) <= 0
    <3>1. h \in Emerged => FacetOnSide(Result, "emerged", h)
      BY LastParts, ListedFacet DEF Emerged
    <3>2. QED BY <2>6, <3>1 DEF OnSide
  <2>8. h \in Immersed => z(a) >= 0 /\ z(b) >= 0
    <3>1. h \in Immersed => FacetOnSide(Result, "immersed", h)
      BY LastParts, ListedFacet DEF Immersed
    <3>2. QED BY <2>6, <3>1 DEF OnSide
  <2>9. Flush(Result, h) => z(a) = 0 /\ z(b) = 0
    BY <1>1, <2>3 DEF Flush
  <2>10. QED BY <2>5, <2>7, <2>8, <2>9
<1>3. /\ g \in Emerged \cup Immersed /\ ~(z(x) = 0 /\ z(y) = 0)
      /\ F = Emerged \/ F = Immersed
  OBVIOUS
<1> HIDE DEF z
<1>4. ASSUME NEW h \in Emerged \cup Immersed,
             <<x, y>> \in SidesOfNodes(mesh.facets[h]) \/ <<y, x>> \in SidesOfNodes(mesh.facets[h])
      PROVE  h \in F <=> h \in Target(Result)
  <2>1. /\ z(x) \in Int /\ z(y) \in Int
        /\ g \in Emerged => z(x) <= 0 /\ z(y) <= 0
        /\ g \in Immersed => z(x) >= 0 /\ z(y) >= 0
    BY <1>2, <1>3
  <2>2. /\ h \in Emerged => z(x) <= 0 /\ z(y) <= 0
        /\ h \in Immersed => z(x) >= 0 /\ z(y) >= 0
        /\ Flush(Result, h) => z(x) = 0 /\ z(y) = 0
    BY <1>2, <1>4
  <2>3. CASE F = Emerged
    <3>1. z(x) < 0 \/ z(y) < 0
      BY <1>3, <2>1, <2>3
    <3>2. h \notin Immersed /\ ~Flush(Result, h)
      BY <2>1, <2>2, <3>1
    <3>3. QED BY <1>1, <1>4, <2>3, <3>2
  <2>4. CASE F = Immersed
    <3>1. z(x) > 0 \/ z(y) > 0
      BY <1>3, <2>1, <2>4
    <3>2. h \notin Emerged
      BY <2>1, <2>2, <3>1
    <3>3. QED BY <1>1, <1>4, <2>4, <3>2
  <2>5. QED BY <1>3, <2>3, <2>4
<1>5. F \subseteq Emerged \cup Immersed /\ Target(Result) \subseteq Emerged \cup Immersed
  BY <1>1, <1>3
<1>6. QED BY <1>4, <1>5 DEF HaveSide

\* For the same hulls, the emerged and the immersed facets are each open along edges known
\* to lie on the surface only: elsewhere, neighbours are on the same side.
THEOREM HullsOpenOnTheSurface ==
  ASSUME HullsAreClosed
  PROVE  Spec => []OpenOnlyOnTheSurface
<1>1. Inv /\ HullInv => OpenOnlyOnTheSurface
  <2> SUFFICES ASSUME Inv, HullInv, Updated,
                      NEW F, F = Emerged \/ F = Immersed, NEW s \in OpenSides(F)
               PROVE  \E e \in index_of_edges_exactly_on_surface : Ends(mesh, e) = {s[1], s[2]}
    BY DEF OpenOnlyOnTheSurface
  <2>1. /\ Listed(Result) = Emerged \cup Immersed
        /\ Listed(Result) \subseteq 1 .. Len(mesh.facets) /\ Result.mesh = mesh
        /\ Result.surface_edges = index_of_edges_exactly_on_surface
    BY LastParts DEF Listed, Emerged, Immersed
  <2>2. F \in SUBSET (1 .. Len(mesh.facets)) /\ F \subseteq Listed(Result)
    BY <2>1
  <2>3. s \in SidesOf(F) /\ Times(F, s) # Times(F, Backwards(s))
    BY DEF OpenSides
  <2>4. PICK g \in F : \E x, y : s = <<x, y>> /\ <<x, y>> \in SidesOfNodes(mesh.facets[g])
    BY <2>2, <2>3, SideIsPair
  <2>5. PICK x, y : s = <<x, y>> /\ <<x, y>> \in SidesOfNodes(mesh.facets[g])
    BY <2>4
  <2>6. Count(mesh, F, x, y) # Count(mesh, F, y, x)
    <3>1. Backwards(s) = <<y, x>>
      BY <2>5 DEF Backwards
    <3>2. Times(F, s) = Count(mesh, F, x, y) /\ Times(F, Backwards(s)) = Count(mesh, F, y, x)
      BY <2>2, <2>5, <3>1, SidesAre
    <3>3. QED BY <2>3, <3>2
  <2>7. Result.immersions[x] = 0 /\ Result.immersions[y] = 0
    <3> SUFFICES ASSUME ~(Result.immersions[x] = 0 /\ Result.immersions[y] = 0) PROVE FALSE
      OBVIOUS
    <3>1. /\ HaveSide(mesh, F, x, y) = HaveSide(mesh, Target(Result), x, y)
          /\ HaveSide(mesh, F, y, x) = HaveSide(mesh, Target(Result), y, x)
      BY <2>5, SideOfOneList
    <3>2. Count(mesh, Target(Result), x, y) = Count(mesh, Target(Result), y, x)
      BY <2>1 DEF HullInv, Watertight
    <3>3. QED BY <2>6, <3>1, <3>2 DEF Count
  <2>8. SurfaceKnown(Result, g)
    BY <2>2 DEF HullInv, AllKnown
  <2>9. PICK e \in Result.surface_edges : Between(mesh, e, x, y)
    BY <2>1, <2>5, <2>7, <2>8 DEF SurfaceKnown
  <2>10. Ends(mesh, e) = {s[1], s[2]}
    BY <2>5, <2>9 DEF Ends, Between
  <2>11. QED BY <2>1, <2>9, <2>10
<1>2. QED BY <1>1, InvIsInvariant, HullInvIsInvariant, PTL

-----------------------------------------------------------------------------
(* The closing facets *)

\* The edges of a hull join different pairs of nodes, and if its facets have different
\* corners, so have those of the mesh.
LEMMA HullIsSimple ==
  ASSUME FacetsDiffer, NEW hull \in Hulls
  PROVE  Simple(build(hull))
<1> DEFINE s == build(hull)
<1>1. EdgesDiffer(s.edges) /\ EdgesJoinTwo(s.edges) /\ SameCorners(s, hull)
  BY HullsAreBuilt
<1> HIDE DEF s
<1>2. Apart(s, 1 .. Len(s.edges))
  BY <1>1 DEF Apart, EdgesDiffer, EdgesJoinTwo, Joins, Ends
<1>3. hull \in Seq(Triangles) /\ DOMAIN hull = 1 .. Len(hull)
  BY HullsAssumption, LenProperties
<1>4. ASSUME NEW f \in 1 .. Len(hull)
      PROVE  ToSet(hull[f]) = {hull[f][1], hull[f][2], hull[f][3]}
  <2> DEFINE t == hull[f]
  <2>1. t \in Triangles
    BY <1>3, ElementOfSeq
  <2> HIDE DEF t
  <2>2. DOMAIN t = 1 .. 3
    BY <2>1 DEF Triangles
  <2>3. ToSet(t) = {t[i] : i \in 1 .. 3}
    BY <2>2 DEF ToSet
  <2>4. ToSet(t) = {t[1], t[2], t[3]}
    BY <2>3
  <2>5. QED BY <2>4 DEF t
<1>5. ASSUME NEW f \in 1 .. Len(hull), NEW g \in 1 .. Len(hull), CornersAt(s, f) \subseteq CornersAt(s, g)
      PROVE  ToSet(hull[f]) \subseteq ToSet(hull[g])
  <2>1. ASSUME NEW i \in 1 .. 3 PROVE hull[f][i] \in ToSet(hull[g])
    <3>1. s.facets[f][i] \in CornersAt(s, g)
      BY <1>5 DEF CornersAt
    <3>2. PICK j \in 1 .. 3 : s.facets[f][i] = s.facets[g][j]
      BY <3>1 DEF CornersAt
    <3>3. hull[f][i] = hull[g][j]
      BY <1>1, <3>2 DEF SameCorners
    <3>4. hull[g][j] \in {hull[g][1], hull[g][2], hull[g][3]}
      OBVIOUS
    <3>5. QED BY <1>4, <3>3, <3>4
  <2>2. 1 \in 1 .. 3 /\ 2 \in 1 .. 3 /\ 3 \in 1 .. 3
    OBVIOUS
  <2>3. hull[f][1] \in ToSet(hull[g]) /\ hull[f][2] \in ToSet(hull[g]) /\ hull[f][3] \in ToSet(hull[g])
    BY <2>1, <2>2
  <2>4. QED BY <1>4, <2>3
<1>6. FacetsApart(s)
  <2>1. Len(s.facets) = Len(hull)
    BY <1>1 DEF SameCorners
  <2>2. SUFFICES ASSUME NEW f \in 1 .. Len(hull), NEW g \in 1 .. Len(hull), f # g,
                        CornersAt(s, f) = CornersAt(s, g)
                 PROVE  FALSE
    BY <2>1 DEF FacetsApart
  <2>3. ToSet(hull[f]) \subseteq ToSet(hull[g]) /\ ToSet(hull[g]) \subseteq ToSet(hull[f])
    <3>1. CornersAt(s, f) \subseteq CornersAt(s, g) /\ CornersAt(s, g) \subseteq CornersAt(s, f)
      BY <2>2
    <3>2. QED BY <1>5, <3>1
  <2>4. \A i, j \in DOMAIN hull : i # j => ToSet(hull[i]) # ToSet(hull[j])
    BY DEF FacetsDiffer
  <2>5. f \in DOMAIN hull /\ g \in DOMAIN hull
    BY <1>3
  <2>6. ToSet(hull[f]) = ToSet(hull[g])
    BY <2>3
  <2>7. QED BY <2>2, <2>4, <2>5, <2>6
<1>7. QED BY <1>2, <1>6 DEF Simple, s

\* No two edges on the surface have the same ends.
SurfaceInv == Updated => Apart(mesh, Surface)

LEMMA SurfaceInvIsInvariant ==
  ASSUME FacetsDiffer
  PROVE  Spec => []SurfaceInv
<1>1. Init => SurfaceInv
  BY DEF Init, SurfaceInv, Updated, NaN
<1>2. Inv /\ SurfaceInv /\ [Next]_vars => SurfaceInv'
  <2> SUFFICES ASSUME Inv, SurfaceInv, [Next]_vars PROVE SurfaceInv'
    OBVIOUS
  <2>1. ASSUME NEW z \in Positions(mesh.nb_of_static_nodes), update(z) PROVE SurfaceInv'
    <3>1. PICK hull \in Hulls :
            /\ Static(build(hull)) /\ FacetsExistIn(build(hull)) /\ Grown(build(hull), mesh)
            /\ Positions(mesh.nb_of_static_nodes) \subseteq [1 .. mesh.nb_of_static_nodes -> Int]
      BY HullOfMesh DEF Inv
    <3> DEFINE s == build(hull)
               cut == Intersection(mesh, z)
    <3>2. z \in [1 .. mesh.nb_of_static_nodes -> Int]
      BY <3>1
    <3>3. /\ Given(s, z)
          /\ cut = classify_or_split(find_intersection_with_free_surface(Cut(s, z)))
      BY <3>1, <3>2, UpdateClassifies
    <3>4. Simple(s)
      BY HullIsSimple
    <3>5. mesh' = cut.mesh /\ Surface' = cut.surface_edges
      BY <2>1 DEF update, Surface
    <3> HIDE DEF s, cut
    <3>6. Apart(cut.mesh, cut.surface_edges)
      BY <3>3, <3>4, CutIsApart
    <3>7. QED BY <3>5, <3>6 DEF SurfaceInv
  <2>2. CASE refuse
    BY <2>2 DEF refuse, SurfaceInv, Updated
  <2>3. CASE close_contour
    <3>1. /\ Surface' = Surface /\ (Updated' => Updated)
          /\ mesh' = mesh \/ mesh' = create_facet_from_edges(mesh, contours[1])
      BY <2>3 DEF close_contour, classification, Surface, Updated
    <3>2. mesh'.edges = mesh.edges
      <4>1. Len(contours) = 2
        BY <2>3 DEF close_contour
      <4>2. create_facet_from_edges(mesh, contours[1]).edges = mesh.edges
        BY <4>1, ClosingFacetIs
      <4>3. QED BY <3>1, <4>2
    <3>3. Apart(mesh', Surface) <=> Apart(mesh, Surface)
      BY <3>2, SameEdges
    <3>4. QED BY <3>1, <3>3 DEF SurfaceInv
  <2>4. CASE build_closing_edge \/ take_component \/ start_contour \/ follow
             \/ closing_facets_built \/ UNCHANGED vars
    <3>1. mesh' = mesh /\ Surface' = Surface /\ (Updated' => Updated)
      BY <2>4 DEF build_closing_edge, take_component, start_contour, follow,
                  closing_facets_built, vars, classification, Surface, Updated
    <3>2. QED BY <3>1 DEF SurfaceInv
  <2>5. QED BY <2>1, <2>2, <2>3, <2>4 DEF Next
<1>3. QED BY <1>1, <1>2, InvIsInvariant, PTL DEF Spec

Groups == group_connected_edges(mesh, Surface)
\* The ends of some edges, and those of the sides of the closing facets.
Spans(m, E) == {Ends(m, e) : e \in E}
PairsOf(v) == {{s[1], s[2]} : s \in SidesOfNodes(v)}
Closed == UNION {PairsOf(mesh.facets[f]) : f \in Closing}

\* While closing facets are built, those there are and the loops that are left make up the
\* edges on the surface; each contour found so far is a tour of its loop.
Building ==
  /\ building # "failed"
  /\ components \subseteq Groups /\ (component # {} => component \in Groups)
  /\ path # <<>> => Walk(mesh, component, path)
  /\ \A i \in 1 .. Len(contours) : Tour(mesh, component, contours[i])
  /\ index_of_facets_exactly_on_the_surface \in Seq(Nat)
  /\ Closing \subseteq 1 .. Len(mesh.facets)
  /\ building = "yes" => /\ need_to_update_closing_facet
                         /\ Closed \cup Spans(mesh, (UNION components) \cup component) = Spans(mesh, Surface)
  /\ building = "no" /\ need_to_update_closing_facet =>
       index_of_facets_exactly_on_the_surface = <<>>
  /\ ~need_to_update_closing_facet => Closed = Spans(mesh, Surface)

LoopInv == Updated /\ Loops => Building

\* What is taken from some sets is still among them.
LEMMA TakenFrom ==
  ASSUME NEW S, NEW c \in S
  PROVE  (UNION (S \ {c})) \cup c = UNION S
<1> DEFINE T == S \ {c}
<1>1. T \subseteq S /\ \A d \in S : d # c => d \in T
  OBVIOUS
<1> HIDE DEF T
<1>2. ASSUME NEW x \in UNION S PROVE x \in (UNION T) \cup c
  <2>1. PICK d \in S : x \in d
    OBVIOUS
  <2>2. CASE d = c
    BY <2>1, <2>2
  <2>3. CASE d # c
    <3>1. d \in T
      BY <1>1, <2>3
    <3>2. QED BY <2>1, <3>1
  <2>4. QED BY <2>2, <2>3
<1>3. ASSUME NEW x \in (UNION T) \cup c PROVE x \in UNION S
  <2>1. PICK d \in S : x \in d
    BY <1>1
  <2>2. QED BY <2>1
<1>4. (UNION T) \cup c = UNION S
  BY <1>2, <1>3
<1>5. QED BY <1>4 DEF T

\* The ends of two sets of edges.
LEMMA SpansTogether ==
  ASSUME NEW m, NEW A, NEW B
  PROVE  Spans(m, A \cup B) = Spans(m, A) \cup Spans(m, B)
BY DEF Spans

\* What a part of the surface's edges is when all are loops.
LEMMA GroupIs ==
  ASSUME Inv, SurfaceInv, Updated, Loops, NEW C \in Groups
  PROVE  /\ Ring(mesh, C) /\ Joined(mesh, C)
         /\ C \subseteq Surface /\ C # {} /\ Cardinality(C) # 1
<1>1. IsFiniteSet(Surface) /\ Apart(mesh, Surface)
  BY SurfaceIsFinite DEF Inv, SurfaceInv
<1>2. PICK e \in Surface : C = Component(mesh, Surface, e)
  BY DEF Groups, group_connected_edges
<1>3. C \subseteq Surface /\ e \in C /\ Joined(mesh, C)
  BY <1>1, <1>2, ComponentIs, ComponentIsJoined
<1>4. IsLoop(mesh, C)
  BY DEF Loops, Groups, Surface
<1>5. IsFiniteSet(C)
  BY <1>1, <1>3, FS_Subset
<1>6. Apart(mesh, C)
  BY <1>1, <1>3 DEF Apart
<1>7. Cardinality(C) # 1
  <2>1. mesh.edges[e][1] \in Ends(mesh, e)
    BY DEF Ends
  <2>2. PICK d \in C : d # e
    BY <1>3, <1>4, <1>5, <2>1, TwoAtNode
  <2>3. \A x : C # {x}
    BY <1>3, <2>2
  <2>4. QED BY <1>5, <2>3, FS_Singleton
<1>8. QED BY <1>3, <1>4, <1>5, <1>6, <1>7 DEF Ring

\* The parts make up the edges on the surface.
LEMMA GroupsCover ==
  ASSUME Inv
  PROVE  UNION Groups = Surface
<1>1. IsFiniteSet(Surface)
  BY SurfaceIsFinite DEF Inv
<1>2. \A e \in Surface : Component(mesh, Surface, e) \subseteq Surface
                         /\ e \in Component(mesh, Surface, e)
  BY <1>1, ComponentIs, ComponentIsJoined
<1>3. QED BY <1>2 DEF Groups, group_connected_edges

\* The closing facets have yet to be built.
LEMMA UpdateBuilds ==
  ASSUME NEW z, update(z)
  PROVE  Building'
<1>1. /\ building' = "no" /\ components' = {} /\ component' = {} /\ path' = <<>>
      /\ contours' = <<>> /\ index_of_facets_exactly_on_the_surface' = <<>>
      /\ need_to_update_closing_facet' = TRUE
  BY DEF update, NoWalk
<1>2. Closing' = {}
  BY <1>1 DEF Closing, ToSet
<1>3. <<>> \in Seq(Nat) /\ \A i \in 1 .. Len(<<>>) : FALSE
  BY EmptySeq
<1>4. QED BY <1>1, <1>2, <1>3 DEF Building

\* At first all parts are left.
LEMMA BuildBuilds ==
  ASSUME Inv, Building, build_closing_edge
  PROVE  Building'
<1>1. /\ mesh' = mesh /\ Surface' = Surface /\ building = "no" /\ building' = "yes"
      /\ need_to_update_closing_facet /\ need_to_update_closing_facet'
      /\ components' = Groups /\ component' = component /\ path' = path
      /\ contours' = contours
      /\ index_of_facets_exactly_on_the_surface' = index_of_facets_exactly_on_the_surface
  BY DEF build_closing_edge, classification, walk, Surface, Groups
<1>2. component = {} /\ index_of_facets_exactly_on_the_surface = <<>>
  BY <1>1 DEF Building, Inv, WalkInv
<1>3. Closing = {} /\ Closing' = Closing /\ Groups' = Groups
  BY <1>1, <1>2 DEF Closing, ToSet, Groups
<1>4. Closed' = {} /\ (UNION components') \cup component' = Surface
  BY <1>1, <1>2, <1>3, GroupsCover DEF Closed
<1>5. (Closed \cup Spans(mesh, (UNION components) \cup component))' = Spans(mesh, Surface)'
  BY <1>1, <1>4 DEF Spans
<1>6. QED BY <1>1, <1>2, <1>3, <1>5 DEF Building

\* No loop is a single edge, so the component is what is taken.
LEMMA TakeBuilds ==
  ASSUME Inv, SurfaceInv, Updated, Loops, Building, take_component
  PROVE  Building'
<1>1. /\ mesh' = mesh /\ Surface' = Surface /\ building = "yes" /\ building' = "yes"
      /\ need_to_update_closing_facet' = need_to_update_closing_facet
      /\ component = {} /\ path' = path /\ contours' = contours
      /\ index_of_facets_exactly_on_the_surface' = index_of_facets_exactly_on_the_surface
  BY DEF take_component, classification, Surface
<1>2. PICK c \in components : /\ components' = components \ {c}
                              /\ component' = IF Cardinality(c) = 1 THEN {} ELSE c
  BY DEF take_component
<1>3. c \in Groups
  BY DEF Building
<1>4. component' = c
  BY <1>2, <1>3, GroupIs
<1>5. path = <<>> /\ contours = <<>>
  BY <1>1 DEF Inv, WalkInv
<1>6. (UNION components') \cup component' = (UNION components) \cup component
  <2>1. (UNION components') \cup component' = UNION components
    BY <1>2, <1>4, TakenFrom
  <2>2. QED BY <1>1, <2>1
<1>7. Closing' = Closing /\ Closed' = Closed /\ Groups' = Groups
  BY <1>1 DEF Closing, Closed, Groups
<1>8. (Closed \cup Spans(mesh, (UNION components) \cup component))' = Spans(mesh, Surface)'
  <2>1. Closed \cup Spans(mesh, (UNION components) \cup component) = Spans(mesh, Surface)
    BY <1>1 DEF Building
  <2>2. Spans(mesh', (UNION components') \cup component')
          = Spans(mesh, (UNION components) \cup component)
    BY <1>1, <1>6
  <2>3. Spans(mesh', Surface') = Spans(mesh, Surface)
    BY <1>1
  <2>4. QED BY <1>7, <2>1, <2>2, <2>3
<1>9. \A i \in 1 .. Len(contours') : FALSE
  BY <1>1, <1>5
<1>10. QED BY <1>1, <1>2, <1>3, <1>4, <1>5, <1>7, <1>8, <1>9 DEF Building

\* One edge is a walk.
LEMMA StartBuilds ==
  ASSUME Inv, Building, start_contour
  PROVE  Building'
<1>1. /\ mesh' = mesh /\ Surface' = Surface /\ building' = building
      /\ need_to_update_closing_facet' = need_to_update_closing_facet
      /\ components' = components /\ component' = component /\ contours' = contours
      /\ index_of_facets_exactly_on_the_surface' = index_of_facets_exactly_on_the_surface
  BY DEF start_contour, classification, Surface
<1>2. PICK e \in component : path' = <<OrientedEdge(e, FALSE)>>
  BY DEF start_contour
<1>3. Walk(mesh, component, path')
  <2> DEFINE o == OrientedEdge(e, FALSE)
             S == Along(component)
  <2>1. o \in S /\ path' = <<o>>
    BY <1>2 DEF OrientedEdge, Along
  <2> HIDE DEF o, S
  <2>2. path' \in Seq(S) /\ Len(path') = 1
    BY <2>1
  <2>3. QED BY <2>2 DEF Walk, S
<1>4. Closing' = Closing /\ Closed' = Closed /\ Groups' = Groups
  BY <1>1 DEF Closing, Closed, Groups, Spans
<1>5. QED BY <1>1, <1>3, <1>4 DEF Building

\* A walk goes on, or is a tour.
LEMMA FollowBuilds ==
  ASSUME Inv, SurfaceInv, Updated, Loops, Building, follow
  PROVE  Building'
<1> DEFINE o == path[Len(path)]
           EndsWith(contour) == contours' = Append(contours, contour) /\ path' = <<>>
<1>1. /\ mesh' = mesh /\ Surface' = Surface /\ building' = building /\ path # <<>>
      /\ need_to_update_closing_facet' = need_to_update_closing_facet
      /\ components' = components /\ component' = component
      /\ index_of_facets_exactly_on_the_surface' = index_of_facets_exactly_on_the_surface
  BY DEF follow, classification, Surface
<1>2. component # {} /\ component \in Groups
  BY <1>1 DEF Building, Inv, WalkInv
<1>3. Ring(mesh, component) /\ Joined(mesh, component)
  BY <1>2, GroupIs
<1>4. Walk(mesh, component, path)
  BY <1>1 DEF Building
<1>5. ~HasNoNextEdge(mesh, component, o)
  <2>1. path \in Seq(Along(component)) /\ Len(path) \in 1 .. Len(path)
    BY <1>4, LenProperties DEF Walk
  <2>2. o \in Along(component)
    BY <2>1, ElementOfSeq
  <2>3. QED BY <1>3, <2>2, HasNextEdge
<1>6. PICK edge \in ConnectedToEnd(mesh, component, o) :
        IF edge = path[1].edge \/ Len(path) = Cardinality(component)
        THEN EndsWith(path) \/ EndsWith(flip(path))
        ELSE /\ path' = Append(path, OrientedEdge(edge, need_to_reverse(mesh, o, edge)))
             /\ UNCHANGED contours
  BY <1>5 DEF follow
<1>7. IF edge = path[1].edge \/ Len(path) = Cardinality(component)
      THEN Tour(mesh, component, path)
      ELSE Walk(mesh, component,
                Append(path, OrientedEdge(edge, need_to_reverse(mesh, o, edge))))
  BY <1>3, <1>4, WalkStops
<1>8. contours \in Seq(Seq(Along(Surface))) /\ path \in Seq(Along(Surface))
  BY DEF Inv, WalkInv
<1> HIDE DEF o
<1>9. ASSUME NEW contour \in Seq(Along(Surface)), Tour(mesh, component, contour),
             EndsWith(contour)
      PROVE  /\ path' # <<>> => Walk(mesh, component, path')
             /\ \A i \in 1 .. Len(contours') : Tour(mesh, component, contours'[i])
  <2> DEFINE n == Len(contours)
  <2>1. n \in Nat /\ \A i \in 1 .. n : Tour(mesh, component, contours[i])
    BY <1>8, LenProperties DEF Building
  <2>2. /\ Len(contours') = n + 1 /\ contours'[n + 1] = contour
        /\ \A i \in 1 .. n : contours'[i] = contours[i]
    BY <1>8, <1>9, AppendProperties
  <2> HIDE DEF n
  <2>3. ASSUME NEW i \in 1 .. n + 1 PROVE Tour(mesh, component, contours'[i])
    <3>1. i \in 1 .. n \/ i = n + 1
      BY <2>1
    <3>2. QED BY <1>9, <2>1, <2>2, <3>1
  <2>4. QED BY <1>9, <2>2, <2>3
<1>10. /\ path' # <<>> => Walk(mesh, component, path')
       /\ \A i \in 1 .. Len(contours') : Tour(mesh, component, contours'[i])
  <2>1. CASE edge = path[1].edge \/ Len(path) = Cardinality(component)
    <3>1. Tour(mesh, component, path)
      BY <1>7, <2>1
    <3>2. Tour(mesh, component, flip(path)) /\ flip(path) \in Seq(Along(Surface))
      BY <1>8, <3>1, FlipTour, FlipIs
    <3>3. EndsWith(path) \/ EndsWith(flip(path))
      BY <1>6, <2>1
    <3> HIDE DEF EndsWith
    <3>4. QED BY <1>8, <1>9, <3>1, <3>2, <3>3
  <2>2. CASE ~(edge = path[1].edge \/ Len(path) = Cardinality(component))
    <3>1. Walk(mesh, component, path') /\ contours' = contours
      BY <1>6, <1>7, <2>2
    <3>2. QED BY <3>1 DEF Building
  <2>3. QED BY <2>1, <2>2
<1>11. Closing' = Closing /\ Closed' = Closed /\ Groups' = Groups
  BY <1>1 DEF Closing, Closed, Groups, Spans
<1>12. QED BY <1>1, <1>10, <1>11 DEF Building

\* Both contours are tours of the loop: the first becomes a closing facet.
LEMMA CloseBuilds ==
  ASSUME Inv, SurfaceInv, Updated, Loops, Building, close_contour
  PROVE  Building'
<1> DEFINE new == Len(mesh.facets) + 1
           list == index_of_facets_exactly_on_the_surface
           r == create_facet_from_edges(mesh, contours[1])
<1>1. /\ Surface' = Surface /\ Len(contours) = 2
      /\ need_to_update_closing_facet' = need_to_update_closing_facet
      /\ components' = components /\ component' = {} /\ path' = <<>> /\ contours' = <<>>
  BY DEF close_contour, NoWalk, classification, Surface
<1>2. /\ building = "yes" /\ component # {} /\ component \in Groups
      /\ contours # <<>> /\ 1 \in 1 .. Len(contours) /\ 2 \in 1 .. Len(contours)
  <2>1. contours # <<>> /\ 1 \in 1 .. Len(contours) /\ 2 \in 1 .. Len(contours)
    BY <1>1
  <2>2. component # {}
    BY <2>1 DEF Inv, WalkInv
  <2>3. QED BY <2>1, <2>2 DEF Building, Inv, WalkInv
<1>3. Tour(mesh, component, contours[1]) /\ Tour(mesh, component, contours[2])
  BY <1>2 DEF Building
<1>4. have_same_elements(contours[1], contours[2]) /\ contours[1] # <<>>
  BY <1>3 DEF Tour, Walk, have_same_elements
<1>5. building' = building /\ mesh' = r /\ list' = Append(list, new)
  BY <1>4 DEF close_contour
<1>6. /\ Grown(mesh, r) /\ r.edges = mesh.edges /\ Len(r.facets) = new
      /\ r.facets[new] = NewFacet(mesh, contours[1])
  BY <1>1, ClosingFacetIs
<1>7. list \in Seq(Nat) /\ Closing \subseteq 1 .. Len(mesh.facets) /\ Len(mesh.facets) \in Nat
  BY HullOfMesh DEF Building, Inv
<1>8. \A f \in 1 .. Len(mesh.facets) : r.facets[f] = mesh.facets[f]
  BY <1>6 DEF Grown
<1> HIDE DEF r
<1>9. list' \in Seq(Nat) /\ Closing' = Closing \cup {new}
  <2>1. new \in Nat
    BY <1>7
  <2> HIDE DEF new
  <2>2. list' \in Seq(Nat)
    BY <1>5, <1>7, <2>1, AppendProperties
  <2>3. ToSet(Append(list, new)) = ToSet(list) \cup {new}
    BY <1>7, <2>1, ListedAppend
  <2>4. QED BY <1>5, <2>2, <2>3 DEF Closing
<1>10. Closing' \subseteq 1 .. Len(mesh'.facets)
  <2> DEFINE n == Len(mesh.facets)
  <2>1. n \in Nat /\ Len(mesh'.facets) = n + 1 /\ Closing \subseteq 1 .. n
        /\ Closing' = Closing \cup {n + 1}
    BY <1>5, <1>6, <1>7, <1>9
  <2> HIDE DEF n
  <2>2. QED BY <2>1
<1>11. PairsOf(r.facets[new]) = Spans(mesh, component)
  <2>1. mesh \in Meshes /\ EdgesExist(mesh) /\ component \subseteq 1 .. Len(mesh.edges)
    BY HullOfMesh DEF Inv, MeshInv, WalkInv
  <2>2. Ring(mesh, component)
    BY <1>2, GroupIs
  <2>3. QED BY <1>3, <1>6, <2>1, <2>2, TourFacet DEF PairsOf, Spans
<1>12. Closed' = Closed \cup Spans(mesh, component)
  <2> DEFINE P(f) == PairsOf(mesh.facets[f])
             Q(f) == PairsOf(r.facets[f])
  <2>1. \A f \in Closing : Q(f) = P(f)
    BY <1>7, <1>8
  <2>2. Closed' = UNION {Q(f) : f \in Closing \cup {new}} /\ Closed = UNION {P(f) : f \in Closing}
    BY <1>5, <1>9 DEF Closed
  <2>3. Q(new) = Spans(mesh, component)
    BY <1>11
  <2> HIDE DEF P, Q, new
  <2>4. \A x : x \in Closed' <=> \E f \in Closing \cup {new} : x \in Q(f)
    BY <2>2
  <2>5. \A x : x \in Closed <=> \E f \in Closing : x \in P(f)
    BY <2>2
  <2>6. \A x : x \in Closed' <=> x \in Closed \/ x \in Q(new)
    BY <2>1, <2>4, <2>5
  <2>7. QED BY <2>3, <2>6
<1>13. Groups' = Groups /\ \A E : Spans(mesh', E) = Spans(mesh, E)
  <2>1. mesh'.edges = mesh.edges
    BY <1>5, <1>6
  <2>2. group_connected_edges(mesh', Surface) = group_connected_edges(mesh, Surface)
        /\ \A e : Ends(mesh', e) = Ends(mesh, e)
    BY <2>1, SameEdges
  <2>3. QED BY <1>1, <2>2 DEF Groups, Spans
<1>14. (Closed \cup Spans(mesh, (UNION components) \cup component))' = Spans(mesh, Surface)'
  <2>1. Closed \cup Spans(mesh, (UNION components) \cup component) = Spans(mesh, Surface)
    BY <1>2 DEF Building
  <2>2. Spans(mesh, (UNION components) \cup component)
          = Spans(mesh, UNION components) \cup Spans(mesh, component)
    BY SpansTogether
  <2>3. (UNION components') \cup component' = UNION components
    BY <1>1
  <2>4. /\ Spans(mesh', (UNION components') \cup component') = Spans(mesh, UNION components)
        /\ Spans(mesh', Surface') = Spans(mesh, Surface)
    BY <1>1, <1>13, <2>3
  <2>5. QED BY <1>12, <2>1, <2>2, <2>4
<1>15. need_to_update_closing_facet
  BY <1>2 DEF Building
<1>16. \A i \in 1 .. Len(contours') : FALSE
  BY <1>1
<1>17. components' \subseteq Groups'
  BY <1>1, <1>13 DEF Building
<1>18. QED
  BY <1>1, <1>2, <1>5, <1>9, <1>10, <1>14, <1>15, <1>16, <1>17 DEF Building

\* No part is left: the closing facets have all edges.
LEMMA BuiltBuilds ==
  ASSUME Inv, Building, closing_facets_built
  PROVE  Building'
<1>1. /\ mesh' = mesh /\ Surface' = Surface /\ building = "yes" /\ building' = "no"
      /\ need_to_update_closing_facet' = FALSE
      /\ components = {} /\ component = {}
      /\ components' = components /\ component' = component
      /\ path' = path /\ contours' = contours
      /\ index_of_facets_exactly_on_the_surface' = index_of_facets_exactly_on_the_surface
  BY DEF closing_facets_built, classification, walk, Surface
<1>2. Closing' = Closing /\ Closed' = Closed /\ Groups' = Groups
  BY <1>1 DEF Closing, Closed, Groups, Spans
<1>3. Closed = Spans(mesh, Surface)
  <2>1. Spans(mesh, (UNION components) \cup component) = {}
    BY <1>1 DEF Spans
  <2>2. QED BY <1>1, <2>1 DEF Building
<1>4. (Closed = Spans(mesh, Surface))'
  BY <1>1, <1>2, <1>3
<1>5. QED BY <1>1, <1>2, <1>4 DEF Building

\* When all parts are loops, their closing facets are being built, or are.
LEMMA LoopInvIsInvariant ==
  ASSUME FacetsDiffer
  PROVE  Spec => []LoopInv
<1>1. Init => LoopInv
  BY DEF Init, LoopInv, Updated, NaN
<1>2. Inv /\ SurfaceInv /\ LoopInv /\ [Next]_vars => LoopInv'
  <2> SUFFICES ASSUME Inv, SurfaceInv, LoopInv, [Next]_vars, Updated', Loops' PROVE Building'
    BY DEF LoopInv
  <2>1. ASSUME NEW z \in Positions(mesh.nb_of_static_nodes), update(z) PROVE Building'
    BY <2>1, UpdateBuilds
  <2>2. CASE refuse
    BY <2>2 DEF refuse, Updated
  <2>3. ASSUME all_relative_immersions' = all_relative_immersions, Surface' = Surface,
               mesh'.edges = mesh.edges
        PROVE  Updated /\ Loops /\ Building
    <3>1. Updated
      BY <2>3 DEF Updated
    <3>2. /\ group_connected_edges(mesh', Surface) = group_connected_edges(mesh, Surface)
          /\ \A C : IsLoop(mesh', C) <=> IsLoop(mesh, C)
      BY <2>3, SameEdges
    <3>3. Loops
      BY <2>3, <3>2 DEF Loops, Surface
    <3>4. QED BY <3>1, <3>3 DEF LoopInv
  <2>4. CASE build_closing_edge \/ take_component \/ start_contour \/ follow
             \/ closing_facets_built \/ UNCHANGED vars
    <3>1. /\ mesh' = mesh /\ Surface' = Surface
          /\ all_relative_immersions' = all_relative_immersions
      BY <2>4 DEF build_closing_edge, take_component, start_contour, follow,
                  closing_facets_built, vars, classification, Surface
    <3>2. Updated /\ Loops /\ Building
      BY <2>3, <3>1
    <3>3. CASE build_closing_edge
      BY <3>2, <3>3, BuildBuilds
    <3>4. CASE take_component
      BY <3>2, <3>4, TakeBuilds
    <3>5. CASE start_contour
      BY <3>2, <3>5, StartBuilds
    <3>6. CASE follow
      BY <3>2, <3>6, FollowBuilds
    <3>7. CASE closing_facets_built
      BY <3>2, <3>7, BuiltBuilds
    <3>8. CASE UNCHANGED vars
      <4>1. /\ building' = building /\ components' = components /\ component' = component
            /\ path' = path /\ contours' = contours
            /\ need_to_update_closing_facet' = need_to_update_closing_facet
            /\ index_of_facets_exactly_on_the_surface' = index_of_facets_exactly_on_the_surface
        BY <3>8 DEF vars, walk
      <4>2. Closing' = Closing /\ Closed' = Closed /\ Groups' = Groups
        BY <3>1, <4>1 DEF Closing, Closed, Groups
      <4>3. QED BY <3>1, <3>2, <4>1, <4>2 DEF Building
    <3>9. QED BY <2>4, <3>3, <3>4, <3>5, <3>6, <3>7, <3>8
  <2>5. CASE close_contour
    <3>1. /\ Surface' = Surface /\ Len(contours) = 2
          /\ all_relative_immersions' = all_relative_immersions
          /\ mesh' = mesh \/ mesh' = create_facet_from_edges(mesh, contours[1])
      BY <2>5 DEF close_contour, classification, Surface
    <3>2. create_facet_from_edges(mesh, contours[1]).edges = mesh.edges
      BY <3>1, ClosingFacetIs
    <3>3. Updated /\ Loops /\ Building
      BY <2>3, <3>1, <3>2
    <3>4. QED BY <2>5, <3>3, CloseBuilds
  <2>6. QED BY <2>1, <2>2, <2>4, <2>5 DEF Next
<1>3. QED BY <1>1, <1>2, InvIsInvariant, SurfaceInvIsInvariant, PTL DEF Spec

\* If no two facets of a hull have the same corners, then, whenever all parts of the edges on
\* the surface are loops, no walk fails, and the closing facets built have those edges as
\* their sides.
THEOREM ClosingFacetsCloseTheLoops ==
  ASSUME FacetsDiffer
  PROVE  Spec => []ClosingFacetsCloseTheHull
<1>1. Inv /\ LoopInv => ClosingFacetsCloseTheHull
  <2> SUFFICES ASSUME Inv, LoopInv, Updated, Loops
               PROVE  /\ building # "failed"
                      /\ ~need_to_update_closing_facet =>
                           {{s[1], s[2]} : s \in SidesOf(Closing)} =
                             {Ends(mesh, e) : e \in index_of_edges_exactly_on_surface}
    BY DEF ClosingFacetsCloseTheHull
  <2>1. Building
    BY DEF LoopInv
  <2>2. building # "failed" /\ Closing \subseteq 1 .. Len(mesh.facets)
    BY <2>1 DEF Building
  <2>3. ASSUME ~need_to_update_closing_facet
        PROVE  {{s[1], s[2]} : s \in SidesOf(Closing)}
                 = {Ends(mesh, e) : e \in index_of_edges_exactly_on_surface}
    <3>1. Closed = {Ends(mesh, e) : e \in index_of_edges_exactly_on_surface}
      BY <2>1, <2>3 DEF Building, Spans, Surface
    <3>2. \A f \in Closing : Sides(f) = SidesOfNodes(mesh.facets[f])
      BY <2>2, SidesAre
    <3>3. \A x : x \in {{s[1], s[2]} : s \in SidesOf(Closing)}
                <=> \E f \in Closing : \E s \in SidesOfNodes(mesh.facets[f]) : x = {s[1], s[2]}
      BY <3>2 DEF SidesOf
    <3>4. \A x : x \in Closed
                <=> \E f \in Closing : \E s \in SidesOfNodes(mesh.facets[f]) : x = {s[1], s[2]}
      BY DEF Closed, PairsOf
    <3>5. {{s[1], s[2]} : s \in SidesOf(Closing)} = Closed
      BY <3>3, <3>4
    <3>6. QED BY <3>1, <3>5
  <2>4. QED BY <2>2, <2>3
<1>2. QED BY <1>1, InvIsInvariant, LoopInvIsInvariant, PTL
=============================================================================
