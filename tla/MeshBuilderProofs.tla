------------------------- MODULE MeshBuilderProofs -------------------------
(***************************************************************************)
(* Proofs about the mesh of a hull, for every hull made of triangles, and   *)
(* about walks along its edges:                                             *)
(*   - the builder gives each facet the nodes and edges of its corners;     *)
(*   - adding nodes, edges and facets keeps what was there, and dropping    *)
(*     them gives the mesh back as it was read;                             *)
(*   - a facet made from edges has the nodes that they run to;              *)
(*   - the edges that are grouped are connected; in a group that is a loop, *)
(*     a walk from any edge goes on until it has been along all of them;    *)
(*   - the facet made of such a walk has the edges of the loop as sides.    *)
(***************************************************************************)
EXTENDS MeshBuilder, ClosingFacetComputer, SequenceTheorems, FiniteSetTheorems, LeastNatural, TLAPS

-----------------------------------------------------------------------------
(* The mesh that is built *)

OrientedEdges == [edge : Nat, reversed : BOOLEAN]

\* Facet f is a triangle whose edges run from each of its nodes to the next.
Triangle(m, f) ==
  /\ Len(m.facets[f]) = 3
  /\ \A i, j \in 1 .. 3 : i # j => m.facets[f][i] # m.facets[f][j]
  /\ Len(m.oriented_edges_per_facet[f]) = 3
  /\ \A i \in 1 .. 3 :
       LET o == m.oriented_edges_per_facet[f][i]
       IN /\ o.edge \in 1 .. Len(m.edges)
          /\ first_vertex_of_oriented_edge(m, o) = m.facets[f][i]
          /\ second_vertex_of_oriented_edge(m, o) = m.facets[f][(i % 3) + 1]
          /\ f \in ToSet(m.facets_per_edge[o.edge])

Builders(P) ==
  [nodes : Seq(P), edges : Seq(Nat \X Nat), facets : Seq(Seq(Nat)),
   facets_per_edge : Seq(Seq(Nat)),
   oriented_edges_per_facet : Seq(Seq(OrientedEdges))]

\* No two edges join the same nodes.
EdgesDiffer(edges) ==
  \A e, d \in 1 .. Len(edges) : e # d => ~Joins(edges[d], edges[e][1], edges[e][2])
EdgesJoinTwo(edges) == \A e \in 1 .. Len(edges) : edges[e][1] # edges[e][2]

\* The edges join nodes that exist, once, and each has its list of facets.
EdgesJoinNodes(b) ==
  /\ Len(b.facets_per_edge) = Len(b.edges) /\ EdgesDiffer(b.edges)
  /\ \A e \in 1 .. Len(b.edges) :
       /\ b.edges[e][1] \in 1 .. Len(b.nodes) /\ b.edges[e][2] \in 1 .. Len(b.nodes)
       /\ b.edges[e][1] # b.edges[e][2]

\* Appending to tuples of up to two elements.
LEMMA AppendToTuples ==
  ASSUME NEW a, NEW b, NEW c
  PROVE  /\ Append(<<>>, a) = <<a>> /\ Append(<<a>>, b) = <<a, b>>
         /\ Append(<<a, b>>, c) = <<a, b, c>>
<1> DEFINE S == {a, b, c}
<1>1. <<>> \in Seq(S) /\ <<a>> \in Seq(S) /\ <<a, b>> \in Seq(S) /\ <<a, b, c>> \in Seq(S)
  OBVIOUS
<1>2. a \in S /\ b \in S /\ c \in S
  OBVIOUS
<1> HIDE DEF S
<1>3. Append(<<>>, a) = <<a>>
  OBVIOUS
<1>4. Append(<<a>>, b) = <<a, b>>
  <2> DEFINE s == <<a>>
             t == <<a, b>>
  <2>1. /\ s \in Seq(S) /\ t \in Seq(S) /\ Len(s) = 1 /\ Len(t) = 2
        /\ s[1] = a /\ t[1] = a /\ t[2] = b
    BY <1>1
  <2> HIDE DEF s, t
  <2>2. /\ Append(s, b) \in Seq(S) /\ Len(Append(s, b)) = 2
        /\ Append(s, b)[1] = a /\ Append(s, b)[2] = b
    <3>1. s \in Seq(S) /\ b \in S
      BY <1>2, <2>1
    <3>2. /\ Append(s, b) \in Seq(S) /\ Len(Append(s, b)) = Len(s) + 1
          /\ \A i \in 1 .. Len(s) : Append(s, b)[i] = s[i]
          /\ Append(s, b)[Len(s) + 1] = b
      BY <3>1, AppendProperties
    <3>3. QED BY <2>1, <3>2
  <2>3. \A i \in 1 .. 2 : Append(s, b)[i] = t[i]
    BY <2>1, <2>2
  <2>4. Append(s, b) = t
    BY <2>1, <2>2, <2>3, SeqEqual
  <2>5. QED BY <2>4 DEF s, t
<1>5. Append(<<a, b>>, c) = <<a, b, c>>
  <2> DEFINE s == <<a, b>>
             t == <<a, b, c>>
  <2>1. /\ s \in Seq(S) /\ t \in Seq(S) /\ Len(s) = 2 /\ Len(t) = 3
        /\ s[1] = a /\ s[2] = b /\ t[1] = a /\ t[2] = b /\ t[3] = c
    BY <1>1
  <2> HIDE DEF s, t
  <2>2. /\ Append(s, c) \in Seq(S) /\ Len(Append(s, c)) = 3
        /\ Append(s, c)[1] = a /\ Append(s, c)[2] = b /\ Append(s, c)[3] = c
    <3>1. s \in Seq(S) /\ c \in S
      BY <1>2, <2>1
    <3>2. /\ Append(s, c) \in Seq(S) /\ Len(Append(s, c)) = Len(s) + 1
          /\ \A i \in 1 .. Len(s) : Append(s, c)[i] = s[i]
          /\ Append(s, c)[Len(s) + 1] = c
      BY <3>1, AppendProperties
    <3>3. QED BY <2>1, <3>2
  <2>3. \A i \in 1 .. 3 : Append(s, c)[i] = t[i]
    BY <2>1, <2>2
  <2>4. Append(s, c) = t
    BY <2>1, <2>2, <2>3, SeqEqual
  <2>5. QED BY <2>4 DEF s, t
<1>6. QED BY <1>3, <1>4, <1>5

\* What is looked up while a side is added.
NumberOf(nodes, xyz) == SelectInSeq(nodes, LAMBDA n : n = xyz)
EdgeBetween(edges, v, w) == SelectInSeq(edges, LAMBDA e : Joins(e, v, w))

\* The number of a point.
IsNumber(nodes, i, xyz) ==
  i \in 1 .. Len(nodes) /\ nodes[i] = xyz /\ \A j \in 1 .. i - 1 : nodes[j] # xyz

\* A point has one number.
LEMMA NumberIsUnique ==
  ASSUME NEW nodes, NEW xyz, NEW i, IsNumber(nodes, i, xyz),
         NEW j, IsNumber(nodes, j, xyz)
  PROVE  i = j
BY DEF IsNumber

\* SelectInSeq gives the number of a point that is there.
LEMMA NumberIs ==
  ASSUME NEW P, NEW nodes \in Seq(P), NEW xyz, \E i \in 1 .. Len(nodes) : nodes[i] = xyz
  PROVE  IsNumber(nodes, NumberOf(nodes, xyz), xyz)
<1> DEFINE I == {i \in 1 .. Len(nodes) : nodes[i] = xyz}
<1>1. I \in SUBSET Nat /\ I # {}
  OBVIOUS
<1>2. PICK k \in I : \A y \in I : k <= y
  BY <1>1, LeastNat
<1>3. Min(I) \in I /\ \A y \in I : Min(I) <= y
  BY <1>2 DEF Min
<1>4. NumberOf(nodes, xyz) = Min(I)
  BY <1>1 DEF SelectInSeq, NumberOf
<1>5. ASSUME NEW j \in 1 .. Min(I) - 1 PROVE nodes[j] # xyz
  <2>1. j \notin I
    BY <1>1, <1>3
  <2>2. j \in 1 .. Len(nodes)
    BY <1>3
  <2>3. QED BY <2>1, <2>2
<1>6. QED BY <1>3, <1>4, <1>5 DEF IsNumber

\* The number of a point stays when points are added.
LEMMA NumberStays ==
  ASSUME NEW P, NEW nodes \in Seq(P), NEW more \in Seq(P), Len(nodes) <= Len(more),
         \A i \in 1 .. Len(nodes) : more[i] = nodes[i],
         NEW i, NEW xyz, IsNumber(nodes, i, xyz)
  PROVE  IsNumber(more, i, xyz)
BY DEF IsNumber

\* build_one_point adds at most a node, and the point is a node afterwards.
LEMMA AddPoint ==
  ASSUME NEW P, NEW b \in Builders(P), NEW xyz \in P
  PROVE  LET p == build_one_point(b, xyz)
         IN /\ p \in Builders(P)
            /\ p.edges = b.edges /\ p.facets = b.facets
            /\ p.facets_per_edge = b.facets_per_edge
            /\ p.oriented_edges_per_facet = b.oriented_edges_per_facet
            /\ Len(b.nodes) <= Len(p.nodes)
            /\ \A i \in 1 .. Len(b.nodes) : p.nodes[i] = b.nodes[i]
            /\ \E i \in 1 .. Len(p.nodes) : p.nodes[i] = xyz
<1>1. b.nodes \in Seq(P) /\ Len(b.nodes) \in Nat
  BY DEF Builders
<1>2. CASE xyz \in Range(b.nodes)
  <2>1. \E i \in 1 .. Len(b.nodes) : b.nodes[i] = xyz
    BY <1>1, <1>2 DEF Range
  <2>2. QED BY <1>1, <1>2, <2>1 DEF build_one_point
<1>3. CASE xyz \notin Range(b.nodes)
  <2> DEFINE more == Append(b.nodes, xyz)
  <2>1. /\ more \in Seq(P) /\ Len(more) = Len(b.nodes) + 1
        /\ \A i \in 1 .. Len(b.nodes) : more[i] = b.nodes[i]
        /\ more[Len(b.nodes) + 1] = xyz
    BY <1>1, AppendProperties
  <2> HIDE DEF more
  <2>2. build_one_point(b, xyz) = [b EXCEPT !.nodes = more]
    BY <1>3 DEF build_one_point, more
  <2>3. Len(b.nodes) + 1 \in 1 .. Len(more)
    BY <1>1, <2>1
  <2>4. /\ [b EXCEPT !.nodes = more] \in Builders(P)
        /\ [b EXCEPT !.nodes = more].nodes = more
        /\ [b EXCEPT !.nodes = more].edges = b.edges
        /\ [b EXCEPT !.nodes = more].facets = b.facets
        /\ [b EXCEPT !.nodes = more].facets_per_edge = b.facets_per_edge
        /\ [b EXCEPT !.nodes = more].oriented_edges_per_facet = b.oriented_edges_per_facet
    BY <2>1 DEF Builders
  <2>5. QED BY <1>1, <2>1, <2>2, <2>3, <2>4
<1>4. QED BY <1>2, <1>3

\* Two nodes get an edge, once.
LEMMA AddBuilderEdge ==
  ASSUME NEW P, NEW b \in Builders(P), EdgesJoinNodes(b),
         NEW v \in 1 .. Len(b.nodes), NEW w \in 1 .. Len(b.nodes), v # w
  PROVE  LET q == build_one_edge(b, v, w)
             e == EdgeBetween(q.edges, v, w)
         IN /\ q \in Builders(P) /\ EdgesJoinNodes(q)
            /\ q.nodes = b.nodes /\ q.facets = b.facets
            /\ q.oriented_edges_per_facet = b.oriented_edges_per_facet
            /\ Len(b.edges) <= Len(q.edges)
            /\ \A i \in 1 .. Len(b.edges) : q.edges[i] = b.edges[i]
            /\ \A i \in 1 .. Len(b.edges) : q.facets_per_edge[i] = b.facets_per_edge[i]
            /\ e \in 1 .. Len(q.edges)
            /\ \/ q.edges[e][1] = v /\ q.edges[e][2] = w
               \/ q.edges[e][1] = w /\ q.edges[e][2] = v
<1> DEFINE q == build_one_edge(b, v, w)
           e == EdgeBetween(q.edges, v, w)
<1>1. /\ b.nodes \in Seq(P) /\ b.edges \in Seq(Nat \X Nat)
      /\ b.facets_per_edge \in Seq(Seq(Nat)) /\ Len(b.nodes) \in Nat
      /\ Len(b.edges) \in Nat /\ Len(b.facets_per_edge) = Len(b.edges)
  BY DEF Builders, EdgesJoinNodes
<1>2. /\ q \in Builders(P) /\ EdgesJoinNodes(q)
      /\ q.nodes = b.nodes /\ q.facets = b.facets
      /\ q.oriented_edges_per_facet = b.oriented_edges_per_facet
      /\ Len(b.edges) <= Len(q.edges)
      /\ \A i \in 1 .. Len(b.edges) : q.edges[i] = b.edges[i]
      /\ \A i \in 1 .. Len(b.edges) : q.facets_per_edge[i] = b.facets_per_edge[i]
      /\ \E i \in 1 .. Len(q.edges) : Joins(q.edges[i], v, w)
  <2>1. CASE \E i \in DOMAIN b.edges : Joins(b.edges[i], v, w)
    <3>1. q = b
      BY <2>1 DEF build_one_edge
    <3>2. DOMAIN b.edges = 1 .. Len(b.edges)
      BY <1>1
    <3> HIDE DEF q
    <3>3. QED BY <1>1, <2>1, <3>1, <3>2, SMTT(40)
  <2>2. CASE ~ \E i \in DOMAIN b.edges : Joins(b.edges[i], v, w)
    <3> DEFINE new == <<v, w>>
               edges == Append(b.edges, new)
               facets == Append(b.facets_per_edge, <<>>)
    <3>1. new \in Nat \X Nat /\ new[1] = v /\ new[2] = w
      BY <1>1
    <3>2. q = [b EXCEPT !.edges = edges, !.facets_per_edge = facets]
      BY <2>2 DEF build_one_edge
    <3> HIDE DEF new
    <3>3. /\ edges \in Seq(Nat \X Nat) /\ Len(edges) = Len(b.edges) + 1
          /\ \A i \in 1 .. Len(b.edges) : edges[i] = b.edges[i]
          /\ edges[Len(b.edges) + 1] = new
      BY <1>1, <3>1, AppendProperties
    <3>4. /\ facets \in Seq(Seq(Nat)) /\ Len(facets) = Len(b.edges) + 1
          /\ \A i \in 1 .. Len(b.edges) : facets[i] = b.facets_per_edge[i]
      <4>1. <<>> \in Seq(Nat)
        OBVIOUS
      <4> DEFINE old == b.facets_per_edge
      <4>2. old \in Seq(Seq(Nat)) /\ Len(old) = Len(b.edges)
        BY <1>1
      <4> HIDE DEF old
      <4>3. /\ Append(old, <<>>) \in Seq(Seq(Nat))
            /\ Len(Append(old, <<>>)) = Len(old) + 1
            /\ \A i \in 1 .. Len(old) : Append(old, <<>>)[i] = old[i]
        BY <4>1, <4>2, AppendProperties
      <4>4. QED BY <4>2, <4>3 DEF old
    <3> HIDE DEF edges, facets, q
    <3>5. /\ q \in Builders(P) /\ q.edges = edges /\ q.facets_per_edge = facets
          /\ q.nodes = b.nodes /\ q.facets = b.facets
          /\ q.oriented_edges_per_facet = b.oriented_edges_per_facet
      BY <3>2, <3>3, <3>4 DEF Builders
    <3>6. EdgesJoinNodes(q)
      <4>1. Len(q.facets_per_edge) = Len(q.edges)
        BY <3>3, <3>4, <3>5
      <4>2. ASSUME NEW i \in 1 .. Len(q.edges)
            PROVE  /\ q.edges[i][1] \in 1 .. Len(q.nodes)
                   /\ q.edges[i][2] \in 1 .. Len(q.nodes)
                   /\ q.edges[i][1] # q.edges[i][2]
        <5>1. CASE i = Len(b.edges) + 1
          BY <3>1, <3>3, <3>5, <5>1
        <5>2. CASE i # Len(b.edges) + 1
          <6>1. i \in 1 .. Len(b.edges)
            <7>1. i \in 1 .. Len(b.edges) + 1
              BY <3>3, <3>5
            <7>2. \A m \in Nat : \A j \in 1 .. m + 1 : j # m + 1 => j \in 1 .. m
              OBVIOUS
            <7>3. Len(b.edges) \in Nat
              BY <1>1
            <7>4. QED BY <5>2, <7>1, <7>2, <7>3
          <6>2. q.edges[i] = b.edges[i]
            BY <6>1, <3>3, <3>5
          <6>3. QED BY <3>5, <6>1, <6>2 DEF EdgesJoinNodes
        <5>3. QED BY <5>1, <5>2
      <4>3. EdgesDiffer(q.edges)
        <5> DEFINE old == b.edges
        <5>1. /\ \A i \in 1 .. Len(old) : edges[i] = old[i]
              /\ edges[Len(old) + 1][1] = v /\ edges[Len(old) + 1][2] = w
              /\ Len(edges) = Len(old) + 1 /\ Len(old) \in Nat /\ DOMAIN old = 1 .. Len(old)
          BY <1>1, <3>1, <3>3
        <5>2. \A i \in 1 .. Len(old) : ~Joins(old[i], v, w)
          BY <2>2, <5>1
        <5>3. EdgesDiffer(old)
          BY DEF EdgesJoinNodes
        <5> HIDE DEF old
        <5>4. \A i \in 1 .. Len(edges) : i \in 1 .. Len(old) \/ i = Len(old) + 1
          BY <5>1
        <5>5. ASSUME NEW i \in 1 .. Len(edges), NEW j \in 1 .. Len(edges), i # j
              PROVE  ~Joins(edges[j], edges[i][1], edges[i][2])
          <6>1. CASE i \in 1 .. Len(old) /\ j \in 1 .. Len(old)
            BY <5>1, <5>3, <5>5, <6>1 DEF EdgesDiffer
          <6>2. CASE i = Len(old) + 1 /\ j \in 1 .. Len(old)
            BY <5>1, <5>2, <6>2
          <6>3. CASE i \in 1 .. Len(old) /\ j = Len(old) + 1
            <7>1. {edges[i][1], edges[i][2]} # {v, w}
              BY <5>1, <5>2, <6>3 DEF Joins
            <7>2. QED BY <5>1, <6>3, <7>1 DEF Joins
          <6>4. QED BY <5>4, <5>5, <6>1, <6>2, <6>3
        <5>6. EdgesDiffer(edges)
          BY <5>5 DEF EdgesDiffer
        <5>7. QED BY <3>5, <5>6
      <4>4. QED BY <4>1, <4>2, <4>3 DEF EdgesJoinNodes
    <3>7. \E i \in 1 .. Len(q.edges) : Joins(q.edges[i], v, w)
      <4>1. Len(b.edges) + 1 \in 1 .. Len(q.edges)
        BY <1>1, <3>3, <3>5, SMTT(40)
      <4>2. Joins(q.edges[Len(b.edges) + 1], v, w)
        BY <3>1, <3>3, <3>5 DEF Joins
      <4>3. QED BY <4>1, <4>2
    <3>8. Len(b.edges) <= Len(q.edges)
      BY <1>1, <3>3, <3>5
    <3>9. /\ \A i \in 1 .. Len(b.edges) : q.edges[i] = b.edges[i]
          /\ \A i \in 1 .. Len(b.edges) : q.facets_per_edge[i] = b.facets_per_edge[i]
      BY <3>3, <3>4, <3>5
    <3>10. QED BY <3>5, <3>6, <3>7, <3>8, <3>9
  <2>3. QED BY <2>1, <2>2
<1> HIDE DEF q
<1> DEFINE I == {i \in 1 .. Len(q.edges) : Joins(q.edges[i], v, w)}
<1>3. I \in SUBSET Nat /\ I # {}
  BY <1>2
<1>4. e = Min(I)
  BY <1>3 DEF SelectInSeq, EdgeBetween
<1>5. PICK k \in I : \A y \in I : k <= y
  BY <1>3, LeastNat
<1>6. e \in I
  <2>1. Min(I) \in I
    BY <1>5 DEF Min
  <2>2. QED BY <1>4, <2>1
<1>7. Joins(q.edges[e], v, w) /\ e \in 1 .. Len(q.edges)
  BY <1>6
<1> HIDE DEF I, e
<1>8. \/ q.edges[e][1] = v /\ q.edges[e][2] = w
      \/ q.edges[e][1] = w /\ q.edges[e][2] = v
  BY <1>7 DEF Joins
<1>9. QED BY <1>2, <1>7, <1>8 DEF q, e

\* What adding a side does to each part.
LEMMA SideIs ==
  ASSUME NEW P, NEW b \in Builders(P), EdgesJoinNodes(b), Len(b.facets) > 0,
         Len(b.oriented_edges_per_facet) = Len(b.facets),
         NEW from \in P, NEW to \in P, from # to
  PROVE  LET r == AddSide(b, from, to)
             f == Len(b.facets)
         IN /\ r \in Builders(P) /\ EdgesJoinNodes(r)
            /\ Len(b.nodes) <= Len(r.nodes)
            /\ \A i \in 1 .. Len(b.nodes) : r.nodes[i] = b.nodes[i]
            /\ Len(b.edges) <= Len(r.edges)
            /\ \A i \in 1 .. Len(b.edges) : r.edges[i] = b.edges[i]
            /\ \A i \in 1 .. Len(b.edges) :
                 ToSet(b.facets_per_edge[i]) \subseteq ToSet(r.facets_per_edge[i])
            /\ Len(r.facets) = f /\ Len(r.oriented_edges_per_facet) = f
            /\ \A i \in 1 .. f - 1 :
                 /\ r.facets[i] = b.facets[i]
                 /\ r.oriented_edges_per_facet[i] = b.oriented_edges_per_facet[i]
            /\ \E v, w, e \in Nat, reversed \in BOOLEAN :
                 /\ IsNumber(r.nodes, v, from) /\ IsNumber(r.nodes, w, to)
                 /\ r.facets[f] = Append(b.facets[f], v)
                 /\ r.oriented_edges_per_facet[f]
                      = Append(b.oriented_edges_per_facet[f], OrientedEdge(e, reversed))
                 /\ e \in 1 .. Len(r.edges) /\ f \in ToSet(r.facets_per_edge[e])
                 /\ first_vertex_of_oriented_edge(r, OrientedEdge(e, reversed)) = v
                 /\ second_vertex_of_oriented_edge(r, OrientedEdge(e, reversed)) = w
<1> DEFINE p1 == build_one_point(b, from)
           p == build_one_point(p1, to)
           v == NumberOf(p.nodes, from)
           w == NumberOf(p.nodes, to)
           q == build_one_edge(p, v, w)
           e == EdgeBetween(q.edges, v, w)
           reversed == q.edges[e][2] = v
           f == Len(q.facets)
           r == [q EXCEPT !.facets[f] = Append(@, v),
                          !.oriented_edges_per_facet[f] =
                              Append(@, OrientedEdge(e, reversed)),
                          !.facets_per_edge[e] = Append(@, f)]
<1>1. AddSide(b, from, to) = r
  BY DEF AddSide, NumberOf, EdgeBetween
<1>2. /\ p1 \in Builders(P) /\ p1.edges = b.edges /\ p1.facets = b.facets
      /\ p1.facets_per_edge = b.facets_per_edge
      /\ p1.oriented_edges_per_facet = b.oriented_edges_per_facet
      /\ Len(b.nodes) <= Len(p1.nodes)
      /\ \A i \in 1 .. Len(b.nodes) : p1.nodes[i] = b.nodes[i]
      /\ \E i \in 1 .. Len(p1.nodes) : p1.nodes[i] = from
  BY AddPoint
<1> HIDE DEF p1
<1>3. /\ p \in Builders(P) /\ p.edges = p1.edges /\ p.facets = p1.facets
      /\ p.facets_per_edge = p1.facets_per_edge
      /\ p.oriented_edges_per_facet = p1.oriented_edges_per_facet
      /\ Len(p1.nodes) <= Len(p.nodes)
      /\ \A i \in 1 .. Len(p1.nodes) : p.nodes[i] = p1.nodes[i]
      /\ \E i \in 1 .. Len(p.nodes) : p.nodes[i] = to
  BY <1>2, AddPoint
<1> HIDE DEF p
<1>4. /\ Len(b.nodes) \in Nat /\ Len(p1.nodes) \in Nat /\ Len(p.nodes) \in Nat
      /\ p.nodes \in Seq(P)
  BY <1>2, <1>3 DEF Builders
<1>5. /\ Len(b.nodes) <= Len(p.nodes)
      /\ \A i \in 1 .. Len(b.nodes) : p.nodes[i] = b.nodes[i]
  BY <1>2, <1>3, <1>4
<1>6. IsNumber(p.nodes, v, from)
  <2>1. \E i \in 1 .. Len(p.nodes) : p.nodes[i] = from
    <3>1. PICK i \in 1 .. Len(p1.nodes) : p1.nodes[i] = from
      BY <1>2
    <3>2. i \in 1 .. Len(p.nodes) /\ p.nodes[i] = from
      BY <1>3, <1>4, <3>1
    <3>3. QED BY <3>2
  <2>2. QED BY <1>4, <2>1, NumberIs
<1>7. IsNumber(p.nodes, w, to)
  BY <1>3, <1>4, NumberIs
<1> HIDE DEF v, w
<1>8. v \in 1 .. Len(p.nodes) /\ w \in 1 .. Len(p.nodes) /\ v # w
  BY <1>6, <1>7 DEF IsNumber
<1>9. EdgesJoinNodes(p)
  <2>1. /\ Len(p.facets_per_edge) = Len(p.edges) /\ Len(p.edges) = Len(b.edges)
        /\ p.edges = b.edges
    BY <1>2, <1>3 DEF EdgesJoinNodes
  <2>2. ASSUME NEW i \in 1 .. Len(p.edges)
        PROVE  /\ p.edges[i][1] \in 1 .. Len(p.nodes)
               /\ p.edges[i][2] \in 1 .. Len(p.nodes)
               /\ p.edges[i][1] # p.edges[i][2]
    <3>1. /\ b.edges[i][1] \in 1 .. Len(b.nodes) /\ b.edges[i][2] \in 1 .. Len(b.nodes)
          /\ b.edges[i][1] # b.edges[i][2]
      BY <2>1 DEF EdgesJoinNodes
    <3>2. 1 .. Len(b.nodes) \subseteq 1 .. Len(p.nodes)
      BY <1>4, <1>5
    <3>3. QED BY <2>1, <3>1, <3>2
  <2>3. QED BY <2>1, <2>2 DEF EdgesJoinNodes
<1>10. /\ q \in Builders(P) /\ EdgesJoinNodes(q)
       /\ q.nodes = p.nodes /\ q.facets = p.facets
       /\ q.oriented_edges_per_facet = p.oriented_edges_per_facet
       /\ Len(p.edges) <= Len(q.edges)
       /\ \A i \in 1 .. Len(p.edges) : q.edges[i] = p.edges[i]
       /\ \A i \in 1 .. Len(p.edges) : q.facets_per_edge[i] = p.facets_per_edge[i]
       /\ e \in 1 .. Len(q.edges)
       /\ \/ q.edges[e][1] = v /\ q.edges[e][2] = w
          \/ q.edges[e][1] = w /\ q.edges[e][2] = v
  BY <1>3, <1>8, <1>9, AddBuilderEdge, SMTT(40)
<1> HIDE DEF q, e
<1> DEFINE o == OrientedEdge(e, reversed)
           facet == Append(q.facets[f], v)
           edges == Append(q.oriented_edges_per_facet[f], o)
           users == Append(q.facets_per_edge[e], f)
           facets == [q.facets EXCEPT ![f] = facet]
           oriented == [q.oriented_edges_per_facet EXCEPT ![f] = edges]
           per_edge == [q.facets_per_edge EXCEPT ![e] = users]
<1>11. /\ f \in 1 .. f /\ f = Len(b.facets) /\ f \in Nat
       /\ q.facets = b.facets /\ q.oriented_edges_per_facet = b.oriented_edges_per_facet
       /\ b.facets \in Seq(Seq(Nat)) /\ b.oriented_edges_per_facet \in Seq(Seq(OrientedEdges))
       /\ q.facets_per_edge \in Seq(Seq(Nat))
       /\ Len(b.oriented_edges_per_facet) = f
       /\ e \in 1 .. Len(q.facets_per_edge)
       /\ q.edges \in Seq(Nat \X Nat) /\ q.nodes \in Seq(P)
  BY <1>2, <1>3, <1>10 DEF Builders, EdgesJoinNodes
<1>12. /\ r = [q EXCEPT !.facets = facets, !.oriented_edges_per_facet = oriented,
                        !.facets_per_edge = per_edge]
  OBVIOUS
<1>13. /\ o \in OrientedEdges /\ v \in Nat /\ e \in Nat /\ reversed \in BOOLEAN
       /\ o.edge = e /\ o.reversed = reversed
  <2>1. v \in Nat /\ e \in Nat
    BY <1>8, <1>10
  <2>2. reversed \in BOOLEAN
    OBVIOUS
  <2> HIDE DEF reversed
  <2>3. QED BY <2>1, <2>2 DEF OrientedEdges, OrientedEdge
<1>14. /\ q.facets[f] \in Seq(Nat) /\ q.oriented_edges_per_facet[f] \in Seq(OrientedEdges)
       /\ q.facets_per_edge[e] \in Seq(Nat)
  BY <1>11, ElementOfSeq
<1>15. /\ facet \in Seq(Nat) /\ edges \in Seq(OrientedEdges) /\ users \in Seq(Nat)
  <2> HIDE DEF o, f
  <2>1. facet \in Seq(Nat)
    BY <1>13, <1>14, AppendProperties
  <2>2. edges \in Seq(OrientedEdges)
    BY <1>13, <1>14, AppendProperties
  <2>3. users \in Seq(Nat)
    BY <1>11, <1>14, AppendProperties
  <2>4. QED BY <2>1, <2>2, <2>3
<1>16. ToSet(q.facets_per_edge[e]) \subseteq ToSet(users) /\ f \in ToSet(users)
  <2> DEFINE old == q.facets_per_edge[e]
  <2>1. old \in Seq(Nat) /\ f \in Nat
    BY <1>11, <1>14
  <2> HIDE DEF old, f
  <2>2. /\ Append(old, f) \in Seq(Nat) /\ Len(Append(old, f)) = Len(old) + 1
        /\ \A i \in 1 .. Len(old) : Append(old, f)[i] = old[i]
        /\ Append(old, f)[Len(old) + 1] = f
    BY <2>1, AppendProperties
  <2>3. DOMAIN old = 1 .. Len(old) /\ DOMAIN Append(old, f) = 1 .. Len(old) + 1
        /\ Len(old) \in Nat
    BY <2>1, <2>2
  <2>4. ToSet(old) \subseteq ToSet(Append(old, f)) /\ f \in ToSet(Append(old, f))
    BY <2>2, <2>3 DEF ToSet
  <2>5. QED BY <2>4 DEF old
<1> HIDE DEF facet, edges, users
<1>17. /\ facets \in Seq(Seq(Nat)) /\ Len(facets) = f /\ facets[f] = facet
       /\ \A i \in 1 .. f - 1 : facets[i] = b.facets[i]
  <2> DEFINE old == q.facets
  <2>1. /\ old \in Seq(Seq(Nat)) /\ f = Len(old) /\ f \in 1 .. Len(old) /\ old = b.facets
        /\ \A i \in 1 .. f - 1 : i \in 1 .. f /\ i # f
    BY <1>11
  <2> HIDE DEF old, f
  <2>2. /\ [old EXCEPT ![f] = facet] \in Seq(Seq(Nat))
        /\ Len([old EXCEPT ![f] = facet]) = Len(old)
        /\ \A j \in 1 .. Len(old) :
             [old EXCEPT ![f] = facet][j] = IF j = f THEN facet ELSE old[j]
    <3>1. old \in Seq(Seq(Nat)) /\ f \in 1 .. Len(old) /\ facet \in Seq(Nat)
      BY <2>1, <1>15
    <3>2. QED BY <3>1, ExceptSeq
  <2>3. facets = [old EXCEPT ![f] = facet]
    BY DEF old
  <2> HIDE DEF facets
  <2>4. QED BY <2>1, <2>2, <2>3
<1>18. /\ oriented \in Seq(Seq(OrientedEdges)) /\ Len(oriented) = f /\ oriented[f] = edges
       /\ \A i \in 1 .. f - 1 : oriented[i] = b.oriented_edges_per_facet[i]
  <2> DEFINE old == q.oriented_edges_per_facet
  <2>1. /\ old \in Seq(Seq(OrientedEdges)) /\ f = Len(old) /\ f \in 1 .. Len(old)
        /\ old = b.oriented_edges_per_facet
        /\ \A i \in 1 .. f - 1 : i \in 1 .. f /\ i # f
    <3> HIDE DEF f
    <3>1. QED BY <1>11, SMTT(40)
  <2> HIDE DEF old, f
  <2>2. /\ [old EXCEPT ![f] = edges] \in Seq(Seq(OrientedEdges))
        /\ Len([old EXCEPT ![f] = edges]) = Len(old)
        /\ \A j \in 1 .. Len(old) :
             [old EXCEPT ![f] = edges][j] = IF j = f THEN edges ELSE old[j]
    <3>1. /\ old \in Seq(Seq(OrientedEdges)) /\ f \in 1 .. Len(old)
          /\ edges \in Seq(OrientedEdges)
      BY <2>1, <1>15
    <3>2. QED BY <3>1, ExceptSeq
  <2>3. oriented = [old EXCEPT ![f] = edges]
    BY DEF old
  <2> HIDE DEF oriented
  <2>4. QED BY <2>1, <2>2, <2>3
<1>19. /\ per_edge \in Seq(Seq(Nat)) /\ Len(per_edge) = Len(q.edges) /\ per_edge[e] = users
       /\ \A i \in 1 .. Len(q.edges) : i # e => per_edge[i] = q.facets_per_edge[i]
  <2> DEFINE old == q.facets_per_edge
  <2>1. old \in Seq(Seq(Nat)) /\ e \in 1 .. Len(old) /\ Len(old) = Len(q.edges)
    BY <1>10, <1>11 DEF EdgesJoinNodes
  <2> HIDE DEF old
  <2>2. /\ [old EXCEPT ![e] = users] \in Seq(Seq(Nat))
        /\ Len([old EXCEPT ![e] = users]) = Len(old)
        /\ \A j \in 1 .. Len(old) :
             [old EXCEPT ![e] = users][j] = IF j = e THEN users ELSE old[j]
    BY <2>1, <1>15, ExceptSeq
  <2>3. per_edge = [old EXCEPT ![e] = users]
    BY DEF old
  <2>4. QED BY <2>1, <2>2, <2>3 DEF old
<1> HIDE DEF facets, oriented, per_edge, f, r
<1>20. /\ r \in Builders(P) /\ r.nodes = q.nodes /\ r.edges = q.edges
       /\ r.facets = facets /\ r.oriented_edges_per_facet = oriented
       /\ r.facets_per_edge = per_edge
  BY <1>10, <1>12, <1>17, <1>18, <1>19 DEF Builders
<1>21. EdgesJoinNodes(r)
  BY <1>10, <1>19, <1>20 DEF EdgesJoinNodes
<1>22. /\ Len(b.nodes) <= Len(r.nodes)
       /\ \A i \in 1 .. Len(b.nodes) : r.nodes[i] = b.nodes[i]
  BY <1>5, <1>10, <1>20
<1>23. /\ p.edges = b.edges /\ p.facets_per_edge = b.facets_per_edge
       /\ Len(b.edges) <= Len(r.edges)
       /\ \A i \in 1 .. Len(b.edges) : r.edges[i] = b.edges[i]
       /\ Len(b.edges) \in Nat /\ Len(r.edges) \in Nat
  <2>1. /\ p.edges = b.edges /\ p.facets_per_edge = b.facets_per_edge
        /\ r.edges = q.edges
    BY <1>2, <1>3, <1>20
  <2>2. Len(b.edges) \in Nat /\ Len(q.edges) \in Nat
    <3>1. b.edges \in Seq(Nat \X Nat)
      BY DEF Builders
    <3>2. QED BY <1>11, <3>1, LenProperties
  <2>3. /\ Len(b.edges) <= Len(q.edges)
        /\ \A i \in 1 .. Len(b.edges) : q.edges[i] = b.edges[i]
    BY <1>10, <2>1
  <2>4. QED BY <2>1, <2>2, <2>3
<1>24. \A i \in 1 .. Len(b.edges) :
         ToSet(b.facets_per_edge[i]) \subseteq ToSet(r.facets_per_edge[i])
  <2> SUFFICES ASSUME NEW i \in 1 .. Len(b.edges)
               PROVE  ToSet(b.facets_per_edge[i]) \subseteq ToSet(r.facets_per_edge[i])
    OBVIOUS
  <2>1. i \in 1 .. Len(q.edges)
    BY <1>20, <1>23
  <2>2. q.facets_per_edge[i] = b.facets_per_edge[i]
    BY <1>10, <1>23
  <2>3. CASE i = e
    BY <1>16, <1>19, <1>20, <2>2, <2>3
  <2>4. CASE i # e
    BY <1>19, <1>20, <2>1, <2>2, <2>4
  <2>5. QED BY <2>3, <2>4
<1>25. /\ first_vertex_of_oriented_edge(r, o) = v
       /\ second_vertex_of_oriented_edge(r, o) = w
  <2>1. o.edge = e /\ (o.reversed <=> q.edges[e][2] = v) /\ r.edges = q.edges
    BY <1>13, <1>20
  <2> HIDE DEF o, reversed
  <2>2. CASE q.edges[e][1] = v /\ q.edges[e][2] = w
    <3>1. ~o.reversed
      BY <2>1, <2>2, <1>8
    <3>2. QED BY <2>1, <2>2, <3>1
             DEF first_vertex_of_oriented_edge, second_vertex_of_oriented_edge
  <2>3. CASE q.edges[e][1] = w /\ q.edges[e][2] = v
    BY <2>1, <2>3 DEF first_vertex_of_oriented_edge, second_vertex_of_oriented_edge
  <2>4. QED BY <1>10, <2>2, <2>3
<1>26. /\ IsNumber(r.nodes, v, from) /\ IsNumber(r.nodes, w, to)
       /\ r.facets[f] = Append(b.facets[f], v)
       /\ r.oriented_edges_per_facet[f] = Append(b.oriented_edges_per_facet[f], o)
       /\ e \in 1 .. Len(r.edges) /\ f \in ToSet(r.facets_per_edge[e])
  <2>1. IsNumber(r.nodes, v, from) /\ IsNumber(r.nodes, w, to)
    BY <1>6, <1>7, <1>10, <1>20
  <2>2. r.facets[f] = Append(b.facets[f], v)
    BY <1>11, <1>17, <1>20 DEF facet
  <2>3. r.oriented_edges_per_facet[f] = Append(b.oriented_edges_per_facet[f], o)
    BY <1>11, <1>18, <1>20 DEF edges
  <2>4. e \in 1 .. Len(r.edges) /\ f \in ToSet(r.facets_per_edge[e])
    BY <1>10, <1>16, <1>19, <1>20
  <2>5. QED BY <2>1, <2>2, <2>3, <2>4
<1>27. \E vv, ww, ee \in Nat, rr \in BOOLEAN :
         /\ IsNumber(r.nodes, vv, from) /\ IsNumber(r.nodes, ww, to)
         /\ r.facets[f] = Append(b.facets[f], vv)
         /\ r.oriented_edges_per_facet[f]
              = Append(b.oriented_edges_per_facet[f], OrientedEdge(ee, rr))
         /\ ee \in 1 .. Len(r.edges) /\ f \in ToSet(r.facets_per_edge[ee])
         /\ first_vertex_of_oriented_edge(r, OrientedEdge(ee, rr)) = vv
         /\ second_vertex_of_oriented_edge(r, OrientedEdge(ee, rr)) = ww
  <2>1. v \in Nat /\ w \in Nat /\ e \in Nat /\ reversed \in BOOLEAN
    BY <1>4, <1>8, <1>13
  <2>2. o = OrientedEdge(e, reversed)
    OBVIOUS
  <2> HIDE DEF o, reversed
  <2>3. QED BY <1>25, <1>26, <2>1, <2>2
<1>28. f = Len(b.facets) /\ Len(r.facets) = f /\ Len(r.oriented_edges_per_facet) = f
  BY <1>11, <1>17, <1>18, <1>20
<1>29. \A i \in 1 .. f - 1 : r.facets[i] = b.facets[i]
         /\ r.oriented_edges_per_facet[i] = b.oriented_edges_per_facet[i]
  BY <1>17, <1>18, <1>20
<1> HIDE DEF o, reversed
<1>30. AddSide(b, from, to) = r
  BY <1>1 DEF r, f, o, reversed
<1>31. QED BY <1>20, <1>21, <1>22, <1>23, <1>24, <1>27, <1>28, <1>29, <1>30

\* What stays when nodes, edges and facets are added.
Extends(b, r, n) ==
  /\ Len(b.nodes) <= Len(r.nodes)
  /\ \A i \in 1 .. Len(b.nodes) : r.nodes[i] = b.nodes[i]
  /\ Len(b.edges) <= Len(r.edges)
  /\ \A i \in 1 .. Len(b.edges) :
       /\ r.edges[i] = b.edges[i]
       /\ ToSet(b.facets_per_edge[i]) \subseteq ToSet(r.facets_per_edge[i])
  /\ \A i \in 1 .. n :
       /\ r.facets[i] = b.facets[i]
       /\ r.oriented_edges_per_facet[i] = b.oriented_edges_per_facet[i]

\* Facet f has got a side from one point to another.
Side(b, f, from, to, v, w, o) ==
  /\ IsNumber(b.nodes, v, from) /\ IsNumber(b.nodes, w, to)
  /\ o.edge \in 1 .. Len(b.edges) /\ f \in ToSet(b.facets_per_edge[o.edge])
  /\ first_vertex_of_oriented_edge(b, o) = v
  /\ second_vertex_of_oriented_edge(b, o) = w

\* A mesh that is being built, without the facets.
Sound(P, b) ==
  /\ b \in Builders(P) /\ EdgesJoinNodes(b)
  /\ Len(b.oriented_edges_per_facet) = Len(b.facets)

\* The parts of a mesh that is being built, and their lengths.
LEMMA SoundLengths ==
  ASSUME NEW P, NEW b, Sound(P, b)
  PROVE  /\ Len(b.nodes) \in Nat /\ Len(b.edges) \in Nat /\ Len(b.facets) \in Nat
         /\ b.nodes \in Seq(P) /\ b.facets \in Seq(Seq(Nat)) /\ b.edges \in Seq(Nat \X Nat)
         /\ b.oriented_edges_per_facet \in Seq(Seq(OrientedEdges))
<1>1. /\ b.nodes \in Seq(P) /\ b.facets \in Seq(Seq(Nat)) /\ b.edges \in Seq(Nat \X Nat)
      /\ b.oriented_edges_per_facet \in Seq(Seq(OrientedEdges))
  BY DEF Sound, Builders
<1>2. QED BY <1>1, LenProperties

\* What is kept by one addition and by the next is kept by both.
LEMMA ExtendsTransitive ==
  ASSUME NEW P, NEW b, Sound(P, b), NEW r, Sound(P, r), NEW q, Sound(P, q), NEW n,
         Extends(b, r, n), Extends(r, q, n)
  PROVE  Extends(b, q, n)
<1>1. /\ Len(b.nodes) \in Nat /\ Len(b.edges) \in Nat /\ Len(r.nodes) \in Nat
      /\ Len(r.edges) \in Nat /\ Len(q.nodes) \in Nat /\ Len(q.edges) \in Nat
  BY SoundLengths
<1>2. 1 .. Len(b.nodes) \subseteq 1 .. Len(r.nodes)
      /\ 1 .. Len(b.edges) \subseteq 1 .. Len(r.edges)
  BY <1>1 DEF Extends
<1>3. /\ Len(b.nodes) <= Len(q.nodes) /\ Len(b.edges) <= Len(q.edges)
  BY <1>1 DEF Extends
<1>4. \A i \in 1 .. Len(b.nodes) : q.nodes[i] = b.nodes[i]
  BY <1>2 DEF Extends
<1>5. \A i \in 1 .. Len(b.edges) :
       /\ q.edges[i] = b.edges[i]
       /\ ToSet(b.facets_per_edge[i]) \subseteq ToSet(q.facets_per_edge[i])
  BY <1>2 DEF Extends
<1>6. \A i \in 1 .. n :
       /\ q.facets[i] = b.facets[i]
       /\ q.oriented_edges_per_facet[i] = b.oriented_edges_per_facet[i]
  BY DEF Extends
<1>7. QED BY <1>3, <1>4, <1>5, <1>6 DEF Extends

\* A side that a facet has got stays.
LEMMA SideStays ==
  ASSUME NEW P, NEW b, Sound(P, b), NEW r, Sound(P, r), NEW n, Extends(b, r, n),
         NEW f, NEW from, NEW to, NEW v, NEW w, NEW o, Side(b, f, from, to, v, w, o)
  PROVE  Side(r, f, from, to, v, w, o)
<1>1. /\ Len(b.nodes) \in Nat /\ Len(b.edges) \in Nat /\ Len(r.nodes) \in Nat
      /\ Len(r.edges) \in Nat /\ b.nodes \in Seq(P) /\ r.nodes \in Seq(P)
  BY SoundLengths
<1>2. IsNumber(r.nodes, v, from) /\ IsNumber(r.nodes, w, to)
  <2>1. /\ Len(b.nodes) <= Len(r.nodes)
        /\ \A i \in 1 .. Len(b.nodes) : r.nodes[i] = b.nodes[i]
        /\ IsNumber(b.nodes, v, from) /\ IsNumber(b.nodes, w, to)
    BY DEF Extends, Side
  <2>2. QED BY <1>1, <2>1, NumberStays
<1>3. /\ o.edge \in 1 .. Len(r.edges) /\ r.edges[o.edge] = b.edges[o.edge]
      /\ f \in ToSet(r.facets_per_edge[o.edge])
  <2>1. /\ o.edge \in 1 .. Len(b.edges) /\ f \in ToSet(b.facets_per_edge[o.edge])
    BY DEF Side
  <2>2. 1 .. Len(b.edges) \subseteq 1 .. Len(r.edges)
    BY <1>1 DEF Extends
  <2>3. /\ r.edges[o.edge] = b.edges[o.edge]
        /\ ToSet(b.facets_per_edge[o.edge]) \subseteq ToSet(r.facets_per_edge[o.edge])
    BY <2>1 DEF Extends
  <2>4. QED BY <2>1, <2>2, <2>3
<1>4. QED BY <1>2, <1>3 DEF Side, first_vertex_of_oriented_edge, second_vertex_of_oriented_edge

\* What adding a side to the last of f facets makes of the mesh.
SideAdded(P, b, r, n, f, from, to) ==
  /\ Sound(P, r) /\ Len(r.facets) = f /\ Extends(b, r, n)
  /\ \E v, w \in Nat, o \in OrientedEdges :
       /\ r.facets[f] = Append(b.facets[f], v)
       /\ r.oriented_edges_per_facet[f] = Append(b.oriented_edges_per_facet[f], o)
       /\ Side(r, f, from, to, v, w, o)

\* Adding a side to the last facet gives it the nodes of that side and an edge that
\* joins them, and leaves the other facets alone.
LEMMA OneMoreSide ==
  ASSUME NEW P, NEW b, Sound(P, b), NEW n \in Nat, NEW f, f = n + 1, Len(b.facets) = f,
         NEW from \in P, NEW to \in P, from # to
  PROVE  SideAdded(P, b, AddSide(b, from, to), n, f, from, to)
<1> DEFINE r == AddSide(b, from, to)
<1>1. /\ b \in Builders(P) /\ EdgesJoinNodes(b)
      /\ Len(b.oriented_edges_per_facet) = Len(b.facets)
      /\ Len(b.facets) = f /\ Len(b.facets) > 0 /\ f - 1 = n
  BY DEF Sound
<1>2. /\ r \in Builders(P) /\ EdgesJoinNodes(r)
      /\ Len(b.nodes) <= Len(r.nodes)
      /\ \A i \in 1 .. Len(b.nodes) : r.nodes[i] = b.nodes[i]
      /\ Len(b.edges) <= Len(r.edges)
      /\ \A i \in 1 .. Len(b.edges) : r.edges[i] = b.edges[i]
      /\ \A i \in 1 .. Len(b.edges) :
           ToSet(b.facets_per_edge[i]) \subseteq ToSet(r.facets_per_edge[i])
      /\ Len(r.facets) = f /\ Len(r.oriented_edges_per_facet) = f
      /\ \A i \in 1 .. f - 1 :
           /\ r.facets[i] = b.facets[i]
           /\ r.oriented_edges_per_facet[i] = b.oriented_edges_per_facet[i]
      /\ \E v, w, e \in Nat, reversed \in BOOLEAN :
           /\ IsNumber(r.nodes, v, from) /\ IsNumber(r.nodes, w, to)
           /\ r.facets[f] = Append(b.facets[f], v)
           /\ r.oriented_edges_per_facet[f]
                = Append(b.oriented_edges_per_facet[f], OrientedEdge(e, reversed))
           /\ e \in 1 .. Len(r.edges) /\ f \in ToSet(r.facets_per_edge[e])
           /\ first_vertex_of_oriented_edge(r, OrientedEdge(e, reversed)) = v
           /\ second_vertex_of_oriented_edge(r, OrientedEdge(e, reversed)) = w
  <2>1. /\ r \in Builders(P) /\ EdgesJoinNodes(r)
        /\ Len(b.nodes) <= Len(r.nodes)
        /\ \A i \in 1 .. Len(b.nodes) : r.nodes[i] = b.nodes[i]
        /\ Len(b.edges) <= Len(r.edges)
        /\ \A i \in 1 .. Len(b.edges) : r.edges[i] = b.edges[i]
        /\ \A i \in 1 .. Len(b.edges) :
             ToSet(b.facets_per_edge[i]) \subseteq ToSet(r.facets_per_edge[i])
        /\ Len(r.facets) = Len(b.facets) /\ Len(r.oriented_edges_per_facet) = Len(b.facets)
        /\ \A i \in 1 .. Len(b.facets) - 1 :
             /\ r.facets[i] = b.facets[i]
             /\ r.oriented_edges_per_facet[i] = b.oriented_edges_per_facet[i]
        /\ \E v, w, e \in Nat, reversed \in BOOLEAN :
             /\ IsNumber(r.nodes, v, from) /\ IsNumber(r.nodes, w, to)
             /\ r.facets[Len(b.facets)] = Append(b.facets[Len(b.facets)], v)
             /\ r.oriented_edges_per_facet[Len(b.facets)]
                  = Append(b.oriented_edges_per_facet[Len(b.facets)], OrientedEdge(e, reversed))
             /\ e \in 1 .. Len(r.edges) /\ Len(b.facets) \in ToSet(r.facets_per_edge[e])
             /\ first_vertex_of_oriented_edge(r, OrientedEdge(e, reversed)) = v
             /\ second_vertex_of_oriented_edge(r, OrientedEdge(e, reversed)) = w
    BY <1>1, SideIs
  <2> HIDE DEF r
  <2>2. QED BY <1>1, <2>1
<1> HIDE DEF r
<1>3. Sound(P, r)
  BY <1>2 DEF Sound
<1>4. Extends(b, r, n)
  BY <1>1, <1>2 DEF Extends
<1>5. \E v, w \in Nat, o \in OrientedEdges :
        /\ r.facets[f] = Append(b.facets[f], v)
        /\ r.oriented_edges_per_facet[f] = Append(b.oriented_edges_per_facet[f], o)
        /\ Side(r, f, from, to, v, w, o)
  <2>1. PICK v, w, e \in Nat, reversed \in BOOLEAN :
           /\ IsNumber(r.nodes, v, from) /\ IsNumber(r.nodes, w, to)
           /\ r.facets[f] = Append(b.facets[f], v)
           /\ r.oriented_edges_per_facet[f]
                = Append(b.oriented_edges_per_facet[f], OrientedEdge(e, reversed))
           /\ e \in 1 .. Len(r.edges) /\ f \in ToSet(r.facets_per_edge[e])
           /\ first_vertex_of_oriented_edge(r, OrientedEdge(e, reversed)) = v
           /\ second_vertex_of_oriented_edge(r, OrientedEdge(e, reversed)) = w
    BY <1>2
  <2> DEFINE o == OrientedEdge(e, reversed)
  <2>2. o \in OrientedEdges /\ o.edge = e
    BY DEF OrientedEdges, OrientedEdge
  <2> HIDE DEF o
  <2>3. Side(r, f, from, to, v, w, o)
    BY <2>1, <2>2 DEF Side, o
  <2>4. /\ r.facets[f] = Append(b.facets[f], v)
        /\ r.oriented_edges_per_facet[f] = Append(b.oriented_edges_per_facet[f], o)
    BY <2>1 DEF o
  <2>5. QED BY <2>2, <2>3, <2>4
<1>6. QED BY <1>2, <1>3, <1>4, <1>5 DEF r, SideAdded

\* A facet has three sides.
LEMMA AddFacetIs ==
  ASSUME NEW b, NEW corners, Len(corners) = 3
  PROVE  LET opened == [b EXCEPT !.facets = Append(@, <<>>),
                                 !.oriented_edges_per_facet = Append(@, <<>>)]
             one == AddSide(opened, corners[1], corners[2])
             two == AddSide(one, corners[2], corners[3])
         IN AddFacet(b, corners) = AddSide(two, corners[3], corners[1])
<1> DEFINE opened == [b EXCEPT !.facets = Append(@, <<>>),
                               !.oriented_edges_per_facet = Append(@, <<>>)]
           one == AddSide(opened, corners[1], corners[2])
           two == AddSide(one, corners[2], corners[3])
           three == AddSide(two, corners[3], corners[1])
           IsIt(g) == g = [i \in 0 .. 3 |->
                             IF i = 0 THEN opened
                             ELSE AddSide(g[i - 1], corners[i], corners[(i % 3) + 1])]
           it == CHOOSE g : IsIt(g)
           f == [i \in 0 .. 3 |-> IF i = 0 THEN opened ELSE IF i = 1 THEN one
                                  ELSE IF i = 2 THEN two ELSE three]
           h == [i \in 0 .. 3 |-> IF i = 0 THEN opened
                                  ELSE AddSide(f[i - 1], corners[i], corners[(i % 3) + 1])]
<1>1. AddFacet(b, corners) = it[3]
  BY DEF AddFacet
<1> HIDE DEF opened
<1>2. \A i \in 0 .. 3 : f[i] = h[i]
  <2>1. f[0] = opened /\ f[1] = one /\ f[2] = two /\ f[3] = three
    <3> HIDE DEF one, two, three
    <3>1. QED OBVIOUS
  <2> HIDE DEF f
  <2>2. /\ h[0] = opened /\ h[1] = AddSide(f[0], corners[1], corners[2])
        /\ h[2] = AddSide(f[1], corners[2], corners[3])
        /\ h[3] = AddSide(f[2], corners[3], corners[1])
    <3>1. 1 % 3 = 1 /\ 2 % 3 = 2 /\ 3 % 3 = 0
      OBVIOUS
    <3>2. QED BY <3>1
  <2> HIDE DEF h
  <2>3. QED BY <2>1, <2>2
<1>3. f = h
  <2>1. f = [i \in 0 .. 3 |-> f[i]] /\ h = [i \in 0 .. 3 |-> h[i]]
    OBVIOUS
  <2> HIDE DEF f, h
  <2>2. QED BY <1>2, <2>1
<1>4. IsIt(f)
  BY <1>3
<1>5. IsIt(it)
  <2> HIDE DEF f, IsIt
  <2>1. QED BY <1>4
<1>6. it[3] = three
  <2> HIDE DEF it
  <2>1. \A i \in 0 .. 3 : it[i] = IF i = 0 THEN opened
                          ELSE AddSide(it[i - 1], corners[i], corners[(i % 3) + 1])
    BY <1>5
  <2>2. 1 % 3 = 1 /\ 2 % 3 = 2 /\ 3 % 3 = 0
    OBVIOUS
  <2>3. it[0] = opened
    BY <2>1
  <2>4. it[1] = AddSide(it[0], corners[1], corners[2])
    BY <2>1, <2>2
  <2>5. it[2] = AddSide(it[1], corners[2], corners[3])
    BY <2>1, <2>2
  <2>6. it[3] = AddSide(it[2], corners[3], corners[1])
    BY <2>1, <2>2
  <2>7. QED BY <2>3, <2>4, <2>5, <2>6
<1>7. QED BY <1>1, <1>6 DEF opened

\* An empty facet is opened.
LEMMA OpenFacet ==
  ASSUME NEW P, NEW b, Sound(P, b)
  PROVE  LET n == Len(b.facets)
             opened == [b EXCEPT !.facets = Append(@, <<>>),
                                 !.oriented_edges_per_facet = Append(@, <<>>)]
         IN /\ Sound(P, opened) /\ Extends(b, opened, n)
            /\ Len(opened.facets) = n + 1 /\ opened.facets[n + 1] = <<>>
            /\ opened.oriented_edges_per_facet[n + 1] = <<>>
<1> DEFINE n == Len(b.facets)
           facets == Append(b.facets, <<>>)
           oriented == Append(b.oriented_edges_per_facet, <<>>)
           opened == [b EXCEPT !.facets = facets, !.oriented_edges_per_facet = oriented]
<1>1. n \in Nat /\ Len(b.nodes) \in Nat /\ Len(b.edges) \in Nat
  BY SoundLengths
<1>2. /\ facets \in Seq(Seq(Nat)) /\ Len(facets) = n + 1 /\ facets[n + 1] = <<>>
      /\ \A i \in 1 .. n : facets[i] = b.facets[i]
  <2> DEFINE old == b.facets
  <2>1. old \in Seq(Seq(Nat)) /\ <<>> \in Seq(Nat)
    BY SoundLengths
  <2> HIDE DEF old
  <2>2. /\ Append(old, <<>>) \in Seq(Seq(Nat)) /\ Len(Append(old, <<>>)) = Len(old) + 1
        /\ \A i \in 1 .. Len(old) : Append(old, <<>>)[i] = old[i]
        /\ Append(old, <<>>)[Len(old) + 1] = <<>>
    BY <2>1, AppendProperties
  <2>3. QED BY <2>2 DEF old
<1>3. /\ oriented \in Seq(Seq(OrientedEdges)) /\ Len(oriented) = n + 1
      /\ oriented[n + 1] = <<>>
      /\ \A i \in 1 .. n : oriented[i] = b.oriented_edges_per_facet[i]
  <2> DEFINE old == b.oriented_edges_per_facet
  <2>1. old \in Seq(Seq(OrientedEdges)) /\ <<>> \in Seq(OrientedEdges)
    BY SoundLengths
  <2>2. Len(old) = n
    BY DEF Sound
  <2> HIDE DEF old
  <2>3. /\ Append(old, <<>>) \in Seq(Seq(OrientedEdges))
        /\ Len(Append(old, <<>>)) = Len(old) + 1
        /\ \A i \in 1 .. Len(old) : Append(old, <<>>)[i] = old[i]
        /\ Append(old, <<>>)[Len(old) + 1] = <<>>
    BY <2>1, AppendProperties
  <2> HIDE DEF n
  <2>4. QED BY <2>2, <2>3 DEF old
<1> HIDE DEF facets, oriented, n
<1>4. /\ opened \in Builders(P) /\ opened.nodes = b.nodes /\ opened.edges = b.edges
      /\ opened.facets = facets /\ opened.oriented_edges_per_facet = oriented
      /\ opened.facets_per_edge = b.facets_per_edge
  BY <1>2, <1>3 DEF Sound, Builders
<1> HIDE DEF opened
<1>5. Sound(P, opened)
  <2>1. EdgesJoinNodes(opened)
    BY <1>4 DEF Sound, EdgesJoinNodes
  <2>2. QED BY <1>2, <1>3, <1>4, <2>1 DEF Sound
<1>6. Extends(b, opened, n)
  BY <1>1, <1>2, <1>3, <1>4 DEF Extends
<1>7. QED BY <1>2, <1>3, <1>4, <1>5, <1>6 DEF opened, facets, oriented, n

\* The nodes of facet f are the numbers of the points of t.
HasCorners(b, f, t) == \A i \in 1 .. 3 : IsNumber(b.nodes, b.facets[f][i], t[i])

\* Three sides between different points make a triangle, behind the facets there were.
LEMMA TriangleIs ==
  ASSUME NEW P, NEW b, Sound(P, b),
         NEW x \in P, NEW y \in P, NEW z \in P, x # y, y # z, z # x
  PROVE  LET n == Len(b.facets)
             opened == [b EXCEPT !.facets = Append(@, <<>>),
                                 !.oriented_edges_per_facet = Append(@, <<>>)]
             r == AddSide(AddSide(AddSide(opened, x, y), y, z), z, x)
         IN /\ Sound(P, r) /\ Extends(b, r, n)
            /\ Len(r.facets) = n + 1 /\ Triangle(r, n + 1)
            /\ \A t : t[1] = x /\ t[2] = y /\ t[3] = z => HasCorners(r, n + 1, t)
<1> DEFINE n == Len(b.facets)
           opened == [b EXCEPT !.facets = Append(@, <<>>),
                               !.oriented_edges_per_facet = Append(@, <<>>)]
           one == AddSide(opened, x, y)
           two == AddSide(one, y, z)
           r == AddSide(two, z, x)
           f == n + 1
<1>1. n \in Nat /\ f = n + 1
  <2>1. n \in Nat
    BY SoundLengths
  <2> HIDE DEF n
  <2>2. QED BY <2>1
<1>2. /\ Sound(P, opened) /\ Extends(b, opened, n)
      /\ Len(opened.facets) = f /\ opened.facets[f] = <<>>
      /\ opened.oriented_edges_per_facet[f] = <<>>
  BY OpenFacet
<1> HIDE DEF opened, n, f
<1>3. SideAdded(P, opened, one, n, f, x, y)
  BY <1>1, <1>2, OneMoreSide
<1>4. SideAdded(P, one, two, n, f, y, z)
  <2>1. Sound(P, one) /\ Len(one.facets) = f
    BY <1>3 DEF SideAdded
  <2> HIDE DEF one
  <2>2. QED BY <1>1, <2>1, OneMoreSide
<1>5. SideAdded(P, two, r, n, f, z, x)
  <2>1. Sound(P, two) /\ Len(two.facets) = f
    BY <1>4 DEF SideAdded
  <2> HIDE DEF two
  <2>2. QED BY <1>1, <2>1, OneMoreSide
<1> HIDE DEF one, two, r
<1>6. PICK v1, w1 \in Nat, o1 \in OrientedEdges :
        /\ one.facets[f] = Append(opened.facets[f], v1)
        /\ one.oriented_edges_per_facet[f]
             = Append(opened.oriented_edges_per_facet[f], o1)
        /\ Side(one, f, x, y, v1, w1, o1)
  BY <1>3 DEF SideAdded
<1>7. PICK v2, w2 \in Nat, o2 \in OrientedEdges :
        /\ two.facets[f] = Append(one.facets[f], v2)
        /\ two.oriented_edges_per_facet[f]
             = Append(one.oriented_edges_per_facet[f], o2)
        /\ Side(two, f, y, z, v2, w2, o2)
  BY <1>4 DEF SideAdded
<1>8. PICK v3, w3 \in Nat, o3 \in OrientedEdges :
        /\ r.facets[f] = Append(two.facets[f], v3)
        /\ r.oriented_edges_per_facet[f]
             = Append(two.oriented_edges_per_facet[f], o3)
        /\ Side(r, f, z, x, v3, w3, o3)
  BY <1>5 DEF SideAdded
<1>9. /\ Sound(P, one) /\ Sound(P, two) /\ Sound(P, r) /\ Len(r.facets) = f
      /\ Extends(opened, one, n) /\ Extends(one, two, n) /\ Extends(two, r, n)
  BY <1>3, <1>4, <1>5 DEF SideAdded
<1>10. /\ Extends(b, r, n) /\ Extends(one, r, n)
  BY <1>2, <1>9, ExtendsTransitive
<1>11. Side(r, f, x, y, v1, w1, o1) /\ Side(r, f, y, z, v2, w2, o2)
  BY <1>6, <1>7, <1>9, <1>10, SideStays
<1>12. w1 = v2 /\ w2 = v3 /\ w3 = v1 /\ v1 # v2 /\ v2 # v3 /\ v3 # v1
  <2>1. /\ IsNumber(r.nodes, v1, x) /\ IsNumber(r.nodes, w1, y)
        /\ IsNumber(r.nodes, v2, y) /\ IsNumber(r.nodes, w2, z)
        /\ IsNumber(r.nodes, v3, z) /\ IsNumber(r.nodes, w3, x)
    BY <1>8, <1>11 DEF Side
  <2>2. w1 = v2 /\ w2 = v3 /\ w3 = v1
    BY <2>1, NumberIsUnique
  <2>3. QED BY <2>1, <2>2 DEF IsNumber
<1>13. r.facets[f] = <<v1, v2, v3>> /\ r.oriented_edges_per_facet[f] = <<o1, o2, o3>>
  <2> DEFINE e0 == opened.facets[f]
             e1 == one.facets[f]
             e2 == two.facets[f]
  <2>1. e0 = <<>> /\ e1 = Append(e0, v1) /\ e2 = Append(e1, v2)
        /\ r.facets[f] = Append(e2, v3)
    BY <1>2, <1>6, <1>7, <1>8
  <2> DEFINE d0 == opened.oriented_edges_per_facet[f]
             d1 == one.oriented_edges_per_facet[f]
             d2 == two.oriented_edges_per_facet[f]
  <2>2. d0 = <<>> /\ d1 = Append(d0, o1) /\ d2 = Append(d1, o2)
        /\ r.oriented_edges_per_facet[f] = Append(d2, o3)
    BY <1>2, <1>6, <1>7, <1>8
  <2> HIDE DEF e0, e1, e2, d0, d1, d2
  <2>3. e1 = <<v1>> /\ d1 = <<o1>>
    BY <2>1, <2>2
  <2>4. e2 = <<v1, v2>> /\ d2 = <<o1, o2>>
    BY <2>1, <2>2, <2>3, AppendToTuples
  <2>5. r.facets[f] = <<v1, v2, v3>>
    BY <2>1, <2>4, AppendToTuples
  <2>6. r.oriented_edges_per_facet[f] = <<o1, o2, o3>>
    BY <2>2, <2>4, AppendToTuples
  <2>7. QED BY <2>5, <2>6
<1>14. Triangle(r, f)
  <2> DEFINE v == <<v1, v2, v3>>
             o == <<o1, o2, o3>>
  <2>1. /\ v[1] = v1 /\ v[2] = v2 /\ v[3] = v3 /\ Len(v) = 3
        /\ o[1] = o1 /\ o[2] = o2 /\ o[3] = o3 /\ Len(o) = 3
    OBVIOUS
  <2> HIDE DEF v, o
  <2>2. r.facets[f] = v /\ r.oriented_edges_per_facet[f] = o
    BY <1>13 DEF v, o
  <2>3. \A i, j \in 1 .. 3 : i # j => v[i] # v[j]
    BY <1>12, <2>1
  <2>4. ASSUME NEW i \in 1 .. 3
        PROVE  /\ o[i].edge \in 1 .. Len(r.edges)
               /\ first_vertex_of_oriented_edge(r, o[i]) = v[i]
               /\ second_vertex_of_oriented_edge(r, o[i]) = v[(i % 3) + 1]
               /\ f \in ToSet(r.facets_per_edge[o[i].edge])
    <3>1. 1 % 3 = 1 /\ 2 % 3 = 2 /\ 3 % 3 = 0
      OBVIOUS
    <3>2. CASE i = 1
      BY <1>11, <1>12, <2>1, <3>1, <3>2 DEF Side
    <3>3. CASE i = 2
      BY <1>11, <1>12, <2>1, <3>1, <3>3 DEF Side
    <3>4. CASE i = 3
      BY <1>8, <1>12, <2>1, <3>1, <3>4 DEF Side
    <3>5. QED BY <3>2, <3>3, <3>4
  <2>5. QED BY <2>1, <2>2, <2>3, <2>4 DEF Triangle
<1>15. ASSUME NEW t, t[1] = x, t[2] = y, t[3] = z PROVE HasCorners(r, f, t)
  <2> DEFINE v == <<v1, v2, v3>>
  <2>1. r.facets[f] = v
    BY <1>13
  <2>2. v[1] = v1 /\ v[2] = v2 /\ v[3] = v3
    OBVIOUS
  <2> HIDE DEF v
  <2>3. /\ IsNumber(r.nodes, v1, x) /\ IsNumber(r.nodes, v2, y) /\ IsNumber(r.nodes, v3, z)
    BY <1>8, <1>11 DEF Side
  <2>4. ASSUME NEW i \in 1 .. 3 PROVE IsNumber(r.nodes, v[i], t[i])
    <3>1. i = 1 \/ i = 2 \/ i = 3
      OBVIOUS
    <3>2. QED BY <1>15, <2>2, <2>3, <3>1
  <2>5. QED BY <2>1, <2>4 DEF HasCorners
<1>16. QED BY <1>9, <1>10, <1>14, <1>15 DEF r, two, one, opened, n, f

\* A triangle stays one when more facets are added.
LEMMA TriangleStays ==
  ASSUME NEW P, NEW b, Sound(P, b), NEW r, Sound(P, r), NEW n, Extends(b, r, n),
         NEW f \in 1 .. n, Triangle(b, f)
  PROVE  Triangle(r, f)
<1>1. r.facets[f] = b.facets[f]
      /\ r.oriented_edges_per_facet[f] = b.oriented_edges_per_facet[f]
  BY DEF Extends
<1>2. 1 .. Len(b.edges) \subseteq 1 .. Len(r.edges)
  <2>1. Len(b.edges) \in Nat /\ Len(r.edges) \in Nat
    BY SoundLengths
  <2>2. QED BY <2>1 DEF Extends
<1>3. ASSUME NEW i \in 1 .. 3
      PROVE  LET o == b.oriented_edges_per_facet[f][i]
             IN /\ o.edge \in 1 .. Len(r.edges)
                /\ first_vertex_of_oriented_edge(r, o) = b.facets[f][i]
                /\ second_vertex_of_oriented_edge(r, o) = b.facets[f][(i % 3) + 1]
                /\ f \in ToSet(r.facets_per_edge[o.edge])
  <2> DEFINE o == b.oriented_edges_per_facet[f][i]
  <2>1. /\ o.edge \in 1 .. Len(b.edges)
        /\ first_vertex_of_oriented_edge(b, o) = b.facets[f][i]
        /\ second_vertex_of_oriented_edge(b, o) = b.facets[f][(i % 3) + 1]
        /\ f \in ToSet(b.facets_per_edge[o.edge])
    BY DEF Triangle
  <2> HIDE DEF o
  <2>2. /\ r.edges[o.edge] = b.edges[o.edge]
        /\ ToSet(b.facets_per_edge[o.edge]) \subseteq ToSet(r.facets_per_edge[o.edge])
    BY <2>1 DEF Extends
  <2>3. /\ first_vertex_of_oriented_edge(r, o) = first_vertex_of_oriented_edge(b, o)
        /\ second_vertex_of_oriented_edge(r, o) = second_vertex_of_oriented_edge(b, o)
    BY <2>2 DEF first_vertex_of_oriented_edge, second_vertex_of_oriented_edge
  <2>4. QED BY <1>2, <2>1, <2>2, <2>3 DEF o
<1>4. QED BY <1>1, <1>3, ZenonT(60) DEF Triangle

\* So do its corners.
LEMMA CornersStay ==
  ASSUME NEW P, NEW b, Sound(P, b), NEW r, Sound(P, r), NEW n, Extends(b, r, n),
         NEW f \in 1 .. n, NEW t, HasCorners(b, f, t)
  PROVE  HasCorners(r, f, t)
<1>1. /\ r.facets[f] = b.facets[f] /\ Len(b.nodes) <= Len(r.nodes)
      /\ \A i \in 1 .. Len(b.nodes) : r.nodes[i] = b.nodes[i]
  BY DEF Extends
<1>2. b.nodes \in Seq(P) /\ r.nodes \in Seq(P)
  BY SoundLengths
<1>3. ASSUME NEW i \in 1 .. 3 PROVE IsNumber(r.nodes, r.facets[f][i], t[i])
  <2>1. IsNumber(b.nodes, b.facets[f][i], t[i])
    BY DEF HasCorners
  <2>2. QED BY <1>1, <1>2, <2>1, NumberStays
<1>4. QED BY <1>3 DEF HasCorners

\* The meshes after each facet.
IsAfterFacets(f, n, hull) ==
  f = [k \in 0 .. n |-> IF k = 0 THEN Start ELSE AddFacet(f[k - 1], hull[k])]

\* The recursive function behind AddFacets exists, by induction on the number of facets.
LEMMA FacetsExist ==
  ASSUME NEW hull, NEW n \in Nat
  PROVE  \E f : IsAfterFacets(f, n, hull)
<1> DEFINE T == {m \in 0 .. n : ~ \E f : IsAfterFacets(f, m, hull)}
<1>1. SUFFICES ASSUME T # {} PROVE FALSE
  OBVIOUS
<1>2. PICK m \in T : \A y \in T : m <= y
  <2>1. T \in SUBSET Nat
    OBVIOUS
  <2>2. QED BY <1>1, <2>1, LeastNat
<1>3. CASE m = 0
  <2> DEFINE f == [k \in 0 .. 0 |-> Start]
  <2>1. f = [k \in 0 .. 0 |-> IF k = 0 THEN Start ELSE AddFacet(f[k - 1], hull[k])]
    OBVIOUS
  <2> HIDE DEF f
  <2>2. IsAfterFacets(f, 0, hull)
    BY <2>1 DEF IsAfterFacets
  <2>3. QED BY <1>3, <2>2
<1>4. CASE m # 0
  <2>1. m \in 1 .. n /\ m - 1 \in 0 .. n /\ ~(m <= m - 1)
    BY <1>4
  <2>2. m - 1 \notin T
    BY <1>2, <2>1
  <2>3. PICK g : IsAfterFacets(g, m - 1, hull)
    BY <2>1, <2>2
  <2> DEFINE last == AddFacet(g[m - 1], hull[m])
             f == [k \in 0 .. m |-> IF k = m THEN last ELSE g[k]]
             h == [k \in 0 .. m |-> IF k = 0 THEN Start
                                    ELSE AddFacet(f[k - 1], hull[k])]
  <2>4. ASSUME NEW k \in 0 .. m PROVE f[k] = h[k]
    <3>1. CASE k = m
      <4>1. f[m] = last /\ f[m - 1] = g[m - 1]
        BY <2>1
      <4>2. h[m] = AddFacet(f[m - 1], hull[m])
        BY <2>1
      <4> HIDE DEF f, h
      <4>3. QED BY <3>1, <4>1, <4>2
    <3>2. CASE k # m
      <4>1. k \in 0 .. m - 1 /\ f[k] = g[k]
        BY <2>1, <3>2
      <4>2. g[k] = IF k = 0 THEN Start ELSE AddFacet(g[k - 1], hull[k])
        BY <2>3, <4>1 DEF IsAfterFacets
      <4>3. k # 0 => f[k - 1] = g[k - 1]
        BY <2>1, <3>2
      <4>4. h[k] = IF k = 0 THEN Start ELSE AddFacet(f[k - 1], hull[k])
        OBVIOUS
      <4> HIDE DEF f, h, last
      <4>5. QED BY <4>1, <4>2, <4>3, <4>4
    <3>3. QED BY <3>1, <3>2
  <2>5. f = h
    <3>1. f = [k \in 0 .. m |-> f[k]] /\ h = [k \in 0 .. m |-> h[k]]
      OBVIOUS
    <3> HIDE DEF f, h
    <3>2. QED BY <2>4, <3>1
  <2> HIDE DEF f
  <2>6. IsAfterFacets(f, m, hull)
    BY <2>5 DEF IsAfterFacets
  <2>7. QED BY <2>6
<1>5. QED BY <1>3, <1>4

Facets(hull) == CHOOSE f : IsAfterFacets(f, Len(hull), hull)

\* AddFacets adds the facets one after the other.
LEMMA FacetsAre ==
  ASSUME NEW hull, Len(hull) \in Nat
  PROVE  /\ AddFacets(hull) = Facets(hull)[Len(hull)]
         /\ Facets(hull)[0] = Start
         /\ \A k \in 1 .. Len(hull) :
              Facets(hull)[k] = AddFacet(Facets(hull)[k - 1], hull[k])
<1> DEFINE n == Len(hull)
           a == Facets(hull)
<1>1. n \in Nat
  OBVIOUS
<1>2. IsAfterFacets(a, n, hull)
  <2>1. \E f : IsAfterFacets(f, n, hull)
    BY <1>1, FacetsExist
  <2>2. QED BY <2>1, Zenon DEF Facets
<1>3. AddFacets(hull) = a[n]
  BY DEF AddFacets, Facets, IsAfterFacets
<1> HIDE DEF n, a
<1>4. \A k \in 0 .. n : a[k] = IF k = 0 THEN Start ELSE AddFacet(a[k - 1], hull[k])
  BY <1>2 DEF IsAfterFacets
<1>5. a[0] = Start /\ \A k \in 1 .. n : a[k] = AddFacet(a[k - 1], hull[k])
  BY <1>1, <1>4
<1>6. QED BY <1>3, <1>5 DEF n, a

\* A hull as an STL file gives it: three corners for each facet.
IsHull(P, hull) ==
  /\ Len(hull) \in Nat
  /\ \A f \in 1 .. Len(hull) :
       /\ Len(hull[f]) = 3
       /\ \A i \in 1 .. 3 : hull[f][i] \in P
       /\ \A i, j \in 1 .. 3 : i # j => hull[f][i] # hull[f][j]

\* The static mesh has a triangle for each facet of the hull.
LEMMA BuilderIs ==
  ASSUME NEW P, NEW hull, IsHull(P, hull)
  PROVE  LET b == AddFacets(hull)
         IN /\ Sound(P, b) /\ Len(b.facets) = Len(hull)
            /\ \A f \in 1 .. Len(b.facets) : Triangle(b, f) /\ HasCorners(b, f, hull[f])
<1> DEFINE n == Len(hull)
           a == Facets(hull)
           Good(b, k) ==
             /\ Sound(P, b) /\ Len(b.facets) = k
             /\ \A f \in 1 .. k : Triangle(b, f) /\ HasCorners(b, f, hull[f])
           T == {k \in 0 .. n : Good(a[k], k)}
<1>1. n \in Nat
  BY DEF IsHull
<1>2. /\ AddFacets(hull) = a[n] /\ a[0] = Start
      /\ \A k \in 1 .. n : a[k] = AddFacet(a[k - 1], hull[k])
  BY <1>1, FacetsAre
<1> HIDE DEF n, a
<1>3. Good(Start, 0)
  <2>1. Start \in Builders(P)
    BY EmptySeq DEF Start, Builders
  <2>2. /\ Len(Start.facets) = 0 /\ Len(Start.edges) = 0 /\ Len(Start.facets_per_edge) = 0
        /\ Len(Start.oriented_edges_per_facet) = 0
    BY DEF Start
  <2>3. EdgesJoinNodes(Start)
    BY <2>2 DEF EdgesJoinNodes, EdgesDiffer
  <2>4. QED BY <2>1, <2>2, <2>3 DEF Sound
<1>4. ASSUME NEW k \in 0 .. n - 1, Good(a[k], k) PROVE Good(a[k + 1], k + 1)
  <2> DEFINE b == a[k]
             c == hull[k + 1]
             r == AddFacet(b, c)
  <2>1. k + 1 \in 1 .. n /\ k \in Nat /\ (k + 1) - 1 = k
    BY <1>1
  <2>2. a[k + 1] = r
    BY <1>2, <2>1
  <2>3. /\ Len(c) = 3 /\ c[1] \in P /\ c[2] \in P /\ c[3] \in P
        /\ c[1] # c[2] /\ c[2] # c[3] /\ c[3] # c[1]
    BY <2>1 DEF IsHull, n
  <2>4. /\ Sound(P, b) /\ Len(b.facets) = k
        /\ \A f \in 1 .. k : Triangle(b, f) /\ HasCorners(b, f, hull[f])
    BY <1>4
  <2> HIDE DEF b, c, Good
  <2>5. /\ Sound(P, r) /\ Extends(b, r, k) /\ Len(r.facets) = k + 1
        /\ Triangle(r, k + 1) /\ HasCorners(r, k + 1, c)
    <3> DEFINE opened == [b EXCEPT !.facets = Append(@, <<>>),
                                   !.oriented_edges_per_facet = Append(@, <<>>)]
               q == AddSide(AddSide(AddSide(opened, c[1], c[2]), c[2], c[3]), c[3], c[1])
    <3>1. r = q
      BY <2>3, AddFacetIs
    <3>2. /\ Sound(P, q) /\ Extends(b, q, Len(b.facets))
          /\ Len(q.facets) = Len(b.facets) + 1 /\ Triangle(q, Len(b.facets) + 1)
          /\ \A t : t[1] = c[1] /\ t[2] = c[2] /\ t[3] = c[3]
                   => HasCorners(q, Len(b.facets) + 1, t)
      BY <2>3, <2>4, TriangleIs
    <3>3. HasCorners(q, Len(b.facets) + 1, c)
      <4> HIDE DEF q
      <4>1. QED BY <3>2, Zenon
    <3> HIDE DEF q, r
    <3>4. QED BY <2>4, <3>1, <3>2, <3>3
  <2> HIDE DEF r
  <2>6. \A f \in 1 .. k : Triangle(r, f) /\ HasCorners(r, f, hull[f])
    BY <2>4, <2>5, TriangleStays, CornersStay
  <2>7. \A f \in 1 .. k + 1 : Triangle(r, f) /\ HasCorners(r, f, hull[f])
    BY <2>1, <2>5, <2>6 DEF c
  <2>8. Good(r, k + 1)
    BY <2>5, <2>7 DEF Good
  <2>9. QED BY <2>2, <2>8
<1>5. \A k \in 0 .. n : k \in T
  <2>1. 0 \in T
    BY <1>1, <1>2, <1>3
  <2>2. \A k \in 0 .. n - 1 : k \in T => k + 1 \in T
    <3> SUFFICES ASSUME NEW k \in 0 .. n - 1, k \in T PROVE k + 1 \in T
      OBVIOUS
    <3>1. Good(a[k], k) /\ k + 1 \in 0 .. n
      BY <1>1
    <3> HIDE DEF Good
    <3>2. Good(a[k + 1], k + 1)
      BY <1>4, <3>1
    <3>3. QED BY <3>1, <3>2
  <2> HIDE DEF T
  <2>3. QED BY <1>1, <2>1, <2>2, InductionUpTo
<1>6. Good(a[n], n)
  BY <1>1, <1>5
<1>7. QED BY <1>2, <1>6 DEF n

-----------------------------------------------------------------------------
(* Meshes that grow *)

Meshes ==
  [edges : Seq(Nat \X Nat), facets : Seq(Seq(Nat)), facets_per_edge : Seq(Seq(Nat)),
   oriented_edges_per_facet : Seq(Seq(OrientedEdges)), total_number_of_nodes : Nat,
   nb_of_static_nodes : Nat, nb_of_static_edges : Nat, nb_of_static_facets : Nat]

\* The ends of the edges and the nodes of the facets exist.
EdgesExist(m) ==
  \A e \in 1 .. Len(m.edges) : m.edges[e][1] \in 1 .. m.total_number_of_nodes
                               /\ m.edges[e][2] \in 1 .. m.total_number_of_nodes
FacetsExistIn(m) ==
  \A f \in 1 .. Len(m.facets) : \A i \in 1 .. Len(m.facets[f]) :
    m.facets[f][i] \in 1 .. m.total_number_of_nodes

\* A mesh as it was read.
Static(s) ==
  /\ s \in Meshes /\ EdgesExist(s)
  /\ Len(s.edges) = s.nb_of_static_edges /\ Len(s.facets) = s.nb_of_static_facets
  /\ s.total_number_of_nodes = s.nb_of_static_nodes
  /\ Len(s.facets_per_edge) = Len(s.edges)
  /\ Len(s.oriented_edges_per_facet) = Len(s.facets)
  /\ \A f \in 1 .. Len(s.facets) : Triangle(s, f)

\* What was in the mesh is still there.
Grown(s, m) ==
  /\ m \in Meshes
  /\ m.facets_per_edge = s.facets_per_edge
  /\ m.oriented_edges_per_facet = s.oriented_edges_per_facet
  /\ m.nb_of_static_nodes = s.nb_of_static_nodes
  /\ m.nb_of_static_edges = s.nb_of_static_edges
  /\ m.nb_of_static_facets = s.nb_of_static_facets
  /\ Len(s.edges) <= Len(m.edges)
  /\ \A i \in 1 .. Len(s.edges) : m.edges[i] = s.edges[i]
  /\ Len(s.facets) <= Len(m.facets)
  /\ \A i \in 1 .. Len(s.facets) : m.facets[i] = s.facets[i]
  /\ s.total_number_of_nodes <= m.total_number_of_nodes

\* The parts of a mesh.
LEMMA MeshParts ==
  ASSUME NEW m \in Meshes
  PROVE  /\ m.edges \in Seq(Nat \X Nat) /\ m.facets \in Seq(Seq(Nat))
         /\ m.oriented_edges_per_facet \in Seq(Seq(OrientedEdges))
         /\ Len(m.edges) \in Nat /\ Len(m.facets) \in Nat
         /\ m.total_number_of_nodes \in Nat
         /\ m.nb_of_static_nodes \in Nat /\ m.nb_of_static_edges \in Nat
         /\ m.nb_of_static_facets \in Nat
<1>1. /\ m.edges \in Seq(Nat \X Nat) /\ m.facets \in Seq(Seq(Nat))
      /\ m.oriented_edges_per_facet \in Seq(Seq(OrientedEdges))
      /\ m.total_number_of_nodes \in Nat
      /\ m.nb_of_static_nodes \in Nat /\ m.nb_of_static_edges \in Nat
      /\ m.nb_of_static_facets \in Nat
  BY DEF Meshes
<1>2. QED BY <1>1, LenProperties

\* The facets of a mesh have a node in common where those of the hull have a corner.
SameCorners(s, hull) ==
  /\ Len(s.facets) = Len(hull)
  /\ \A f, g \in 1 .. Len(hull) : \A i, j \in 1 .. 3 :
       s.facets[f][i] = s.facets[g][j] <=> hull[f][i] = hull[g][j]

\* What is built from a hull of triangles is a static mesh, all of whose nodes exist,
\* with one node for each corner and one edge for each pair of corners that it joins.
LEMMA BuiltIs ==
  ASSUME NEW P, NEW hull, IsHull(P, hull)
  PROVE  /\ Static(build(hull)) /\ FacetsExistIn(build(hull))
         /\ EdgesDiffer(build(hull).edges) /\ SameCorners(build(hull), hull)
         /\ EdgesJoinTwo(build(hull).edges)
<1> DEFINE b == AddFacets(hull)
           s == build(hull)
<1>1. /\ Sound(P, b) /\ Len(b.facets) = Len(hull)
      /\ \A f \in 1 .. Len(b.facets) : Triangle(b, f) /\ HasCorners(b, f, hull[f])
  BY BuilderIs
<1>2. /\ s.edges = b.edges /\ s.facets = b.facets /\ s.facets_per_edge = b.facets_per_edge
      /\ s.oriented_edges_per_facet = b.oriented_edges_per_facet
      /\ s.total_number_of_nodes = Len(b.nodes) /\ s.nb_of_static_nodes = Len(b.nodes)
      /\ s.nb_of_static_edges = Len(b.edges) /\ s.nb_of_static_facets = Len(b.facets)
  BY DEF build
<1>3. /\ Len(b.nodes) \in Nat /\ Len(b.edges) \in Nat /\ Len(b.facets) \in Nat
  BY <1>1, SoundLengths
<1> HIDE DEF b
<1>4. s \in Meshes
  BY <1>1, <1>3 DEF build, Meshes, Sound, Builders, b
<1> HIDE DEF s
<1>5. EdgesExist(s)
  BY <1>1, <1>2 DEF EdgesExist, Sound, EdgesJoinNodes
<1>6. ASSUME NEW f \in 1 .. Len(s.facets) PROVE Triangle(s, f)
  <2>1. Triangle(b, f)
    BY <1>1, <1>2
  <2>2. \A o : /\ first_vertex_of_oriented_edge(s, o) = first_vertex_of_oriented_edge(b, o)
              /\ second_vertex_of_oriented_edge(s, o) = second_vertex_of_oriented_edge(b, o)
    BY <1>2 DEF first_vertex_of_oriented_edge, second_vertex_of_oriented_edge
  <2>3. QED BY <1>2, <2>1, <2>2, ZenonT(60) DEF Triangle
<1>7. FacetsExistIn(s)
  <2> SUFFICES ASSUME NEW f \in 1 .. Len(s.facets), NEW i \in 1 .. Len(s.facets[f])
               PROVE  s.facets[f][i] \in 1 .. s.total_number_of_nodes
    BY DEF FacetsExistIn
  <2> DEFINE o == s.oriented_edges_per_facet[f][i]
  <2>1. o.edge \in 1 .. Len(s.edges) /\ first_vertex_of_oriented_edge(s, o) = s.facets[f][i]
    BY <1>6 DEF Triangle
  <2> HIDE DEF o
  <2>2. first_vertex_of_oriented_edge(s, o) \in 1 .. s.total_number_of_nodes
    BY <1>5, <2>1 DEF EdgesExist, first_vertex_of_oriented_edge
  <2>3. QED BY <2>1, <2>2
<1>8. /\ Len(s.facets_per_edge) = Len(s.edges)
      /\ Len(s.oriented_edges_per_facet) = Len(s.facets)
  BY <1>1, <1>2 DEF Sound, EdgesJoinNodes
<1>9. EdgesDiffer(s.edges) /\ EdgesJoinTwo(s.edges)
  BY <1>1, <1>2 DEF Sound, EdgesJoinNodes, EdgesJoinTwo
<1>10. SameCorners(s, hull)
  <2>1. Len(s.facets) = Len(hull)
    BY <1>1, <1>2
  <2>2. ASSUME NEW f \in 1 .. Len(hull), NEW g \in 1 .. Len(hull),
               NEW i \in 1 .. 3, NEW j \in 1 .. 3
        PROVE  s.facets[f][i] = s.facets[g][j] <=> hull[f][i] = hull[g][j]
    <3>1. /\ IsNumber(b.nodes, s.facets[f][i], hull[f][i])
          /\ IsNumber(b.nodes, s.facets[g][j], hull[g][j])
      BY <1>1, <1>2 DEF HasCorners
    <3>2. CASE hull[f][i] = hull[g][j]
      BY <3>1, <3>2, NumberIsUnique
    <3>3. CASE s.facets[f][i] = s.facets[g][j]
      BY <3>1, <3>3 DEF IsNumber
    <3>4. QED BY <3>2, <3>3
  <2>3. QED BY <2>1, <2>2 DEF SameCorners
<1>11. QED BY <1>2, <1>4, <1>5, <1>6, <1>7, <1>8, <1>9, <1>10 DEF Static, s

\* A mesh has all that it has.
LEMMA GrownItself ==
  ASSUME NEW m \in Meshes
  PROVE  Grown(m, m)
BY MeshParts DEF Grown

\* What grows twice has grown.
LEMMA GrownTransitive ==
  ASSUME NEW s \in Meshes, NEW m, NEW r, Grown(s, m), Grown(m, r)
  PROVE  Grown(s, r)
<1>1. m \in Meshes /\ r \in Meshes
  BY DEF Grown
<1>2. /\ Len(s.edges) \in Nat /\ Len(m.edges) \in Nat /\ Len(r.edges) \in Nat
      /\ Len(s.facets) \in Nat /\ Len(m.facets) \in Nat /\ Len(r.facets) \in Nat
      /\ s.total_number_of_nodes \in Nat /\ m.total_number_of_nodes \in Nat
      /\ r.total_number_of_nodes \in Nat
  BY <1>1, MeshParts
<1>3. 1 .. Len(s.edges) \subseteq 1 .. Len(m.edges)
      /\ 1 .. Len(s.facets) \subseteq 1 .. Len(m.facets)
  BY <1>2 DEF Grown
<1>4. /\ Len(s.edges) <= Len(r.edges) /\ Len(s.facets) <= Len(r.facets)
      /\ s.total_number_of_nodes <= r.total_number_of_nodes
  BY <1>2, SMTT(40) DEF Grown
<1>5. \A i \in 1 .. Len(s.edges) : r.edges[i] = s.edges[i]
  BY <1>3 DEF Grown
<1>6. \A i \in 1 .. Len(s.facets) : r.facets[i] = s.facets[i]
  BY <1>3 DEF Grown
<1>7. QED BY <1>1, <1>4, <1>5, <1>6 DEF Grown

\* Dropping what was added gives the static mesh back.
LEMMA ResetIs ==
  ASSUME NEW s, Static(s), NEW m, Grown(s, m)
  PROVE  reset_dynamic_data(m) = s
<1> DEFINE edges == SubSeq(m.edges, 1, m.nb_of_static_edges)
           facets == SubSeq(m.facets, 1, m.nb_of_static_facets)
<1>1. s \in Meshes /\ m \in Meshes
  BY DEF Static, Grown
<1>2. /\ s.edges \in Seq(Nat \X Nat) /\ s.facets \in Seq(Seq(Nat))
      /\ m.edges \in Seq(Nat \X Nat) /\ m.facets \in Seq(Seq(Nat))
      /\ Len(s.edges) \in Nat /\ Len(s.facets) \in Nat
      /\ m.nb_of_static_edges = Len(s.edges) /\ m.nb_of_static_facets = Len(s.facets)
      /\ m.nb_of_static_nodes = s.total_number_of_nodes
  BY <1>1, MeshParts DEF Static, Grown
<1>3. edges = s.edges
  <2> DEFINE n == m.nb_of_static_edges
             q == m.edges
  <2>1. /\ n \in Nat /\ n = Len(s.edges) /\ q \in Seq(Nat \X Nat)
        /\ \A i \in 1 .. n : q[i] = s.edges[i]
    BY <1>2 DEF Grown
  <2>2. \A i \in 1 .. n : q[i] \in Nat \X Nat
    <3>1. \A i \in 1 .. n : s.edges[i] \in Nat \X Nat
      BY <1>2, <2>1, ElementOfSeq
    <3>2. QED BY <2>1, <3>1
  <2> HIDE DEF n, q
  <2>3. /\ SubSeq(q, 1, n) \in Seq(Nat \X Nat)
        /\ Len(SubSeq(q, 1, n)) = IF 1 <= n THEN n - 1 + 1 ELSE 0
        /\ \A i \in 1 .. n - 1 + 1 : SubSeq(q, 1, n)[i] = q[1 + i - 1]
    <3>1. 1 \in Int /\ n \in Int
      BY <2>1
    <3>2. QED BY <2>2, <3>1, SubSeqProperties
  <2>4. /\ SubSeq(q, 1, n) \in Seq(Nat \X Nat) /\ Len(SubSeq(q, 1, n)) = n
        /\ \A i \in 1 .. n : SubSeq(q, 1, n)[i] = s.edges[i]
    BY <2>1, <2>3
  <2>5. SubSeq(q, 1, n) = s.edges
    BY <1>2, <2>1, <2>4, SeqEqual
  <2>6. QED BY <2>5 DEF n, q
<1>4. facets = s.facets
  <2> DEFINE n == m.nb_of_static_facets
             q == m.facets
  <2>1. /\ n \in Nat /\ n = Len(s.facets) /\ q \in Seq(Seq(Nat))
        /\ \A i \in 1 .. n : q[i] = s.facets[i]
    BY <1>2 DEF Grown
  <2>2. \A i \in 1 .. n : q[i] \in Seq(Nat)
    <3>1. \A i \in 1 .. n : s.facets[i] \in Seq(Nat)
      BY <1>2, <2>1, ElementOfSeq
    <3>2. QED BY <2>1, <3>1
  <2> HIDE DEF n, q
  <2>3. /\ SubSeq(q, 1, n) \in Seq(Seq(Nat))
        /\ Len(SubSeq(q, 1, n)) = IF 1 <= n THEN n - 1 + 1 ELSE 0
        /\ \A i \in 1 .. n - 1 + 1 : SubSeq(q, 1, n)[i] = q[1 + i - 1]
    <3>1. 1 \in Int /\ n \in Int
      BY <2>1
    <3>2. QED BY <2>2, <3>1, SubSeqProperties
  <2>4. /\ SubSeq(q, 1, n) \in Seq(Seq(Nat)) /\ Len(SubSeq(q, 1, n)) = n
        /\ \A i \in 1 .. n : SubSeq(q, 1, n)[i] = s.facets[i]
    BY <2>1, <2>3
  <2>5. SubSeq(q, 1, n) = s.facets
    BY <1>2, <2>1, <2>4, SeqEqual
  <2>6. QED BY <2>5 DEF n, q
<1>5. reset_dynamic_data(m) = [m EXCEPT !.edges = edges, !.facets = facets,
                                        !.total_number_of_nodes = m.nb_of_static_nodes]
  BY DEF reset_dynamic_data
<1> HIDE DEF edges, facets
<1>6. QED BY <1>1, <1>2, <1>3, <1>4, <1>5 DEF Grown, Meshes

\* add_edge appends an edge and keeps the rest.
LEMMA AddEdgeGrows ==
  ASSUME NEW m \in Meshes, EdgesExist(m),
         NEW v \in 1 .. m.total_number_of_nodes, NEW w \in 1 .. m.total_number_of_nodes
  PROVE  LET r == add_edge(m, v, w)
         IN /\ Grown(m, r) /\ EdgesExist(r) /\ r.facets = m.facets
            /\ r.total_number_of_nodes = m.total_number_of_nodes
            /\ Len(r.edges) = Len(m.edges) + 1
            /\ r.edges[Len(m.edges) + 1][1] = v /\ r.edges[Len(m.edges) + 1][2] = w
<1> DEFINE new == <<v, w>>
           edges == Append(m.edges, new)
           r == [m EXCEPT !.edges = edges]
<1>1. /\ m.edges \in Seq(Nat \X Nat) /\ Len(m.edges) \in Nat /\ Len(m.facets) \in Nat
      /\ m.total_number_of_nodes \in Nat
  BY MeshParts
<1>2. new \in Nat \X Nat /\ new[1] = v /\ new[2] = w
  BY <1>1
<1> HIDE DEF new
<1>3. /\ edges \in Seq(Nat \X Nat) /\ Len(edges) = Len(m.edges) + 1
      /\ \A i \in 1 .. Len(m.edges) : edges[i] = m.edges[i]
      /\ edges[Len(m.edges) + 1] = new
  BY <1>1, <1>2, AppendProperties
<1> HIDE DEF edges
<1>4. /\ r \in Meshes /\ r.edges = edges /\ r.facets = m.facets
      /\ r.facets_per_edge = m.facets_per_edge
      /\ r.oriented_edges_per_facet = m.oriented_edges_per_facet
      /\ r.total_number_of_nodes = m.total_number_of_nodes
      /\ r.nb_of_static_nodes = m.nb_of_static_nodes
      /\ r.nb_of_static_edges = m.nb_of_static_edges
      /\ r.nb_of_static_facets = m.nb_of_static_facets
  BY <1>3 DEF Meshes
<1> HIDE DEF r
<1>5. Grown(m, r)
  BY <1>1, <1>3, <1>4 DEF Grown
<1>6. EdgesExist(r)
  <2> SUFFICES ASSUME NEW e \in 1 .. Len(m.edges) + 1
               PROVE  edges[e][1] \in 1 .. m.total_number_of_nodes
                      /\ edges[e][2] \in 1 .. m.total_number_of_nodes
    BY <1>3, <1>4 DEF EdgesExist
  <2>1. CASE e = Len(m.edges) + 1
    BY <1>2, <1>3, <2>1
  <2>2. CASE e # Len(m.edges) + 1
    <3>1. e \in 1 .. Len(m.edges)
      BY <1>1, <2>2
    <3>2. QED BY <1>3, <3>1 DEF EdgesExist
  <2>3. QED BY <2>1, <2>2
<1>7. add_edge(m, v, w) = r
  BY DEF add_edge, r, edges, new
<1>8. QED BY <1>2, <1>3, <1>4, <1>5, <1>6, <1>7

\* add_vertex appends a node and keeps the rest.
LEMMA AddVertexGrows ==
  ASSUME NEW m \in Meshes, EdgesExist(m)
  PROVE  LET r == add_vertex(m)
         IN /\ Grown(m, r) /\ EdgesExist(r) /\ r.facets = m.facets /\ r.edges = m.edges
            /\ r.total_number_of_nodes = m.total_number_of_nodes + 1
<1> DEFINE r == add_vertex(m)
<1>1. /\ Len(m.edges) \in Nat /\ Len(m.facets) \in Nat /\ m.total_number_of_nodes \in Nat
  BY MeshParts
<1>2. /\ r \in Meshes /\ r.edges = m.edges /\ r.facets = m.facets
      /\ r.facets_per_edge = m.facets_per_edge
      /\ r.oriented_edges_per_facet = m.oriented_edges_per_facet
      /\ r.total_number_of_nodes = m.total_number_of_nodes + 1
      /\ r.nb_of_static_nodes = m.nb_of_static_nodes
      /\ r.nb_of_static_edges = m.nb_of_static_edges
      /\ r.nb_of_static_facets = m.nb_of_static_facets
  <2>1. m.total_number_of_nodes + 1 \in Nat
    BY <1>1
  <2>2. r = [m EXCEPT !.total_number_of_nodes = m.total_number_of_nodes + 1]
    BY DEF add_vertex
  <2> HIDE DEF r
  <2>3. QED BY <2>1, <2>2 DEF Meshes
<1> HIDE DEF r
<1>3. Grown(m, r)
  BY <1>1, <1>2 DEF Grown
<1>4. EdgesExist(r)
  BY <1>1, <1>2 DEF EdgesExist
<1>5. QED BY <1>2, <1>3, <1>4 DEF r

-----------------------------------------------------------------------------
(* A facet from edges *)

\* The oriented edges of a set of edges.
Along(S) == [edge : S, reversed : BOOLEAN]

\* The ends of an oriented edge exist.
LEMMA EndsOfOriented ==
  ASSUME NEW m, EdgesExist(m), NEW o \in Along(1 .. Len(m.edges))
  PROVE  /\ first_vertex_of_oriented_edge(m, o) \in 1 .. m.total_number_of_nodes
         /\ second_vertex_of_oriented_edge(m, o) \in 1 .. m.total_number_of_nodes
<1>1. o.edge \in 1 .. Len(m.edges)
  BY DEF Along
<1>2. QED BY <1>1 DEF EdgesExist, first_vertex_of_oriented_edge,
                      second_vertex_of_oriented_edge

\* What create_facet_from_edges is made of.
IsNewNode(m, L, i) ==
  \A j \in 1 .. i - 1 : second_vertex_of_oriented_edge(m, L[j])
                         # second_vertex_of_oriented_edge(m, L[i])
NodesFound(m, L) ==
  [i \in 1 .. Len(L) |->
     IF IsNewNode(m, L, i) THEN second_vertex_of_oriented_edge(m, L[i]) ELSE 1]
NodesKept(m, L) == Cardinality({i \in 1 .. Len(L) : IsNewNode(m, L, i)})
NewFacet(m, L) == SubSeq(NodesFound(m, L), 1, NodesKept(m, L))

\* create_facet_from_edges appends one facet.
LEMMA CreateFacetIs ==
  ASSUME NEW m, NEW L
  PROVE  create_facet_from_edges(m, L) = [m EXCEPT !.facets = Append(@, NewFacet(m, L))]
BY DEF create_facet_from_edges, NewFacet, NodesFound, NodesKept, IsNewNode

\* It has no more nodes than edges.
LEMMA NodesKeptIs ==
  ASSUME NEW S, NEW L \in Seq(S), NEW m
  PROVE  NodesKept(m, L) \in 0 .. Len(L)
<1> DEFINE n == Len(L)
           T == {i \in 1 .. n : IsNewNode(m, L, i)}
<1>1. n \in Nat
  BY LenProperties
<1>2. IsFiniteSet(1 .. n) /\ Cardinality(1 .. n) = n
  <2>1. IsFiniteSet(1 .. n) /\ Cardinality(1 .. n) = IF 1 > n THEN 0 ELSE n - 1 + 1
    BY <1>1, FS_Interval
  <2>2. QED BY <1>1, <2>1
<1>3. IsFiniteSet(T) /\ Cardinality(T) <= n
  BY <1>2, FS_Subset
<1>4. Cardinality(T) \in Nat
  BY <1>3, FS_CardinalityType
<1>5. QED BY <1>1, <1>3, <1>4 DEF NodesKept

\* Its nodes exist.
LEMMA NewFacetIs ==
  ASSUME NEW m \in Meshes, EdgesExist(m), NEW L \in Seq(Along(1 .. Len(m.edges)))
  PROVE  /\ NewFacet(m, L) \in Seq(Nat)
         /\ Len(NewFacet(m, L)) = NodesKept(m, L)
         /\ \A i \in 1 .. NodesKept(m, L) :
              /\ NewFacet(m, L)[i] = NodesFound(m, L)[i]
              /\ NewFacet(m, L)[i] \in 1 .. m.total_number_of_nodes
<1> DEFINE n == Len(L)
           k == NodesKept(m, L)
           v == NodesFound(m, L)
           q == NewFacet(m, L)
<1>1. n \in Nat /\ k \in 0 .. n
  BY LenProperties, NodesKeptIs
<1>2. \A i \in 1 .. n : v[i] \in 1 .. m.total_number_of_nodes
  <2> SUFFICES ASSUME NEW i \in 1 .. n PROVE v[i] \in 1 .. m.total_number_of_nodes
    OBVIOUS
  <2>1. L[i] \in Along(1 .. Len(m.edges))
    BY ElementOfSeq
  <2>2. second_vertex_of_oriented_edge(m, L[i]) \in 1 .. m.total_number_of_nodes
    BY <2>1, EndsOfOriented
  <2>3. m.total_number_of_nodes \in Nat
    BY MeshParts
  <2>4. 1 \in 1 .. m.total_number_of_nodes
    BY <2>2, <2>3
  <2>5. v[i] = second_vertex_of_oriented_edge(m, L[i]) \/ v[i] = 1
    BY DEF NodesFound
  <2>6. QED BY <2>2, <2>4, <2>5
<1> HIDE DEF n, k, v
<1>3. /\ q \in Seq(Nat) /\ Len(q) = k /\ \A i \in 1 .. k : q[i] = v[i]
  <2>1. \A i \in 1 .. k : v[i] \in Nat
    BY <1>1, <1>2
  <2>2. /\ SubSeq(v, 1, k) \in Seq(Nat)
        /\ Len(SubSeq(v, 1, k)) = IF 1 <= k THEN k - 1 + 1 ELSE 0
        /\ \A i \in 1 .. k - 1 + 1 : SubSeq(v, 1, k)[i] = v[1 + i - 1]
    <3>1. 1 \in Int /\ k \in Int
      BY <1>1
    <3>2. QED BY <2>1, <3>1, SubSeqProperties
  <2>3. /\ SubSeq(v, 1, k) \in Seq(Nat) /\ Len(SubSeq(v, 1, k)) = k
        /\ \A i \in 1 .. k : SubSeq(v, 1, k)[i] = v[i]
    BY <1>1, <2>2
  <2>4. q = SubSeq(v, 1, k)
    BY DEF NewFacet, v, k
  <2>5. QED BY <2>3, <2>4
<1>4. \A i \in 1 .. k : q[i] \in 1 .. m.total_number_of_nodes
  BY <1>1, <1>2, <1>3
<1>5. QED BY <1>3, <1>4 DEF k, v

\* A mesh with a facet more has grown, and all its nodes exist.
LEMMA CreateFacetGrows ==
  ASSUME NEW m \in Meshes, EdgesExist(m), FacetsExistIn(m),
         NEW L \in Seq(Along(1 .. Len(m.edges)))
  PROVE  LET r == create_facet_from_edges(m, L)
         IN /\ Grown(m, r) /\ EdgesExist(r) /\ FacetsExistIn(r) /\ r.edges = m.edges
            /\ r.total_number_of_nodes = m.total_number_of_nodes
            /\ Len(r.facets) = Len(m.facets) + 1
            /\ r.facets[Len(m.facets) + 1] = NewFacet(m, L)
<1> DEFINE new == NewFacet(m, L)
           facets == Append(m.facets, new)
           r == [m EXCEPT !.facets = facets]
<1>1. /\ m.facets \in Seq(Seq(Nat)) /\ Len(m.edges) \in Nat /\ Len(m.facets) \in Nat
      /\ m.total_number_of_nodes \in Nat
  BY MeshParts
<1>2. /\ new \in Seq(Nat)
      /\ \A i \in 1 .. Len(new) : new[i] \in 1 .. m.total_number_of_nodes
  BY NewFacetIs
<1> HIDE DEF new
<1>3. /\ facets \in Seq(Seq(Nat)) /\ Len(facets) = Len(m.facets) + 1
      /\ \A i \in 1 .. Len(m.facets) : facets[i] = m.facets[i]
      /\ facets[Len(m.facets) + 1] = new
  BY <1>1, <1>2, AppendProperties
<1> HIDE DEF facets
<1>4. /\ r \in Meshes /\ r.facets = facets /\ r.edges = m.edges
      /\ r.facets_per_edge = m.facets_per_edge
      /\ r.oriented_edges_per_facet = m.oriented_edges_per_facet
      /\ r.total_number_of_nodes = m.total_number_of_nodes
      /\ r.nb_of_static_nodes = m.nb_of_static_nodes
      /\ r.nb_of_static_edges = m.nb_of_static_edges
      /\ r.nb_of_static_facets = m.nb_of_static_facets
  BY <1>3 DEF Meshes
<1>5. create_facet_from_edges(m, L) = r
  BY CreateFacetIs DEF facets, new
<1> HIDE DEF r
<1>6. Grown(m, r)
  BY <1>1, <1>3, <1>4 DEF Grown
<1>7. EdgesExist(r)
  BY <1>4 DEF EdgesExist
<1>8. FacetsExistIn(r)
  <2> SUFFICES ASSUME NEW f \in 1 .. Len(m.facets) + 1, NEW i \in 1 .. Len(facets[f])
               PROVE  facets[f][i] \in 1 .. m.total_number_of_nodes
    BY <1>3, <1>4 DEF FacetsExistIn
  <2>1. CASE f = Len(m.facets) + 1
    BY <1>2, <1>3, <2>1
  <2>2. CASE f # Len(m.facets) + 1
    <3>1. f \in 1 .. Len(m.facets)
      BY <1>1, <2>2
    <3>2. QED BY <1>3, <3>1 DEF FacetsExistIn
  <2>3. QED BY <2>1, <2>2
<1>9. QED BY <1>3, <1>4, <1>5, <1>6, <1>7, <1>8 DEF new

\* The nodes of a facet whose edges end at different nodes, as far as number k, and
\* then again at nodes met before.
LEMMA NewFacetNodes ==
  ASSUME NEW m \in Meshes, EdgesExist(m), NEW L \in Seq(Along(1 .. Len(m.edges))),
         NEW k \in 0 .. Len(L),
         \A i, j \in 1 .. k : i # j => second_vertex_of_oriented_edge(m, L[i])
                                       # second_vertex_of_oriented_edge(m, L[j]),
         \A i \in k + 1 .. Len(L) : \E j \in 1 .. k :
           second_vertex_of_oriented_edge(m, L[i]) = second_vertex_of_oriented_edge(m, L[j])
  PROVE  /\ Len(NewFacet(m, L)) = k
         /\ \A i \in 1 .. k :
              NewFacet(m, L)[i] = second_vertex_of_oriented_edge(m, L[i])
<1> DEFINE n == Len(L)
           T == {i \in 1 .. n : IsNewNode(m, L, i)}
<1>1. n \in Nat /\ k \in Nat
  BY LenProperties
<1>2. T = 1 .. k
  <2>1. ASSUME NEW i \in 1 .. k PROVE i \in T
    <3>1. i \in 1 .. n /\ \A j \in 1 .. i - 1 : j \in 1 .. k /\ j # i
      BY <1>1
    <3>2. IsNewNode(m, L, i)
      BY <3>1 DEF IsNewNode
    <3>3. QED BY <3>1, <3>2
  <2>2. ASSUME NEW i \in T, i \notin 1 .. k PROVE FALSE
    <3>1. i \in k + 1 .. n
      BY <1>1, <2>2
    <3>2. PICK j \in 1 .. k :
            second_vertex_of_oriented_edge(m, L[i]) = second_vertex_of_oriented_edge(m, L[j])
      BY <3>1
    <3>3. j \in 1 .. i - 1
      BY <1>1, <3>1
    <3>4. IsNewNode(m, L, i)
      OBVIOUS
    <3>5. QED BY <3>2, <3>3, <3>4 DEF IsNewNode
  <2> HIDE DEF T
  <2>3. QED BY <2>1, <2>2
<1>3. NodesKept(m, L) = k
  <2>1. Cardinality(1 .. k) = IF 1 > k THEN 0 ELSE k - 1 + 1
    BY <1>1, FS_Interval
  <2>2. NodesKept(m, L) = Cardinality(T)
    BY DEF NodesKept
  <2> HIDE DEF T
  <2>3. QED BY <1>1, <1>2, <2>1, <2>2
<1>4. \A i \in 1 .. k : NodesFound(m, L)[i] = second_vertex_of_oriented_edge(m, L[i])
  <2> SUFFICES ASSUME NEW i \in 1 .. k
               PROVE  NodesFound(m, L)[i] = second_vertex_of_oriented_edge(m, L[i])
    OBVIOUS
  <2>1. i \in 1 .. n /\ IsNewNode(m, L, i)
    BY <1>1, <1>2
  <2>2. QED BY <2>1 DEF NodesFound
<1>5. QED BY <1>3, <1>4, NewFacetIs

-----------------------------------------------------------------------------
(* Groups of edges and walks along them *)

Neighbours(m, edges, near) == {e \in edges : \E f \in near : Connected(m, e, f)}

\* The edges that some number of steps lead to.
IsWithin(f, n, net, edges, edge) ==
  f = [k \in 0 .. n |-> IF k = 0 THEN {edge} ELSE Neighbours(net, edges, f[k - 1])]

\* The recursive function of Component exists.
LEMMA StepsExist ==
  ASSUME NEW net, NEW edges, NEW edge, NEW n \in Nat
  PROVE  \E f : IsWithin(f, n, net, edges, edge)
<1> DEFINE T == {m \in 0 .. n : ~ \E f : IsWithin(f, m, net, edges, edge)}
<1>1. SUFFICES ASSUME T # {} PROVE FALSE
  OBVIOUS
<1>2. PICK m \in T : \A y \in T : m <= y
  <2>1. T \in SUBSET Nat
    OBVIOUS
  <2>2. QED BY <1>1, <2>1, LeastNat
<1>3. CASE m = 0
  <2> DEFINE f == [k \in 0 .. 0 |-> {edge}]
  <2>1. f = [k \in 0 .. 0 |-> IF k = 0 THEN {edge} ELSE Neighbours(net, edges, f[k - 1])]
    OBVIOUS
  <2> HIDE DEF f
  <2>2. IsWithin(f, 0, net, edges, edge)
    BY <2>1 DEF IsWithin
  <2>3. QED BY <1>3, <2>2
<1>4. CASE m # 0
  <2>1. m \in 1 .. n /\ m - 1 \in 0 .. n /\ ~(m <= m - 1)
    BY <1>4
  <2>2. m - 1 \notin T
    BY <1>2, <2>1
  <2>3. PICK g : IsWithin(g, m - 1, net, edges, edge)
    BY <2>1, <2>2
  <2> DEFINE last == Neighbours(net, edges, g[m - 1])
             f == [k \in 0 .. m |-> IF k = m THEN last ELSE g[k]]
             h == [k \in 0 .. m |-> IF k = 0 THEN {edge}
                                    ELSE Neighbours(net, edges, f[k - 1])]
  <2>4. ASSUME NEW k \in 0 .. m PROVE f[k] = h[k]
    <3>1. CASE k = m
      <4>1. f[m] = last /\ f[m - 1] = g[m - 1]
        BY <2>1
      <4>2. h[m] = Neighbours(net, edges, f[m - 1])
        BY <2>1
      <4> HIDE DEF f, h
      <4>3. QED BY <3>1, <4>1, <4>2
    <3>2. CASE k # m
      <4>1. k \in 0 .. m - 1 /\ f[k] = g[k]
        BY <2>1, <3>2
      <4>2. g[k] = IF k = 0 THEN {edge} ELSE Neighbours(net, edges, g[k - 1])
        BY <2>3, <4>1 DEF IsWithin
      <4>3. k # 0 => f[k - 1] = g[k - 1]
        BY <2>1, <3>2
      <4>4. h[k] = IF k = 0 THEN {edge} ELSE Neighbours(net, edges, f[k - 1])
        OBVIOUS
      <4> HIDE DEF f, h, last
      <4>5. QED BY <4>1, <4>2, <4>3, <4>4
    <3>3. QED BY <3>1, <3>2
  <2>5. f = h
    <3>1. f = [k \in 0 .. m |-> f[k]] /\ h = [k \in 0 .. m |-> h[k]]
      OBVIOUS
    <3> HIDE DEF f, h
    <3>2. QED BY <2>4, <3>1
  <2> HIDE DEF f
  <2>6. IsWithin(f, m, net, edges, edge)
    BY <2>5 DEF IsWithin
  <2>7. QED BY <2>6
<1>5. QED BY <1>3, <1>4

\* A component is made of the edges it is searched in.
LEMMA ComponentIs ==
  ASSUME NEW m, NEW edges, IsFiniteSet(edges), NEW edge \in edges
  PROVE  Component(m, edges, edge) \subseteq edges
<1> DEFINE n == Cardinality(edges)
           a == CHOOSE f : IsWithin(f, n, m, edges, edge)
<1>1. n \in Nat
  BY FS_CardinalityType
<1>2. IsWithin(a, n, m, edges, edge)
  <2>1. \E f : IsWithin(f, n, m, edges, edge)
    BY <1>1, StepsExist
  <2>2. QED BY <2>1, Zenon
<1>3. Component(m, edges, edge) = a[n]
  BY DEF Component, IsWithin, Neighbours
<1> HIDE DEF n, a
<1>4. a[n] = IF n = 0 THEN {edge} ELSE Neighbours(m, edges, a[n - 1])
  <2>1. \A k \in 0 .. n : a[k] = IF k = 0 THEN {edge} ELSE Neighbours(m, edges, a[k - 1])
    BY <1>2 DEF IsWithin
  <2>2. QED BY <1>1, <2>1
<1>5. a[n] \subseteq edges
  BY <1>4 DEF Neighbours
<1>6. QED BY <1>3, <1>5

\* A walk that is turned around is along the same edges.
LEMMA FlipIs ==
  ASSUME NEW S, NEW L \in Seq(Along(S))
  PROVE  flip(L) \in Seq(Along(S))
<1> DEFINE n == Len(L)
           p(i) == Reverse(L)[i]
           q(i) == OrientedEdge(p(i).edge, ~p(i).reversed)
<1>1. n \in Nat
  BY LenProperties
<1>2. ASSUME NEW i \in 1 .. n PROVE q(i) \in Along(S)
  <2>1. p(i) = L[n - i + 1]
    BY DEF Reverse
  <2>2. n - i + 1 \in 1 .. n
    BY <1>1
  <2>3. p(i) \in Along(S)
    BY <2>1, <2>2, ElementOfSeq
  <2> DEFINE o == p(i)
  <2>4. o \in Along(S)
    BY <2>3
  <2> HIDE DEF p, o
  <2>5. o.edge \in S
    BY <2>4 DEF Along
  <2>6. OrientedEdge(o.edge, ~o.reversed) \in Along(S)
    BY <2>5, Zenon DEF OrientedEdge, Along
  <2>7. QED BY <2>6 DEF o
<1>3. flip(L) = [i \in 1 .. n |-> q(i)]
  BY DEF flip
<1> HIDE DEF n, q
<1>4. QED BY <1>1, <1>2, <1>3, IsASeq

\* A walk along some edges is one along more edges.
LEMMA AlongMore ==
  ASSUME NEW S, NEW T, S \subseteq T, NEW L \in Seq(Along(S))
  PROVE  L \in Seq(Along(T))
<1>1. Len(L) \in Nat /\ L = [i \in 1 .. Len(L) |-> L[i]]
  BY LenProperties
<1>2. ASSUME NEW i \in 1 .. Len(L) PROVE L[i] \in Along(T)
  <2>1. L[i] \in Along(S)
    BY ElementOfSeq
  <2>2. QED BY <2>1 DEF Along
<1>3. [i \in 1 .. Len(L) |-> L[i]] \in Seq(Along(T))
  BY <1>1, <1>2, IsASeq
<1>4. QED BY <1>1, <1>3

\* No two edges have the same ends, and none has both ends in one node.
Apart(m, E) ==
  /\ \A e \in E : m.edges[e][1] # m.edges[e][2]
  /\ \A e, d \in E : e # d => Ends(m, e) # Ends(m, d)

\* The place behind a place on a round.
LEMMA NextPlace ==
  ASSUME NEW n \in Nat \ {0}, NEW i \in 1 .. n
  PROVE  (i % n) + 1 = IF i = n THEN 1 ELSE i + 1
<1>1. CASE i < n
  <2>1. i % n = i
    BY <1>1, SMTT(30)
  <2>2. QED BY <1>1, <2>1
<1>2. CASE i = n
  <2>1. n % n = 0
    BY SMTT(30)
  <2>2. QED BY <1>2, <2>1
<1>3. QED BY <1>1, <1>2

\* The directed sides between the nodes of a facet.
SidesOfNodes(v) == {<<v[i], v[(i % Len(v)) + 1]>> : i \in 1 .. Len(v)}

\* A facet made of edges that lead to each other and end at different nodes has the
\* directions of the edges as its sides.
LEMMA SidesAreDirs ==
  ASSUME NEW m \in Meshes, EdgesExist(m), NEW M \in Seq(Along(1 .. Len(m.edges))),
         NEW n \in 1 .. Len(M),
         \A i, j \in 1 .. n : i # j => second_vertex_of_oriented_edge(m, M[i])
                                       # second_vertex_of_oriented_edge(m, M[j]),
         \A i \in n + 1 .. Len(M) : \E j \in 1 .. n :
           second_vertex_of_oriented_edge(m, M[i]) = second_vertex_of_oriented_edge(m, M[j]),
         \A i \in 1 .. n : second_vertex_of_oriented_edge(m, M[i])
                     = first_vertex_of_oriented_edge(m, M[IF i = n THEN 1 ELSE i + 1])
  PROVE  SidesOfNodes(NewFacet(m, M))
           = {<<first_vertex_of_oriented_edge(m, M[i]),
                second_vertex_of_oriented_edge(m, M[i])>> : i \in 1 .. n}
<1> DEFINE v == NewFacet(m, M)
           a(i) == first_vertex_of_oriented_edge(m, M[i])
           b(i) == second_vertex_of_oriented_edge(m, M[i])
           next(i) == IF i = n THEN 1 ELSE i + 1
<1>1. Len(M) \in Nat
  BY LenProperties
<1>2. n \in Nat \ {0} /\ n \in 0 .. Len(M)
  BY <1>1
<1>3. Len(v) = n /\ \A i \in 1 .. n : v[i] = b(i)
  BY <1>2, NewFacetNodes
<1>4. \A i \in 1 .. n : (i % n) + 1 = next(i) /\ next(i) \in 1 .. n /\ b(i) = a(next(i))
  <2> SUFFICES ASSUME NEW i \in 1 .. n
               PROVE  (i % n) + 1 = next(i) /\ next(i) \in 1 .. n /\ b(i) = a(next(i))
    OBVIOUS
  <2>1. (i % n) + 1 = next(i)
    BY <1>2, NextPlace
  <2>2. next(i) \in 1 .. n
    BY <1>2
  <2>3. b(i) = a(next(i))
    OBVIOUS
  <2>4. QED BY <2>1, <2>2, <2>3
<1>5. \A i \in 1 .. n : \E j \in 1 .. n : next(j) = i
  <2> SUFFICES ASSUME NEW i \in 1 .. n PROVE \E j \in 1 .. n : next(j) = i
    OBVIOUS
  <2>1. CASE i = 1
    <3>1. n \in 1 .. n /\ next(n) = i
      BY <1>2, <2>1
    <3>2. QED BY <3>1
  <2>2. CASE i # 1
    <3>1. i - 1 \in 1 .. n /\ next(i - 1) = i
      BY <1>2, <2>2
    <3>2. QED BY <3>1
  <2>3. QED BY <2>1, <2>2
<1> HIDE DEF v, a, b, next
<1>6. \A i \in 1 .. n : <<v[i], v[(i % Len(v)) + 1]>> = <<a(next(i)), b(next(i))>>
  BY <1>3, <1>4
<1>7. SidesOfNodes(v) = {<<a(i), b(i)>> : i \in 1 .. n}
  <2>1. ASSUME NEW d \in SidesOfNodes(v) PROVE d \in {<<a(i), b(i)>> : i \in 1 .. n}
    <3>1. PICK i \in 1 .. n : d = <<v[i], v[(i % Len(v)) + 1]>>
      BY <1>3, <2>1 DEF SidesOfNodes
    <3>2. d = <<a(next(i)), b(next(i))>> /\ next(i) \in 1 .. n
      BY <1>4, <1>6, <3>1
    <3>3. QED BY <3>2
  <2>2. ASSUME NEW i \in 1 .. n PROVE <<a(i), b(i)>> \in SidesOfNodes(v)
    <3>1. PICK j \in 1 .. n : next(j) = i
      BY <1>5
    <3>2. <<a(i), b(i)>> = <<v[j], v[(j % Len(v)) + 1]>>
      BY <1>6, <3>1
    <3>3. QED BY <1>3, <3>2 DEF SidesOfNodes
  <2>3. QED BY <2>1, <2>2
<1>8. QED BY <1>7 DEF v, a, b

\* A set of two elements.
LEMMA TwoElements ==
  ASSUME NEW S, IsFiniteSet(S), Cardinality(S) = 2
  PROVE  \E a, b : a # b /\ S = {a, b}
<1>1. S # {}
  BY FS_EmptySet
<1>2. PICK a : a \in S
  BY <1>1
<1>3. IsFiniteSet(S \ {a}) /\ Cardinality(S \ {a}) = 1
  BY <1>2, FS_RemoveElement
<1>4. PICK b : S \ {a} = {b}
  BY <1>3, FS_Singleton
<1>5. a # b /\ S = {a, b}
  BY <1>2, <1>4
<1>6. QED BY <1>5

\* At each end of an edge of a loop is one other edge.
LEMMA TwoAtNode ==
  ASSUME NEW m, NEW C, IsFiniteSet(C), IsLoop(m, C), NEW e \in C, NEW n \in Ends(m, e)
  PROVE  /\ \E d \in C : d # e /\ n \in Ends(m, d)
         /\ \A x, y, w \in C : n \in Ends(m, x) /\ n \in Ends(m, y) /\ n \in Ends(m, w)
                                 => x = y \/ y = w \/ x = w
<1> DEFINE S == {f \in C : n \in Ends(m, f)}
<1>1. Cardinality(S) = 2
  BY DEF IsLoop
<1>2. IsFiniteSet(S)
  BY FS_Subset
<1>3. e \in S /\ S \subseteq C /\ \A f \in C : f \in S <=> n \in Ends(m, f)
  OBVIOUS
<1> HIDE DEF S
<1>4. PICK a, b : a # b /\ S = {a, b}
  BY <1>1, <1>2, TwoElements
<1>5. QED BY <1>3, <1>4

\* The ends of an oriented edge are those of the edge.
LEMMA OrientedEnds ==
  ASSUME NEW m, NEW C, NEW o \in Along(C)
  PROVE  /\ o.edge \in C
         /\ Ends(m, o.edge) = {first_vertex_of_oriented_edge(m, o),
                               second_vertex_of_oriented_edge(m, o)}
BY DEF Along, Ends, first_vertex_of_oriented_edge, second_vertex_of_oriented_edge

\* A walk along different edges, each of which starts where the last one ends.
Walk(m, C, p) ==
  /\ p \in Seq(Along(C)) /\ Len(p) >= 1
  /\ \A i \in 1 .. Len(p) - 1 : second_vertex_of_oriented_edge(m, p[i])
                                  = first_vertex_of_oriented_edge(m, p[i + 1])
  /\ \A i, j \in 1 .. Len(p) : i # j => p[i].edge # p[j].edge

\* The walk is back at its start.
Returns(m, p) == second_vertex_of_oriented_edge(m, p[Len(p)]) = first_vertex_of_oriented_edge(m, p[1])

\* A loop no two edges of which have the same ends.
Ring(m, C) == IsFiniteSet(C) /\ IsLoop(m, C) /\ Apart(m, C)

\* What a walk is made of.
LEMMA WalkParts ==
  ASSUME NEW m, NEW C, Apart(m, C), NEW p, Walk(m, C, p), NEW i \in 1 .. Len(p)
  PROVE  /\ Len(p) \in Nat /\ p[i] \in Along(C) /\ p[i].edge \in C
         /\ first_vertex_of_oriented_edge(m, p[i]) \in Ends(m, p[i].edge)
         /\ second_vertex_of_oriented_edge(m, p[i]) \in Ends(m, p[i].edge)
         /\ first_vertex_of_oriented_edge(m, p[i]) # second_vertex_of_oriented_edge(m, p[i])
<1>1. p \in Seq(Along(C))
  BY DEF Walk
<1>2. Len(p) \in Nat /\ p[i] \in Along(C)
  BY <1>1, LenProperties, ElementOfSeq
<1> DEFINE o == p[i]
<1>3. o \in Along(C)
  BY <1>2
<1> HIDE DEF o
<1>4. /\ o.edge \in C
      /\ Ends(m, o.edge) = {first_vertex_of_oriented_edge(m, o),
                            second_vertex_of_oriented_edge(m, o)}
  BY <1>3, OrientedEnds
<1>5. m.edges[o.edge][1] # m.edges[o.edge][2]
  BY <1>4 DEF Apart
<1>6. first_vertex_of_oriented_edge(m, o) # second_vertex_of_oriented_edge(m, o)
  BY <1>3, <1>5 DEF first_vertex_of_oriented_edge, second_vertex_of_oriented_edge, Along
<1>7. QED BY <1>2, <1>4, <1>6 DEF o

\* In a loop, a walk is at a node once, but for its first node, where it may return.
LEMMA WalkNodes ==
  ASSUME NEW m, NEW C, Ring(m, C), NEW p, Walk(m, C, p)
  PROVE  /\ \A i, j \in 1 .. Len(p) :
              i # j => second_vertex_of_oriented_edge(m, p[i]) # second_vertex_of_oriented_edge(m, p[j])
         /\ \A i \in 1 .. Len(p) - 1 :
              second_vertex_of_oriented_edge(m, p[i]) # first_vertex_of_oriented_edge(m, p[1])
<1> DEFINE a(i) == first_vertex_of_oriented_edge(m, p[i])
           b(i) == second_vertex_of_oriented_edge(m, p[i])
<1>1. Apart(m, C) /\ IsFiniteSet(C) /\ IsLoop(m, C)
  BY DEF Ring
<1>2. Len(p) \in Nat /\ Len(p) >= 1 /\ 1 \in 1 .. Len(p)
  BY LenProperties DEF Walk
<1>3. \A i \in 1 .. Len(p) :
        /\ p[i].edge \in C /\ a(i) \in Ends(m, p[i].edge) /\ b(i) \in Ends(m, p[i].edge)
        /\ a(i) # b(i)
  BY <1>1, WalkParts
<1>4. /\ \A i \in 1 .. Len(p) - 1 : b(i) = a(i + 1)
      /\ \A i, j \in 1 .. Len(p) : i # j => p[i].edge # p[j].edge
  BY DEF Walk
<1>5. ASSUME NEW n, NEW i \in 1 .. Len(p), NEW j \in 1 .. Len(p), NEW k \in 1 .. Len(p),
             i # j, j # k, i # k,
             n \in Ends(m, p[i].edge), n \in Ends(m, p[j].edge), n \in Ends(m, p[k].edge)
      PROVE  FALSE
  <2>1. /\ p[i].edge \in C /\ p[j].edge \in C /\ p[k].edge \in C
        /\ p[i].edge # p[j].edge /\ p[j].edge # p[k].edge /\ p[i].edge # p[k].edge
    BY <1>3, <1>4, <1>5
  <2>2. QED BY <1>1, <1>5, <2>1, TwoAtNode
<1> HIDE DEF a, b
<1>6. ASSUME NEW i \in 1 .. Len(p), NEW j \in 1 .. Len(p), i < j PROVE b(i) # b(j)
  <2>1. i \in 1 .. Len(p) - 1 /\ i + 1 \in 1 .. Len(p) /\ i # i + 1 /\ i # j
    BY <1>2, <1>6
  <2>2. SUFFICES ASSUME b(i) = b(j) PROVE FALSE
    OBVIOUS
  <2>3. b(i) = a(i + 1)
    BY <1>4, <2>1
  <2>4. /\ b(i) \in Ends(m, p[i].edge) /\ b(i) \in Ends(m, p[j].edge)
        /\ b(i) \in Ends(m, p[i + 1].edge)
    BY <1>3, <2>1, <2>2, <2>3
  <2>5. CASE j = i + 1
    BY <1>3, <2>2, <2>3, <2>5
  <2>6. CASE j # i + 1
    BY <1>5, <2>1, <2>4, <2>6
  <2>7. QED BY <2>5, <2>6
<1>7. ASSUME NEW i \in 1 .. Len(p) - 1 PROVE b(i) # a(1)
  <2>1. i \in 1 .. Len(p) /\ i + 1 \in 1 .. Len(p) /\ i # i + 1 /\ i + 1 # 1
    BY <1>2
  <2>2. SUFFICES ASSUME b(i) = a(1) PROVE FALSE
    OBVIOUS
  <2>3. b(i) = a(i + 1)
    BY <1>4
  <2>4. /\ b(i) \in Ends(m, p[i].edge) /\ b(i) \in Ends(m, p[1].edge)
        /\ b(i) \in Ends(m, p[i + 1].edge)
    BY <1>2, <1>3, <2>1, <2>2, <2>3
  <2>5. CASE i = 1
    BY <1>3, <2>1, <2>2, <2>5
  <2>6. CASE i # 1
    BY <1>2, <1>5, <2>1, <2>4, <2>6
  <2>7. QED BY <2>5, <2>6
<1>8. \A i, j \in 1 .. Len(p) : i # j => b(i) # b(j)
  <2>1. \A i, j \in 1 .. Len(p) : i # j => i < j \/ j < i
    BY <1>2
  <2>2. QED BY <1>6, <2>1
<1>9. QED BY <1>7, <1>8 DEF a, b

\* A walk in a loop has a next edge.
LEMMA HasNextEdge ==
  ASSUME NEW m, NEW C, Ring(m, C), NEW o \in Along(C)
  PROVE  ~HasNoNextEdge(m, C, o)
<1>1. Apart(m, C) /\ IsFiniteSet(C) /\ IsLoop(m, C)
  BY DEF Ring
<1> DEFINE n == second_vertex_of_oriented_edge(m, o)
<1>2. o.edge \in C /\ n \in Ends(m, o.edge)
  BY OrientedEnds
<1>3. \E d \in C : d # o.edge /\ n \in Ends(m, d)
  BY <1>1, <1>2, TwoAtNode
<1>4. ConnectedToEnd(m, C, o) # {}
  BY <1>3 DEF ConnectedToEnd
<1>5. \A e \in ConnectedToEnd(m, C, o) : Ends(m, e) # Ends(m, o.edge)
  BY <1>1, <1>2 DEF ConnectedToEnd, Apart
<1>6. QED BY <1>4, <1>5 DEF HasNoNextEdge

\* The next edge is one the walk has been along only if it is the first one, to which the
\* walk then returns.
LEMMA NextEdgeIs ==
  ASSUME NEW m, NEW C, Ring(m, C), NEW p, Walk(m, C, p),
         NEW d \in ConnectedToEnd(m, C, p[Len(p)]), NEW j \in 1 .. Len(p), d = p[j].edge
  PROVE  j = 1 /\ Len(p) > 1 /\ Returns(m, p)
<1> DEFINE n == Len(p)
           a(i) == first_vertex_of_oriented_edge(m, p[i])
           b(i) == second_vertex_of_oriented_edge(m, p[i])
<1>1. Apart(m, C) /\ n \in Nat /\ n >= 1 /\ p \in Seq(Along(C))
  BY LenProperties DEF Walk, Ring
<1>2. d # p[n].edge /\ b(n) \in Ends(m, d)
  BY DEF ConnectedToEnd
<1>3. Ends(m, d) = {a(j), b(j)}
  <2>1. p[j] \in Along(C)
    BY <1>1, WalkParts
  <2>2. QED BY <2>1, OrientedEnds
<1>4. \A i \in 1 .. n - 1 : b(i) = a(i + 1)
  BY DEF Walk
<1>5. /\ \A i, k \in 1 .. n : i # k => b(i) # b(k)
      /\ \A i \in 1 .. n - 1 : b(i) # a(1)
  BY WalkNodes
<1>6. Returns(m, p) <=> b(n) = a(1)
  BY DEF Returns
<1>7. n \in 1 .. n /\ j # n
  BY <1>1, <1>2
<1> HIDE DEF a, b, n
<1>8. b(n) # b(j)
  BY <1>5, <1>7 DEF n
<1>9. b(n) = a(j)
  BY <1>2, <1>3, <1>8
<1>10. j = 1
  <2>1. SUFFICES ASSUME j # 1 PROVE FALSE
    OBVIOUS
  <2>2. j - 1 \in 1 .. n - 1 /\ j - 1 \in 1 .. n /\ j - 1 # n /\ (j - 1) + 1 = j
    BY <1>1, <1>7, <2>1 DEF n
  <2>3. b(j - 1) = a(j)
    BY <1>4, <2>2
  <2>4. QED BY <1>5, <1>7, <1>9, <2>2, <2>3
<1>11. n > 1
  BY <1>1, <1>7, <1>10
<1>12. Returns(m, p)
  BY <1>6, <1>9, <1>10
<1>13. QED BY <1>10, <1>11, <1>12 DEF n

\* A walk with as many edges as the loop has been along all of them.
LEMMA AllWalked ==
  ASSUME NEW m, NEW C, IsFiniteSet(C), Apart(m, C), NEW p, Walk(m, C, p), Len(p) = Cardinality(C),
         NEW d \in C
  PROVE  \E j \in 1 .. Len(p) : d = p[j].edge
<1> DEFINE n == Len(p)
           f == [i \in 1 .. n |-> p[i].edge]
<1>1. n \in Nat
  BY LenProperties DEF Walk
<1>2. \A i \in 1 .. n : p[i].edge \in C
  BY WalkParts
<1>3. \A i, j \in 1 .. n : i # j => p[i].edge # p[j].edge
  BY DEF Walk
<1>4. f \in [1 .. n -> C] /\ \A i \in 1 .. n : f[i] = p[i].edge
  BY <1>2
<1> HIDE DEF n, f
<1>5. f \in Injection(1 .. n, C)
  BY <1>3, <1>4 DEF Injection, IsInjective
<1>6. IsFiniteSet(1 .. n) /\ Cardinality(1 .. n) = n
  <2>1. 1 \in Int /\ n \in Int /\ (IF 1 > n THEN 0 ELSE n - 1 + 1) = n
    BY <1>1
  <2>2. QED BY <2>1, FS_Interval
<1>7. f \in Surjection(1 .. n, C)
  BY <1>5, <1>6, FS_Injection DEF n
<1>8. \E j \in 1 .. n : f[j] = d
  BY <1>7 DEF Surjection
<1>9. QED BY <1>4, <1>8 DEF n

\* All parts of some edges are connected with each other.
Joined(m, C) ==
  \A V \in SUBSET C :
    V # {} /\ (\A e \in C : (\E f \in V : Connected(m, e, f)) => e \in V) => V = C

\* An edge is in its component, all parts of which are connected.
LEMMA ComponentIsJoined ==
  ASSUME NEW m, NEW edges, IsFiniteSet(edges), NEW edge \in edges
  PROVE  edge \in Component(m, edges, edge) /\ Joined(m, Component(m, edges, edge))
<1> DEFINE n == Cardinality(edges)
           a == CHOOSE f : IsWithin(f, n, m, edges, edge)
           C == Component(m, edges, edge)
<1>1. n \in Nat
  BY FS_CardinalityType
<1>2. IsWithin(a, n, m, edges, edge)
  <2>1. \E f : IsWithin(f, n, m, edges, edge)
    BY <1>1, StepsExist
  <2>2. QED BY <2>1, Zenon
<1>3. C = a[n]
  BY DEF Component, IsWithin, Neighbours
<1> HIDE DEF n, a, C
<1>4. \A k \in 0 .. n : a[k] = IF k = 0 THEN {edge} ELSE Neighbours(m, edges, a[k - 1])
  BY <1>2 DEF IsWithin
<1>5. a[0] = {edge} /\ \A k \in 1 .. n : a[k] = Neighbours(m, edges, a[k - 1])
  <2>1. 0 \in 0 .. n /\ \A k \in 1 .. n : k \in 0 .. n /\ k # 0
    BY <1>1
  <2>2. QED BY <1>4, <2>1
<1>6. \A k \in 0 .. n : a[k] \subseteq edges
  <2> SUFFICES ASSUME NEW k \in 0 .. n PROVE a[k] \subseteq edges
    OBVIOUS
  <2>1. a[k] = {edge} \/ a[k] = Neighbours(m, edges, a[k - 1])
    BY <1>4
  <2>2. QED BY <2>1 DEF Neighbours
<1>7. \A k \in 1 .. n : a[k - 1] \subseteq a[k]
  <2> SUFFICES ASSUME NEW k \in 1 .. n, NEW e \in a[k - 1] PROVE e \in a[k]
    OBVIOUS
  <2>1. k - 1 \in 0 .. n
    BY <1>1
  <2>2. e \in edges /\ Connected(m, e, e)
    BY <1>6, <2>1 DEF Connected, Ends
  <2>3. QED BY <1>5, <2>2 DEF Neighbours
<1>8. \A k \in 0 .. n : a[k] \subseteq C
  <2> DEFINE T == {j \in 0 .. n : ~(a[n - j] \subseteq C)}
  <2>1. SUFFICES ASSUME T # {} PROVE FALSE
    <3>1. \A k \in 0 .. n : n - k \in 0 .. n /\ n - (n - k) = k
      BY <1>1
    <3>2. QED BY <3>1
  <2>2. PICK j \in T : \A y \in T : j <= y
    <3>1. T \in SUBSET Nat
      OBVIOUS
    <3>2. QED BY <2>1, <3>1, LeastNat
  <2>3. j # 0
    BY <1>1, <1>3, <2>2
  <2>4. j \in 1 .. n /\ j - 1 \in 0 .. n /\ ~(j <= j - 1)
    BY <1>1, <2>3
  <2>5. a[n - (j - 1)] \subseteq C
    <3>1. j - 1 \notin T
      BY <2>2, <2>4
    <3>2. QED BY <2>4, <3>1
  <2>6. n - (j - 1) \in 1 .. n /\ (n - (j - 1)) - 1 = n - j
    BY <1>1, <2>4
  <2>7. a[n - j] \subseteq a[n - (j - 1)]
    BY <1>7, <2>6
  <2>8. QED BY <2>2, <2>5, <2>7
<1>9. edge \in C
  BY <1>1, <1>5, <1>8
<1>10. ASSUME NEW V \in SUBSET C, V # {},
              \A e \in C : (\E f \in V : Connected(m, e, f)) => e \in V
       PROVE  V = C
  <2>1. edge \in V
    <3> DEFINE T == {k \in 0 .. n : a[k] \cap V # {}}
    <3>1. T \in SUBSET Nat /\ n \in T
      BY <1>1, <1>3, <1>10
    <3>2. PICK k \in T : \A y \in T : k <= y
      BY <3>1, LeastNat
    <3>3. SUFFICES ASSUME k # 0 PROVE FALSE
      BY <1>5, <3>2
    <3>4. k \in 1 .. n /\ k - 1 \in 0 .. n /\ ~(k <= k - 1)
      BY <1>1, <3>3
    <3>5. PICK e \in V : e \in Neighbours(m, edges, a[k - 1])
      BY <1>5, <3>2, <3>4
    <3>6. PICK f \in a[k - 1] : Connected(m, e, f)
      BY <3>5 DEF Neighbours
    <3>7. f \in V
      <4>1. f \in C
        BY <1>8, <3>4
      <4>2. Connected(m, f, e)
        BY <3>6 DEF Connected
      <4>3. QED BY <1>10, <4>1, <4>2
    <3>8. k - 1 \in T
      BY <3>4, <3>7
    <3>9. QED BY <3>2, <3>4, <3>8
  <2>2. \A k \in 0 .. n : a[k] \subseteq V
    <3> DEFINE T == {k \in 0 .. n : ~(a[k] \subseteq V)}
    <3>1. SUFFICES ASSUME T # {} PROVE FALSE
      OBVIOUS
    <3>2. PICK k \in T : \A y \in T : k <= y
      <4>1. T \in SUBSET Nat
        OBVIOUS
      <4>2. QED BY <3>1, <4>1, LeastNat
    <3>3. k # 0
      BY <1>5, <2>1, <3>2
    <3>4. k \in 1 .. n /\ k - 1 \in 0 .. n /\ ~(k <= k - 1)
      BY <1>1, <3>3
    <3>5. a[k - 1] \subseteq V
      <4>1. k - 1 \notin T
        BY <3>2, <3>4
      <4>2. QED BY <3>4, <4>1
    <3>6. \A e \in a[k] : e \in C /\ \E f \in V : Connected(m, e, f)
      <4>1. \A e \in a[k] : \E f \in a[k - 1] : Connected(m, e, f)
        BY <1>5, <3>4 DEF Neighbours
      <4>2. a[k] \subseteq C
        BY <1>8, <3>4
      <4>3. QED BY <3>5, <4>1, <4>2
    <3>7. QED BY <1>10, <3>2, <3>6
  <2>3. n \in 0 .. n
    BY <1>1
  <2>4. QED BY <1>3, <1>10, <2>2, <2>3
<1>11. Joined(m, C)
  BY <1>10 DEF Joined
<1>12. QED BY <1>9, <1>11 DEF C

\* A walk that returns to its start and has been along all edges of a loop.
Tour(m, C, p) == Walk(m, C, p) /\ Returns(m, p) /\ EdgesOf(p) = C

\* The edges a walk has been along.
LEMMA EdgesOfWalk ==
  ASSUME NEW S, NEW p \in Seq(S)
  PROVE  EdgesOf(p) = {p[i].edge : i \in 1 .. Len(p)}
<1>1. DOMAIN p = 1 .. Len(p)
  BY LenProperties
<1>2. ToSet(p) = {p[i] : i \in 1 .. Len(p)}
  BY <1>1 DEF ToSet
<1>3. QED BY <1>2 DEF EdgesOf

\* A walk that returns has been along the whole loop, when it is connected.
LEMMA TourIs ==
  ASSUME NEW m, NEW C, Ring(m, C), Joined(m, C), NEW p, Walk(m, C, p), Returns(m, p), Len(p) > 1
  PROVE  Tour(m, C, p)
<1> DEFINE n == Len(p)
           a(i) == first_vertex_of_oriented_edge(m, p[i])
           b(i) == second_vertex_of_oriented_edge(m, p[i])
           V == {p[i].edge : i \in 1 .. n}
           next(i) == IF i = n THEN 1 ELSE i + 1
           prev(i) == IF i = 1 THEN n ELSE i - 1
<1>1. Apart(m, C) /\ IsFiniteSet(C) /\ IsLoop(m, C) /\ n \in Nat /\ n > 1 /\ p \in Seq(Along(C))
  BY LenProperties DEF Walk, Ring
<1>2. ASSUME NEW i \in 1 .. n PROVE p[i].edge \in C /\ Ends(m, p[i].edge) = {a(i), b(i)}
  <2>1. p[i] \in Along(C)
    BY <1>1, WalkParts
  <2>2. QED BY <2>1, OrientedEnds
<1>3. /\ \A i \in 1 .. n - 1 : b(i) = a(i + 1)
      /\ \A i, k \in 1 .. n : i # k => p[i].edge # p[k].edge
  BY DEF Walk
<1>4. b(n) = a(1)
  BY DEF Returns
<1> HIDE DEF n, a, b
<1>5. ASSUME NEW i \in 1 .. n
      PROVE  /\ next(i) \in 1 .. n /\ next(i) # i /\ b(i) = a(next(i))
             /\ prev(i) \in 1 .. n /\ prev(i) # i /\ b(prev(i)) = a(i)
  <2>1. next(i) \in 1 .. n /\ next(i) # i /\ prev(i) \in 1 .. n /\ prev(i) # i
    BY <1>1
  <2>2. b(i) = a(next(i))
    BY <1>1, <1>3, <1>4
  <2>3. CASE i = 1
    BY <1>4, <2>1, <2>2, <2>3
  <2>4. CASE i # 1
    <3>1. i - 1 \in 1 .. n - 1 /\ (i - 1) + 1 = i
      BY <1>1, <2>4
    <3>2. b(i - 1) = a(i)
      BY <1>3, <3>1
    <3>3. QED BY <2>1, <2>2, <2>4, <3>2
  <2>5. QED BY <2>3, <2>4
<1> HIDE DEF next, prev
<1>6. ASSUME NEW e \in C, NEW i \in 1 .. n, NEW k \in 1 .. n, i # k, NEW x,
             x \in Ends(m, e), x \in Ends(m, p[i].edge), x \in Ends(m, p[k].edge)
      PROVE  e \in V
  <2>1. p[i].edge \in C /\ p[k].edge \in C /\ p[i].edge # p[k].edge
    BY <1>2, <1>3, <1>6
  <2>2. e = p[i].edge \/ e = p[k].edge
    BY <1>1, <1>6, <2>1, TwoAtNode
  <2>3. QED BY <2>2
<1>7. ASSUME NEW e \in C, NEW f \in V, Connected(m, e, f) PROVE e \in V
  <2>1. PICK i \in 1 .. n : f = p[i].edge
    OBVIOUS
  <2>2. PICK x \in Ends(m, e) : x \in Ends(m, p[i].edge)
    BY <1>7, <2>1 DEF Connected
  <2>3. CASE x = a(i)
    <3>1. x \in Ends(m, p[prev(i)].edge)
      BY <1>2, <1>5, <2>3
    <3>2. prev(i) \in 1 .. n /\ prev(i) # i
      BY <1>5
    <3>3. QED BY <1>6, <2>2, <3>1, <3>2
  <2>4. CASE x = b(i)
    <3>1. x \in Ends(m, p[next(i)].edge)
      BY <1>2, <1>5, <2>4
    <3>2. next(i) \in 1 .. n /\ next(i) # i
      BY <1>5
    <3>3. QED BY <1>6, <2>2, <3>1, <3>2
  <2>5. QED BY <1>2, <2>2, <2>3, <2>4
<1>8. V \in SUBSET C /\ V # {}
  <2>1. 1 \in 1 .. n
    BY <1>1
  <2>2. QED BY <1>2, <2>1
<1> HIDE DEF V
<1>9. V = C
  BY <1>7, <1>8 DEF Joined
<1>10. EdgesOf(p) = V
  BY <1>1, EdgesOfWalk DEF V, n
<1>11. QED BY <1>9, <1>10 DEF Tour

\* A tour turned around is a tour.
LEMMA FlipTour ==
  ASSUME NEW m, NEW C, NEW p, Tour(m, C, p)
  PROVE  Tour(m, C, flip(p))
<1> DEFINE n == Len(p)
           q == flip(p)
           r(i) == n - i + 1
<1>1. p \in Seq(Along(C)) /\ n \in Nat /\ n >= 1
  BY LenProperties DEF Tour, Walk
<1>2. /\ \A i \in 1 .. n - 1 : second_vertex_of_oriented_edge(m, p[i])
                                = first_vertex_of_oriented_edge(m, p[i + 1])
      /\ \A i, j \in 1 .. n : i # j => p[i].edge # p[j].edge
      /\ second_vertex_of_oriented_edge(m, p[n]) = first_vertex_of_oriented_edge(m, p[1])
      /\ EdgesOf(p) = C
  BY DEF Tour, Walk, Returns
<1>3. q \in Seq(Along(C))
  BY <1>1, FlipIs
<1>4. q = [i \in 1 .. n |-> OrientedEdge(Reverse(p)[i].edge, ~Reverse(p)[i].reversed)]
  BY DEF flip
<1>5. Len(q) = n
  BY <1>1, <1>4
<1>6. ASSUME NEW i \in 1 .. n
      PROVE  q[i] = OrientedEdge(p[r(i)].edge, ~p[r(i)].reversed)
  <2>1. Reverse(p)[i] = p[r(i)]
    BY DEF Reverse
  <2>2. QED BY <1>4, <2>1
<1>7. \A i \in 1 .. n : r(i) \in 1 .. n
  BY <1>1
<1> HIDE DEF n, q, r
<1>8. ASSUME NEW i \in 1 .. n
      PROVE  /\ q[i].edge = p[r(i)].edge
             /\ first_vertex_of_oriented_edge(m, q[i]) = second_vertex_of_oriented_edge(m, p[r(i)])
             /\ second_vertex_of_oriented_edge(m, q[i]) = first_vertex_of_oriented_edge(m, p[r(i)])
  <2> DEFINE o == p[r(i)]
  <2>1. o \in Along(C)
    BY <1>1, <1>7, ElementOfSeq DEF n
  <2>2. q[i] = OrientedEdge(o.edge, ~o.reversed)
    BY <1>6
  <2> HIDE DEF o
  <2>3. o.reversed \in BOOLEAN
    BY <2>1 DEF Along
  <2>4. /\ q[i].edge = o.edge /\ q[i].reversed = ~o.reversed
    BY <2>2 DEF OrientedEdge
  <2>5. QED
    BY <2>3, <2>4 DEF o, first_vertex_of_oriented_edge, second_vertex_of_oriented_edge
<1>9. \A i \in 1 .. n - 1 : second_vertex_of_oriented_edge(m, q[i])
                              = first_vertex_of_oriented_edge(m, q[i + 1])
  <2> SUFFICES ASSUME NEW i \in 1 .. n - 1
               PROVE  second_vertex_of_oriented_edge(m, q[i])
                        = first_vertex_of_oriented_edge(m, q[i + 1])
    OBVIOUS
  <2>1. i \in 1 .. n /\ i + 1 \in 1 .. n /\ r(i + 1) \in 1 .. n - 1 /\ r(i) = r(i + 1) + 1
    BY <1>1 DEF r
  <2>2. second_vertex_of_oriented_edge(m, q[i]) = first_vertex_of_oriented_edge(m, p[r(i)])
    BY <1>8, <2>1
  <2>3. first_vertex_of_oriented_edge(m, q[i + 1]) = second_vertex_of_oriented_edge(m, p[r(i + 1)])
    BY <1>8, <2>1
  <2>4. QED BY <1>2, <2>1, <2>2, <2>3
<1>10. \A i, j \in 1 .. n : i # j => q[i].edge # q[j].edge
  <2>1. \A i, j \in 1 .. n : i # j => r(i) # r(j)
    BY <1>1 DEF r
  <2>2. QED BY <1>2, <1>7, <1>8, <2>1
<1>11. second_vertex_of_oriented_edge(m, q[n]) = first_vertex_of_oriented_edge(m, q[1])
  <2>1. 1 \in 1 .. n /\ n \in 1 .. n /\ r(1) = n /\ r(n) = 1
    BY <1>1 DEF r
  <2>2. QED BY <1>2, <1>8, <2>1
<1>12. EdgesOf(q) = C
  <2>1. EdgesOf(q) = {q[i].edge : i \in 1 .. n} /\ EdgesOf(p) = {p[i].edge : i \in 1 .. n}
    BY <1>1, <1>3, <1>5, EdgesOfWalk DEF n
  <2>2. \A i \in 1 .. n : r(r(i)) = i
    BY <1>1 DEF r
  <2>3. {q[i].edge : i \in 1 .. n} \subseteq {p[i].edge : i \in 1 .. n}
    BY <1>7, <1>8
  <2>4. ASSUME NEW i \in 1 .. n PROVE p[i].edge \in {q[k].edge : k \in 1 .. n}
    <3>1. r(i) \in 1 .. n /\ q[r(i)].edge = p[i].edge
      <4>1. r(i) \in 1 .. n
        BY <1>7
      <4>2. q[r(i)].edge = p[r(r(i))].edge
        BY <1>8, <4>1
      <4>3. QED BY <2>2, <4>1, <4>2
    <3>2. QED BY <3>1
  <2> DEFINE P == {p[i].edge : i \in 1 .. n}
             Q == {q[i].edge : i \in 1 .. n}
  <2>5. \A e \in P : e \in Q
    BY <2>4
  <2>6. Q \subseteq P /\ EdgesOf(q) = Q /\ EdgesOf(p) = P
    BY <2>1, <2>3
  <2> HIDE DEF P, Q
  <2>7. QED BY <1>2, <2>5, <2>6
<1>13. Walk(m, C, q)
  BY <1>1, <1>3, <1>5, <1>9, <1>10 DEF Walk
<1>14. Returns(m, q)
  BY <1>5, <1>11 DEF Returns
<1>15. QED BY <1>12, <1>13, <1>14 DEF Tour, q

\* A walk goes on along an edge it has not been along.
LEMMA WalkOn ==
  ASSUME NEW m, NEW C, NEW p, Walk(m, C, p), NEW d \in ConnectedToEnd(m, C, p[Len(p)]),
         \A j \in 1 .. Len(p) : d # p[j].edge
  PROVE  Walk(m, C, Append(p, OrientedEdge(d, need_to_reverse(m, p[Len(p)], d))))
<1> DEFINE n == Len(p)
           l == p[n]
           o == OrientedEdge(d, need_to_reverse(m, l, d))
           q == Append(p, o)
<1>1. p \in Seq(Along(C)) /\ n \in Nat /\ n >= 1
  BY LenProperties DEF Walk
<1>2. d \in C /\ second_vertex_of_oriented_edge(m, l) \in Ends(m, d)
  BY DEF ConnectedToEnd
<1>3. l \in Along(C)
  <2>1. n \in 1 .. n
    BY <1>1
  <2>2. QED BY <1>1, <2>1, ElementOfSeq
<1> HIDE DEF l
<1>4. need_to_reverse(m, l, d) \in BOOLEAN
  BY Zenon DEF need_to_reverse
<1>5. o \in Along(C) /\ o.edge = d /\ o.reversed = need_to_reverse(m, l, d)
  BY <1>2, <1>4, Zenon DEF OrientedEdge, Along
<1> HIDE DEF o, n
<1>6. first_vertex_of_oriented_edge(m, o) = second_vertex_of_oriented_edge(m, l)
  <2>1. need_to_reverse(m, l, d)
          <=> second_vertex_of_oriented_edge(m, l) # m.edges[d][1]
    BY <1>3 DEF Along, need_to_reverse, second_vertex_of_oriented_edge
  <2>2. CASE need_to_reverse(m, l, d)
    <3>1. first_vertex_of_oriented_edge(m, o) = m.edges[d][2]
      BY <1>5, <2>2 DEF first_vertex_of_oriented_edge
    <3>2. second_vertex_of_oriented_edge(m, l) = m.edges[d][2]
      BY <1>2, <2>1, <2>2 DEF Ends
    <3>3. QED BY <3>1, <3>2
  <2>3. CASE ~need_to_reverse(m, l, d)
    <3>1. first_vertex_of_oriented_edge(m, o) = m.edges[d][1]
      BY <1>5, <2>3 DEF first_vertex_of_oriented_edge
    <3>2. QED BY <2>1, <2>3, <3>1
  <2>4. QED BY <2>2, <2>3
<1>7. /\ q \in Seq(Along(C)) /\ Len(q) = n + 1 /\ q[n + 1] = o
      /\ \A i \in 1 .. n : q[i] = p[i]
  BY <1>1, <1>5, AppendProperties DEF n
<1> HIDE DEF q
<1>8. \A i \in 1 .. n : second_vertex_of_oriented_edge(m, q[i])
                          = first_vertex_of_oriented_edge(m, q[i + 1])
  <2> SUFFICES ASSUME NEW i \in 1 .. n
               PROVE  second_vertex_of_oriented_edge(m, q[i])
                        = first_vertex_of_oriented_edge(m, q[i + 1])
    OBVIOUS
  <2>1. CASE i = n
    BY <1>6, <1>7, <2>1 DEF l
  <2>2. CASE i # n
    <3>1. i \in 1 .. n - 1 /\ i + 1 \in 1 .. n
      BY <1>1, <2>2
    <3>2. second_vertex_of_oriented_edge(m, p[i]) = first_vertex_of_oriented_edge(m, p[i + 1])
      BY <3>1 DEF Walk, n
    <3>3. QED BY <1>7, <3>1, <3>2
  <2>3. QED BY <2>1, <2>2
<1>9. \A i, j \in 1 .. n + 1 : i # j => q[i].edge # q[j].edge
  <2>1. \A i, j \in 1 .. n : i # j => p[i].edge # p[j].edge
    BY DEF Walk, n
  <2>2. \A i \in 1 .. n : q[n + 1].edge # q[i].edge
    BY <1>5, <1>7 DEF n
  <2>3. \A i \in 1 .. n + 1 : i \in 1 .. n \/ i = n + 1
    BY <1>1
  <2>4. QED BY <1>7, <2>1, <2>2, <2>3
<1>10. Walk(m, C, q)
  <2>1. Len(q) >= 1 /\ Len(q) - 1 = n
    BY <1>1, <1>7
  <2>2. QED BY <1>7, <1>8, <1>9, <2>1 DEF Walk
<1>11. QED BY <1>10 DEF q, o, l, n

\* Where the walk stops it is a tour; else it goes on.
LEMMA WalkStops ==
  ASSUME NEW m, NEW C, Ring(m, C), Joined(m, C), NEW p, Walk(m, C, p),
         NEW d \in ConnectedToEnd(m, C, p[Len(p)])
  PROVE  IF d = p[1].edge \/ Len(p) = Cardinality(C) THEN Tour(m, C, p)
         ELSE Walk(m, C, Append(p, OrientedEdge(d, need_to_reverse(m, p[Len(p)], d))))
<1>1. Len(p) \in Nat /\ Len(p) >= 1 /\ 1 \in 1 .. Len(p)
  BY LenProperties DEF Walk
<1>2. \A j \in 1 .. Len(p) : d = p[j].edge => j = 1 /\ Len(p) > 1 /\ Returns(m, p)
  BY NextEdgeIs
<1>3. CASE d = p[1].edge
  <2>1. Len(p) > 1 /\ Returns(m, p)
    BY <1>1, <1>2, <1>3
  <2>2. Tour(m, C, p)
    BY <2>1, TourIs
  <2>3. QED BY <1>3, <2>2
<1>4. CASE d # p[1].edge /\ Len(p) = Cardinality(C)
  <2>1. d \in C /\ IsFiniteSet(C) /\ Apart(m, C)
    BY DEF ConnectedToEnd, Ring
  <2>2. \E j \in 1 .. Len(p) : d = p[j].edge
    BY <1>4, <2>1, AllWalked
  <2>3. QED BY <1>2, <1>4, <2>2
<1>5. CASE d # p[1].edge /\ Len(p) # Cardinality(C)
  <2>1. \A j \in 1 .. Len(p) : d # p[j].edge
    BY <1>2, <1>5
  <2>2. Walk(m, C, Append(p, OrientedEdge(d, need_to_reverse(m, p[Len(p)], d))))
    BY <2>1, WalkOn
  <2>3. QED BY <1>5, <2>2
<1>6. QED BY <1>3, <1>4, <1>5

\* The sides of the facet made of a tour are the edges of the loop.
LEMMA TourFacet ==
  ASSUME NEW m \in Meshes, EdgesExist(m), NEW C, C \subseteq 1 .. Len(m.edges), Ring(m, C),
         NEW p, Tour(m, C, p)
  PROVE  {{s[1], s[2]} : s \in SidesOfNodes(NewFacet(m, p))} = {Ends(m, e) : e \in C}
<1> DEFINE n == Len(p)
           a(i) == first_vertex_of_oriented_edge(m, p[i])
           b(i) == second_vertex_of_oriented_edge(m, p[i])
<1>1. Walk(m, C, p) /\ Returns(m, p) /\ EdgesOf(p) = C
  BY DEF Tour
<1>2. p \in Seq(Along(C)) /\ n \in Nat /\ n >= 1
  BY <1>1, LenProperties DEF Walk
<1>3. p \in Seq(Along(1 .. Len(m.edges)))
  BY <1>2, AlongMore
<1>4. \A i, j \in 1 .. n : i # j => b(i) # b(j)
  BY <1>1, WalkNodes
<1>5. \A i \in 1 .. n : b(i) = a(IF i = n THEN 1 ELSE i + 1)
  <2>1. b(n) = a(1) /\ \A i \in 1 .. n - 1 : b(i) = a(i + 1)
    BY <1>1 DEF Walk, Returns
  <2> HIDE DEF a, b, n
  <2>2. \A i \in 1 .. n : i # n => i \in 1 .. n - 1
    BY <1>2
  <2>3. QED BY <2>1, <2>2
<1>6. n \in 1 .. Len(p) /\ \A i \in n + 1 .. Len(p) : FALSE
  BY <1>2
<1>7. SidesOfNodes(NewFacet(m, p)) = {<<a(i), b(i)>> : i \in 1 .. n}
  <2>1. \A i \in n + 1 .. Len(p) : \E j \in 1 .. n : b(i) = b(j)
    BY <1>6
  <2>2. QED BY <1>3, <1>4, <1>5, <1>6, <2>1, SidesAreDirs
<1>8. \A i \in 1 .. n : p[i].edge \in C /\ Ends(m, p[i].edge) = {a(i), b(i)}
  <2> SUFFICES ASSUME NEW i \in 1 .. n
               PROVE  p[i].edge \in C /\ Ends(m, p[i].edge) = {a(i), b(i)}
    OBVIOUS
  <2>1. p[i] \in Along(C)
    BY <1>2, ElementOfSeq
  <2>2. QED BY <2>1, OrientedEnds
<1>9. C = {p[i].edge : i \in 1 .. n}
  BY <1>1, <1>2, EdgesOfWalk
<1> DEFINE N == SidesOfNodes(NewFacet(m, p))
<1> HIDE DEF a, b, n, N
<1>10. \A s \in N : \E i \in 1 .. n : s = <<a(i), b(i)>>
  BY <1>7 DEF N
<1>11. \A i \in 1 .. n : <<a(i), b(i)>> \in N
  BY <1>7 DEF N
<1>12. ASSUME NEW s \in N PROVE {s[1], s[2]} \in {Ends(m, e) : e \in C}
  <2>1. PICK i \in 1 .. n : s = <<a(i), b(i)>>
    BY <1>10
  <2>2. {s[1], s[2]} = {a(i), b(i)}
    BY <2>1
  <2>3. QED BY <1>8, <2>2
<1>13. ASSUME NEW e \in C PROVE Ends(m, e) \in {{s[1], s[2]} : s \in N}
  <2>1. PICK i \in 1 .. n : e = p[i].edge
    BY <1>9
  <2> DEFINE s == <<a(i), b(i)>>
  <2>2. s \in N /\ s[1] = a(i) /\ s[2] = b(i)
    BY <1>11
  <2>3. Ends(m, e) = {s[1], s[2]}
    BY <1>8, <2>1, <2>2
  <2> HIDE DEF s
  <2>4. QED BY <2>2, <2>3
<1>14. {{s[1], s[2]} : s \in N} = {Ends(m, e) : e \in C}
  BY <1>12, <1>13
<1>15. QED BY <1>14 DEF N

\* What is said of edges alone does not change when facets are added.
LEMMA SameEdges ==
  ASSUME NEW m, NEW r, m.edges = r.edges, NEW E
  PROVE  /\ \A e : Ends(m, e) = Ends(r, e)
         /\ Apart(m, E) <=> Apart(r, E)
         /\ \A C : IsLoop(m, C) <=> IsLoop(r, C)
         /\ group_connected_edges(m, E) = group_connected_edges(r, E)
<1> DEFINE Within(edges, e) ==
             LET W[k \in 0 .. Cardinality(E)] ==
                   IF k = 0 THEN {e}
                   ELSE LET near == W[k - 1]
                        IN {d \in E : \E f \in near :
                              {edges[d][1], edges[d][2]} \cap {edges[f][1], edges[f][2]} # {}}
             IN W[Cardinality(E)]
<1>1. \A e : Ends(m, e) = Ends(r, e)
  BY DEF Ends
<1>2. Apart(m, E) <=> Apart(r, E)
  BY <1>1 DEF Apart
<1>3. \A C : IsLoop(m, C) <=> IsLoop(r, C)
  BY <1>1 DEF IsLoop
<1>4. \A e : Component(m, E, e) = Within(m.edges, e) /\ Component(r, E, e) = Within(r.edges, e)
  BY DEF Component, Connected, Ends
<1> HIDE DEF Within
<1>5. \A e : Component(m, E, e) = Component(r, E, e)
  BY <1>4
<1>6. group_connected_edges(m, E) = group_connected_edges(r, E)
  BY <1>5 DEF group_connected_edges
<1>7. QED BY <1>1, <1>2, <1>3, <1>6
=============================================================================
