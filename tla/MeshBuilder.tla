---------------------------- MODULE MeshBuilder ----------------------------
(***************************************************************************)
(* From facets given by the coordinates of their corners, as an STL file    *)
(* gives them, to a mesh whose facets share nodes and edges                 *)
(* (MeshBuilder.cpp). Two corners are one node when their coordinates are   *)
(* the same, two sides one edge when they join the same nodes. Coordinates  *)
(* are names here.                                                          *)
(***************************************************************************)
EXTENDS Mesh, SequencesExt

Start ==
  [nodes |-> <<>>, edges |-> <<>>, facets |-> <<>>, facets_per_edge |-> <<>>,
   oriented_edges_per_facet |-> <<>>]

build_one_point(b, xyz) ==
  IF xyz \in Range(b.nodes) THEN b ELSE [b EXCEPT !.nodes = Append(@, xyz)]

\* A seeded fault: an edge run through backwards is taken for another one.
Joins_InOrder(edge, v, w) == edge = <<v, w>>

Joins(edge, v, w) == {edge[1], edge[2]} = {v, w}

build_one_edge(b, v, w) ==
  IF \E e \in DOMAIN b.edges : Joins(b.edges[e], v, w) THEN b
  ELSE [b EXCEPT !.edges = Append(@, <<v, w>>), !.facets_per_edge = Append(@, <<>>)]

\* The side of the last facet from one corner to the next.
AddSide(b, from, to) ==
  LET p == build_one_point(build_one_point(b, from), to)
      vertex_index == SelectInSeq(p.nodes, LAMBDA n : n = from)
      next_index == SelectInSeq(p.nodes, LAMBDA n : n = to)
      q == build_one_edge(p, vertex_index, next_index)
      edge == SelectInSeq(q.edges, LAMBDA e : Joins(e, vertex_index, next_index))
      reverse_direction == q.edges[edge][2] = vertex_index
      facet == Len(q.facets)
  IN [q EXCEPT !.facets[facet] = Append(@, vertex_index),
               !.oriented_edges_per_facet[facet] =
                   Append(@, OrientedEdge(edge, reverse_direction)),
               !.facets_per_edge[edge] = Append(@, facet)]

AddFacet(b, corners) ==
  LET n == Len(corners)
      opened == [b EXCEPT !.facets = Append(@, <<>>),
                          !.oriented_edges_per_facet = Append(@, <<>>)]
      after[i \in 0 .. n] ==
        IF i = 0 THEN opened
        ELSE AddSide(after[i - 1], corners[i], corners[(i % n) + 1])
  IN after[n]

AddFacets(hull) ==
  LET after[f \in 0 .. Len(hull)] ==
        IF f = 0 THEN Start ELSE AddFacet(after[f - 1], hull[f])
  IN after[Len(hull)]

build(hull) ==
  LET b == AddFacets(hull)
  IN [edges |-> b.edges, facets |-> b.facets,
      facets_per_edge |-> b.facets_per_edge,
      oriented_edges_per_facet |-> b.oriented_edges_per_facet,
      total_number_of_nodes |-> Len(b.nodes),
      nb_of_static_nodes |-> Len(b.nodes),
      nb_of_static_edges |-> Len(b.edges),
      nb_of_static_facets |-> Len(b.facets)]
=============================================================================
