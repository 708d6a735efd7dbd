------------------------ MODULE ClosingFacetComputer ------------------------
(***************************************************************************)
(* From the edges on the free surface to the contours of the facets that    *)
(* close the hull (ClosingFacetComputer.cpp). Edges are grouped by          *)
(* connection; a contour is found by walking from an edge to the next one.  *)
(* Which edge a walk starts from, which of several edges it takes next, and *)
(* in which direction a contour is run through in the end depend on angles  *)
(* and coordinates, and are left open.                                      *)
(***************************************************************************)
EXTENDS Mesh, SequencesExt

Ends(mesh, edge) == {mesh.edges[edge][1], mesh.edges[edge][2]}

Connected(mesh, e, f) == Ends(mesh, e) \cap Ends(mesh, f) # {}

\* The edges that can be reached from an edge.
Component(mesh, edges, edge) ==
  LET Within[k \in 0 .. Cardinality(edges)] ==
        IF k = 0 THEN {edge}
        ELSE LET near == Within[k - 1]
             IN {e \in edges : \E f \in near : Connected(mesh, e, f)}
  IN Within[Cardinality(edges)]

group_connected_edges(mesh, edges) == {Component(mesh, edges, e) : e \in edges}

\* The other edges at the end of an oriented edge.
ConnectedToEnd(mesh, component, o) ==
  {e \in component \ {o.edge} : second_vertex_of_oriented_edge(mesh, o) \in Ends(mesh, e)}

\* next_edge throws when there is none, or when one of them has both ends in
\* common with the edge.
HasNoNextEdge(mesh, component, o) ==
  LET next == ConnectedToEnd(mesh, component, o)
  IN next = {} \/ \E e \in next : Ends(mesh, e) = Ends(mesh, o.edge)

\* A seeded fault: the direction of the previous edge is not looked at.
need_to_reverse_Forward(mesh, o, edge) == mesh.edges[o.edge][2] # mesh.edges[edge][1]

\* An edge is reversed when the walk does not enter it at its first end.
need_to_reverse(mesh, o, edge) ==
  IF o.reversed THEN mesh.edges[o.edge][1] # mesh.edges[edge][1]
  ELSE mesh.edges[o.edge][2] # mesh.edges[edge][1]

flip(contour) ==
  [i \in 1 .. Len(contour) |->
     LET o == Reverse(contour)[i] IN OrientedEdge(o.edge, ~o.reversed)]

EdgesOf(contour) == {o.edge : o \in ToSet(contour)}
have_same_elements(contour1, contour2) == EdgesOf(contour1) = EdgesOf(contour2)

\* Each end of an edge is the end of exactly one other: the component is a loop.
IsLoop(mesh, component) ==
  \A e \in component : \A n \in Ends(mesh, e) :
    Cardinality({f \in component : n \in Ends(mesh, f)}) = 2
=============================================================================
