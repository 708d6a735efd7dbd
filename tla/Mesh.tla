-------------------------------- MODULE Mesh --------------------------------
(***************************************************************************)
(* The mesh of a hull (Mesh.cpp): nodes, edges between nodes, facets. The   *)
(* static part is the mesh as it was read; cutting the mesh by the free     *)
(* surface appends nodes, edges and facets to it, which the next cut drops. *)
(*                                                                         *)
(* Nodes, edges and facets are numbered from 1. A facet is the sequence of  *)
(* its nodes. An oriented edge says in which direction an edge is run       *)
(* through; the code packs it in an integer.                                *)
(***************************************************************************)
EXTENDS Integers, Sequences, FiniteSets

OrientedEdge(edge, reversed) == [edge |-> edge, reversed |-> reversed]

first_vertex_of_oriented_edge(mesh, o) ==
  mesh.edges[o.edge][IF o.reversed THEN 2 ELSE 1]

second_vertex_of_oriented_edge(mesh, o) ==
  mesh.edges[o.edge][IF o.reversed THEN 1 ELSE 2]

add_edge(mesh, first, last) == [mesh EXCEPT !.edges = Append(@, <<first, last>>)]

add_vertex(mesh) == [mesh EXCEPT !.total_number_of_nodes = @ + 1]

\* A seeded fault: only the facets are dropped.
reset_dynamic_data_FacetsOnly(mesh) ==
  [mesh EXCEPT !.facets = SubSeq(@, 1, mesh.nb_of_static_facets),
               !.total_number_of_nodes = mesh.nb_of_static_nodes]

reset_dynamic_data(mesh) ==
  [mesh EXCEPT !.edges = SubSeq(@, 1, mesh.nb_of_static_edges),
               !.facets = SubSeq(@, 1, mesh.nb_of_static_facets),
               !.total_number_of_nodes = mesh.nb_of_static_nodes]

\* A facet has the second node of each of its edges. A node met before leaves
\* its place to the default value, the first node of the mesh, and the list is
\* then shortened by the number of those places, from its end.
create_facet_from_edges(mesh, oriented_edges) ==
  LET n == Len(oriented_edges)
      vertex(i) == second_vertex_of_oriented_edge(mesh, oriented_edges[i])
      IsNew(i) == \A j \in 1 .. i - 1 : vertex(j) # vertex(i)
      vertex_list == [i \in 1 .. n |-> IF IsNew(i) THEN vertex(i) ELSE 1]
      nb_of_vertices == Cardinality({i \in 1 .. n : IsNew(i)})
  IN [mesh EXCEPT !.facets = Append(@, SubSeq(vertex_list, 1, nb_of_vertices))]
=============================================================================
