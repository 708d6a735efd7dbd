------------------------- MODULE MCMeshIntersector -------------------------
(* A tetrahedron and a double pyramid on a triangle, given by the corners of *)
(* their facets. Each node of the tetrahedron is above, below or exactly on  *)
(* the surface. The top of the double pyramid is above the surface, its other *)
(* nodes above or below, or some of the triangle's nodes on the surface.     *)
EXTENDS MeshIntersector

Tetrahedron ==
  << <<"a", "b", "c">>, <<"a", "d", "b">>, <<"b", "d", "c">>, <<"c", "d", "a">> >>
DoublePyramid ==
  << <<"a", "b", "top">>, <<"b", "c", "top">>, <<"c", "a", "top">>,
     <<"b", "a", "keel">>, <<"c", "b", "keel">>, <<"a", "c", "keel">> >>
MCCorners == {"a", "b", "c", "d", "top", "keel"}
MCHulls == {Tetrahedron, DoublePyramid}
ASSUME HullsAreClosed
ASSUME FacetsDiffer

\* The nodes of the double pyramid are a, b, top, c, keel, in that order.
MCPositions(n) ==
  IF n = 4 THEN [1 .. n -> -1 .. 1]
  ELSE {<<a, b, -1, c, keel>> : a \in {-1, 1}, b \in {-1, 1}, c \in {-1, 1}, keel \in {-1, 1}}
       \cup {<<0, b, -1, c, 1>> : b \in {-1, 0}, c \in {0, 1}}
=============================================================================
