-------------------------- MODULE MeshIntersector --------------------------
(***************************************************************************)
(* Cutting a hull by the free surface (MeshIntersector.cpp): from the       *)
(* immersion of each node, each facet is classified as emerged or immersed, *)
(* or split into a facet of each kind. Where the mesh is cut depends on the *)
(* sign of the immersions alone. Coordinates, normals and areas are left    *)
(* out. Facets are triangles, as in the STL files the program reads.        *)
(***************************************************************************)
EXTENDS MeshBuilder, ClosingFacetComputer

CONSTANTS
  Corners,      \* the points that the corners of a facet may be at
  Hulls,        \* the sequences of facets given by their corners
  Positions(_)  \* the immersions that a number of nodes may have: negative above
                \* the surface, positive below

\* An STL file has triangles.
Triangles ==
  {t \in [1 .. 3 -> Corners] : \A i, j \in 1 .. 3 : i # j => t[i] # t[j]}
ASSUME HullsAssumption == Hulls \subseteq Seq(Triangles)

\* Each node of a hull has an immersion.
ASSUME PositionsAssumption ==
  \A hull \in Hulls : LET n == build(hull).nb_of_static_nodes
                      IN Positions(n) \subseteq [1 .. n -> Int]

VARIABLES
  mesh,
  all_relative_immersions,    \* of each node, NaN when an update was refused
  index_of_emerged_facets,
  index_of_immersed_facets,
  index_of_facets_exactly_on_the_surface,    \* the closing facets
  index_of_edges_exactly_on_surface,
  need_to_update_closing_facet,
  building,      \* "no", "yes", or "failed" from an exception to the next update
  components,    \* loops of the surface that have no closing facet yet
  component,     \* the one at hand
  path,          \* the walk along it
  contours       \* the walks that have ended, two at most

classification == <<index_of_emerged_facets, index_of_immersed_facets,
                    index_of_edges_exactly_on_surface>>
walk == <<component, path, contours>>
vars == <<mesh, all_relative_immersions, classification,
          index_of_facets_exactly_on_the_surface, need_to_update_closing_facet,
          building, components, walk>>

NaN == <<>>

\* Immersion status of an edge, which the code keeps in four bits: which of its
\* ends are immersed, which are emerged.
get_edge_immersion_status(z0, z1) ==
  [immersed |-> {i \in 1 .. 2 : <<z0, z1>>[i] > 0},
   emerged |-> {i \in 1 .. 2 : <<z0, z1>>[i] < 0}]

crosses_free_surface(status) == status.immersed # {} /\ status.emerged # {}
                                /\ status.immersed \cap status.emerged = {}
is_emerged(status) == status.immersed = {} /\ status.emerged # {}
is_immersed(status) == status.emerged = {} /\ status.immersed # {}
both_ends_just_touch_free_surface(status) ==
  status.immersed = {} /\ status.emerged = {}
one_of_the_ends_just_touches_free_surface(status) ==
  Cardinality(status.immersed) + Cardinality(status.emerged) = 1

\* What an update has worked out so far.
Cut(m, immersions) ==
  [mesh |-> m, immersions |-> immersions,
   edges_immersion_status |-> <<>>,
   split_edges |-> [e \in 1 .. m.nb_of_static_edges |-> 1],
   facet_crosses_free_surface |-> {},
   emerged |-> <<>>, immersed |-> <<>>, surface_edges |-> {}]

\* The statuses of the halves are put behind those of the static edges. Both
\* ends of the immersed half and one of the emerged one count as immersed or
\* emerged, so that only the emerged half is what it says.
split_partially_immersed_edge(cut, edge) ==
  LET first == cut.mesh.edges[edge][1]
      last == cut.mesh.edges[edge][2]
      middle == cut.mesh.total_number_of_nodes + 1
      status == cut.edges_immersion_status[edge]
      half(end) == [immersed |-> IF end \in status.immersed THEN {1, 2} ELSE {},
                    emerged |-> {1}]
  IN [cut EXCEPT
        !.mesh = add_edge(add_edge(add_vertex(@), first, middle), middle, last),
        !.immersions = Append(@, 0),
        !.split_edges[edge] = Len(cut.mesh.edges) + 1,
        !.edges_immersion_status = @ \o <<half(1), half(2)>>]

\* A seeded fault: an edge that only touches the surface flags no facet.
flags_its_facets_CrossingOnly(status) == crosses_free_surface(status)

flags_its_facets(status) ==
  \/ crosses_free_surface(status)
  \/ both_ends_just_touch_free_surface(status)
  \/ one_of_the_ends_just_touches_free_surface(status)

\* The statuses of all static edges are known before those of the halves of the
\* first one are appended, as the code allocates them.
find_intersection_with_free_surface(cut) ==
  LET z == cut.immersions
      static == 1 .. cut.mesh.nb_of_static_edges
      status == [e \in static |->
                   get_edge_immersion_status(z[cut.mesh.edges[e][1]],
                                             z[cut.mesh.edges[e][2]])]
      flagged == UNION {ToSet(cut.mesh.facets_per_edge[e]) :
                          e \in {s \in static : flags_its_facets(status[s])}}
      after[e \in 0 .. cut.mesh.nb_of_static_edges] ==
        IF e = 0 THEN [cut EXCEPT !.edges_immersion_status = status,
                                  !.facet_crosses_free_surface = flagged]
        ELSE IF crosses_free_surface(status[e])
             THEN split_partially_immersed_edge(after[e - 1], e)
             ELSE after[e - 1]
  IN after[cut.mesh.nb_of_static_edges]

\* A facet that neither crosses nor touches the surface is on one side of it: the
\* first edge says which.
classify_facet(cut, facet) ==
  LET edge == cut.mesh.oriented_edges_per_facet[facet][1].edge
  IN IF is_emerged(cut.edges_immersion_status[edge])
     THEN [cut EXCEPT !.emerged = Append(@, facet)]
     ELSE [cut EXCEPT !.immersed = Append(@, facet)]

\* The edges of a facet on each side, in the order they are run through, and how
\* many come before the closing edge on each side.
NoSides == [emerged |-> <<>>, immersed |-> <<>>, status |-> "unknown",
            first_emerged |-> 0, first_immersed |-> 0]

\* A seeded fault: both halves of an edge are taken in the order they were made,
\* whichever way the facet runs through the edge.
Halves_InOrder(cut, o) ==
  LET edge1 == cut.split_edges[o.edge]
  IN <<OrientedEdge(edge1, o.reversed), OrientedEdge(edge1 + 1, o.reversed)>>

Halves(cut, o) ==
  LET edge1 == cut.split_edges[o.edge]
      edge2 == edge1 + 1
  IN IF o.reversed
     THEN <<OrientedEdge(edge2, TRUE), OrientedEdge(edge1, TRUE)>>
     ELSE <<OrientedEdge(edge1, FALSE), OrientedEdge(edge2, FALSE)>>

AddOnSurface(sides, o) ==
  LET emerged == Append(sides.emerged, o)
      immersed == Append(sides.immersed, o)
  IN [sides EXCEPT
        !.emerged = emerged, !.immersed = immersed,
        !.first_emerged = IF sides.status = "immersed" THEN Len(emerged) ELSE @,
        !.first_immersed = IF sides.status = "emerged" THEN Len(immersed) ELSE @]

AddEmerged(sides, o) ==
  [sides EXCEPT
     !.first_emerged = IF sides.status = "immersed" THEN Len(sides.emerged) ELSE @,
     !.emerged = Append(@, o), !.status = "emerged"]

AddImmersed(sides, o) ==
  [sides EXCEPT
     !.first_immersed = IF sides.status = "emerged" THEN Len(sides.immersed) ELSE @,
     !.immersed = Append(@, o), !.status = "immersed"]

AddCrossing(cut, sides, o) ==
  LET halves == Halves(cut, o)
  IN IF is_emerged(cut.edges_immersion_status[halves[1].edge])
     THEN [sides EXCEPT !.emerged = Append(@, halves[1]),
                        !.first_immersed = Len(sides.immersed),
                        !.immersed = Append(@, halves[2]), !.status = "immersed"]
     ELSE [sides EXCEPT !.immersed = Append(@, halves[1]),
                        !.first_emerged = Len(sides.emerged),
                        !.emerged = Append(@, halves[2]), !.status = "emerged"]

AddEdge(cut, sides, o) ==
  LET status == cut.edges_immersion_status[o.edge]
  IN CASE both_ends_just_touch_free_surface(status) -> AddOnSurface(sides, o)
       [] is_emerged(status) -> AddEmerged(sides, o)
       [] is_immersed(status) -> AddImmersed(sides, o)
       [] OTHER -> AddCrossing(cut, sides, o)

EdgesOnEachSide(cut, edges) ==
  LET after[i \in 0 .. Len(edges)] ==
        IF i = 0 THEN NoSides ELSE AddEdge(cut, after[i - 1], edges[i])
  IN after[Len(edges)]

\* A seeded fault: the closing edge is run through in the same direction by both
\* facets.
CloseBoth_SameWay(sides, edge) ==
  [immersed |-> InsertAt(sides.immersed, sides.first_immersed + 1,
                         OrientedEdge(edge, FALSE)),
   emerged |-> InsertAt(sides.emerged, sides.first_emerged + 1,
                        OrientedEdge(edge, FALSE))]

CloseBoth(sides, edge) ==
  [immersed |-> InsertAt(sides.immersed, sides.first_immersed + 1,
                         OrientedEdge(edge, TRUE)),
   emerged |-> InsertAt(sides.emerged, sides.first_emerged + 1,
                        OrientedEdge(edge, FALSE))]

\* A facet with at most one edge on a side only touches the surface from the
\* other. Else a closing edge is added and the facet replaced by two.
split_partially_immersed_facet_and_classify(cut, facet) ==
  LET edges == cut.mesh.oriented_edges_per_facet[facet]
      sides == EdgesOnEachSide(cut, edges)
      touching == {o.edge : o \in {p \in ToSet(edges) :
         both_ends_just_touch_free_surface(cut.edges_immersion_status[p.edge])}}
      seen == [cut EXCEPT !.surface_edges = @ \cup touching]
  IN IF Len(sides.emerged) <= 1 THEN [seen EXCEPT !.immersed = Append(@, facet)]
     ELSE IF Len(sides.immersed) <= 1 THEN [seen EXCEPT !.emerged = Append(@, facet)]
     ELSE LET from == first_vertex_of_oriented_edge(
                        cut.mesh, sides.immersed[sides.first_immersed + 1])
              to == first_vertex_of_oriented_edge(
                        cut.mesh, sides.emerged[sides.first_emerged + 1])
              closed == add_edge(cut.mesh, from, to)
              closing_edge == Len(closed.edges)
              both == CloseBoth(sides, closing_edge)
              mesh1 == create_facet_from_edges(closed, both.emerged)
              mesh2 == create_facet_from_edges(mesh1, both.immersed)
          IN [seen EXCEPT
                !.mesh = mesh2,
                !.emerged = Append(@, Len(mesh1.facets)),
                !.immersed = Append(@, Len(mesh2.facets)),
                !.surface_edges = IF from = to THEN @ ELSE @ \cup {closing_edge}]

classify_or_split(cut) ==
  LET after[f \in 0 .. cut.mesh.nb_of_static_facets] ==
        IF f = 0 THEN cut
        ELSE IF f \in cut.facet_crosses_free_surface
             THEN split_partially_immersed_facet_and_classify(after[f - 1], f)
             ELSE classify_facet(after[f - 1], f)
  IN after[cut.mesh.nb_of_static_facets]

\* The whole update, from a mesh and the immersions of its static nodes.
Intersection(m, immersions) ==
  classify_or_split(find_intersection_with_free_surface(
    Cut(reset_dynamic_data(m), immersions)))

NoWalk == component' = {} /\ path' = <<>> /\ contours' = <<>>

\* update_intersection_with_free_surface, called for each evaluation of the forces.
update(z) ==
  /\ building # "yes"
  /\ LET cut == Intersection(mesh, z)
     IN /\ mesh' = cut.mesh
        /\ all_relative_immersions' = cut.immersions
        /\ index_of_emerged_facets' = cut.emerged
        /\ index_of_immersed_facets' = cut.immersed
        /\ index_of_edges_exactly_on_surface' = cut.surface_edges
  /\ index_of_facets_exactly_on_the_surface' = <<>>
  /\ need_to_update_closing_facet' = TRUE
  /\ building' = "no" /\ components' = {} /\ NoWalk

\* A NaN is found when the immersions have been replaced: the rest stays.
refuse ==
  /\ building # "yes"
  /\ all_relative_immersions' = NaN
  /\ building' = "failed"
  /\ UNCHANGED <<mesh, classification, index_of_facets_exactly_on_the_surface,
                 need_to_update_closing_facet, components, walk>>

\* The first volume or centre of mass asked for since the update builds the
\* closing facets. Without edges on the surface there is nothing to build.
build_closing_edge ==
  /\ building = "no" /\ need_to_update_closing_facet
  /\ index_of_edges_exactly_on_surface # {}
  /\ components' = group_connected_edges(mesh, index_of_edges_exactly_on_surface)
  /\ building' = "yes"
  /\ UNCHANGED <<mesh, all_relative_immersions, classification,
                 index_of_facets_exactly_on_the_surface,
                 need_to_update_closing_facet, walk>>

\* The next component. A single edge has no contour.
take_component ==
  /\ building = "yes" /\ component = {}
  /\ \E c \in components :
       /\ components' = components \ {c}
       /\ component' = IF Cardinality(c) = 1 THEN {} ELSE c
  /\ UNCHANGED <<mesh, all_relative_immersions, classification,
                 index_of_facets_exactly_on_the_surface,
                 need_to_update_closing_facet, building, path, contours>>

\* Two walks are made, from the edges at two extreme nodes.
start_contour ==
  /\ component # {} /\ path = <<>> /\ Len(contours) < 2
  /\ \E e \in component : path' = <<OrientedEdge(e, FALSE)>>
  /\ UNCHANGED <<mesh, all_relative_immersions, classification,
                 index_of_facets_exactly_on_the_surface,
                 need_to_update_closing_facet, building, components,
                 component, contours>>

\* One pass of the loop in contour(edge). Only the direction of the first contour
\* is used afterwards.
follow ==
  /\ path # <<>>
  /\ LET o == path[Len(path)]
         ends_with(contour) == contours' = Append(contours, contour) /\ path' = <<>>
     IN IF HasNoNextEdge(mesh, component, o) THEN ends_with(<<>>)
        ELSE \E edge \in ConnectedToEnd(mesh, component, o) :
               IF edge = path[1].edge \/ Len(path) = Cardinality(component)
               THEN \/ ends_with(path)
                    \/ contours = <<>> /\ ends_with(flip(path))
               ELSE /\ path' = Append(path,
                         OrientedEdge(edge, need_to_reverse(mesh, o, edge)))
                    /\ UNCHANGED contours
  /\ UNCHANGED <<mesh, all_relative_immersions, classification,
                 index_of_facets_exactly_on_the_surface,
                 need_to_update_closing_facet, building, components, component>>

\* contour() compares the walks; the first one becomes a closing facet.
close_contour ==
  /\ Len(contours) = 2
  /\ IF ~have_same_elements(contours[1], contours[2])
     THEN /\ building' = "failed"
          /\ UNCHANGED <<mesh, index_of_facets_exactly_on_the_surface>>
     ELSE /\ UNCHANGED building
          /\ IF contours[1] = <<>>
             THEN UNCHANGED <<mesh, index_of_facets_exactly_on_the_surface>>
             ELSE /\ mesh' = create_facet_from_edges(mesh, contours[1])
                  /\ index_of_facets_exactly_on_the_surface' =
                       Append(index_of_facets_exactly_on_the_surface,
                              Len(mesh.facets) + 1)
  /\ NoWalk
  /\ UNCHANGED <<all_relative_immersions, classification,
                 need_to_update_closing_facet, components>>

closing_facets_built ==
  /\ building = "yes" /\ component = {} /\ components = {}
  /\ building' = "no" /\ need_to_update_closing_facet' = FALSE
  /\ UNCHANGED <<mesh, all_relative_immersions, classification,
                 index_of_facets_exactly_on_the_surface, components, walk>>

Init ==
  /\ \E hull \in Hulls : mesh = build(hull)
  /\ all_relative_immersions = <<>>
  /\ index_of_emerged_facets = <<>> /\ index_of_immersed_facets = <<>>
  /\ index_of_edges_exactly_on_surface = {}
  /\ index_of_facets_exactly_on_the_surface = <<>>
  /\ need_to_update_closing_facet = TRUE
  /\ building = "no" /\ components = {}
  /\ component = {} /\ path = <<>> /\ contours = <<>>

Next ==
  \/ \E z \in Positions(mesh.nb_of_static_nodes) : update(z)
  \/ refuse
  \/ build_closing_edge \/ take_component
  \/ start_contour \/ follow \/ close_contour \/ closing_facets_built

Spec == Init /\ [][Next]_vars

-----------------------------------------------------------------------------
(* Properties *)

Updated == all_relative_immersions # NaN
Node == 1 .. mesh.total_number_of_nodes

\* The nodes of all edges and facets exist, within the room that is reserved for
\* one more node on each static edge, and each has an immersion.
TypeOK ==
  /\ mesh.total_number_of_nodes <= mesh.nb_of_static_nodes + mesh.nb_of_static_edges
  /\ \A e \in DOMAIN mesh.edges : Ends(mesh, e) \subseteq Node
  /\ \A f \in DOMAIN mesh.facets : ToSet(mesh.facets[f]) \subseteq Node
  /\ Updated => DOMAIN all_relative_immersions = Node
  /\ index_of_edges_exactly_on_surface \subseteq DOMAIN mesh.edges
  /\ building \in {"no", "yes", "failed"}

Emerged == ToSet(index_of_emerged_facets)
Immersed == ToSet(index_of_immersed_facets)
Closing == ToSet(index_of_facets_exactly_on_the_surface)

\* The directed sides of a facet, and how often a side is run through.
Sides(f) == LET v == mesh.facets[f]
            IN {<<v[i], v[(i % Len(v)) + 1]>> : i \in DOMAIN v}
Times(facets, side) == Cardinality({f \in facets : side \in Sides(f)})
SidesOf(facets) == UNION {Sides(f) : f \in facets}
Backwards(side) == <<side[2], side[1]>>
\* The sides where the surface made of some facets is open.
OpenSides(facets) ==
  {s \in SidesOf(facets) : Times(facets, s) # Times(facets, Backwards(s))}

OnSurface(f) == \A n \in ToSet(mesh.facets[f]) : all_relative_immersions[n] = 0

\* No emerged facet has an immersed node and no immersed facet an emerged one,
\* whether it was split or only classified.
FacetsAreOnTheirSide ==
  Updated =>
    /\ \A f \in Emerged : \A n \in ToSet(mesh.facets[f]) : all_relative_immersions[n] <= 0
    /\ \A f \in Immersed : \A n \in ToSet(mesh.facets[f]) : all_relative_immersions[n] >= 0

\* The hulls are closed: each side between two corners is run through as often in
\* one direction as in the other.
FacetsWith(hull, a, b) ==
  {f \in DOMAIN hull : \E i \in 1 .. 3 : hull[f][i] = a /\ hull[f][(i % 3) + 1] = b}
HullsAreClosed ==
  \A hull \in Hulls : \A a, b \in Corners :
    Cardinality(FacetsWith(hull, a, b)) = Cardinality(FacetsWith(hull, b, a))

\* Emerged and immersed facets together are a closed surface, as the hull is: the
\* cuts of neighbouring facets meet, and no facet is lost or counted twice. (A
\* facet that lies on the surface is in both lists: once is counted here.)
TheHullStaysWatertight ==
  Updated => OpenSides(Immersed \cup {f \in Emerged : ~OnSurface(f)}) = {}

\* The immersed part alone is open along edges known to be on the surface only,
\* from which the closing facets are made.
OpenOnlyOnTheSurface ==
  Updated =>
    \A s \in OpenSides(Immersed) \cup OpenSides(Emerged) :
      \E e \in index_of_edges_exactly_on_surface : Ends(mesh, e) = {s[1], s[2]}

\* Nothing is left of earlier updates, closing facets or refusals.
UpdateForgetsThePast ==
  Updated /\ building = "no" /\ need_to_update_closing_facet =>
    LET fresh == [mesh EXCEPT !.edges = SubSeq(@, 1, mesh.nb_of_static_edges),
                              !.facets = SubSeq(@, 1, mesh.nb_of_static_facets),
                              !.total_number_of_nodes = mesh.nb_of_static_nodes]
        z == SubSeq(all_relative_immersions, 1, mesh.nb_of_static_nodes)
        cut == Intersection(fresh, z)
    IN /\ mesh = cut.mesh
       /\ classification = <<cut.emerged, cut.immersed, cut.surface_edges>>

\* No two facets of a hull have the same corners.
FacetsDiffer ==
  \A hull \in Hulls : \A f, g \in DOMAIN hull : f # g => ToSet(hull[f]) # ToSet(hull[g])

\* When every part of the surface's edges is a loop, each becomes one closing facet
\* with all its nodes, whichever edges the walks start from, and the facets close
\* the immersed part where it is open.
Loops == \A c \in group_connected_edges(mesh, index_of_edges_exactly_on_surface) :
           IsLoop(mesh, c)
ClosingFacetsCloseTheHull ==
  Updated /\ Loops =>
    /\ building # "failed"
    /\ ~need_to_update_closing_facet =>
         {{s[1], s[2]} : s \in SidesOf(Closing)} =
           {Ends(mesh, e) : e \in index_of_edges_exactly_on_surface}
=============================================================================
