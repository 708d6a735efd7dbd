CONSTANTS
  Corners <- MCCorners
  Hulls <- MCHulls
  Positions <- MCPositions
SPECIFICATION Spec
INVARIANTS
  TypeOK
  FacetsAreOnTheirSide
  TheHullStaysWatertight
  OpenOnlyOnTheSurface
  UpdateForgetsThePast
  ClosingFacetsCloseTheHull
