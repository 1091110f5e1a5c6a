SPECIFICATION Spec
CONSTANT size = 4
INVARIANTS TypeOK NoErrorPath RefusedOnlyWhenOut ShownAreOut
PROPERTIES FreeListRefined
