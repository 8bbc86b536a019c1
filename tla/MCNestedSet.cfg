CONSTANTS
  Nodes = {1, 2, 3}
  NoParent = NoParent
SPECIFICATION Spec
INVARIANTS WellNested ReadsAgree CheckTells
PROPERTIES ImplementsForest
