\* Every history of four revisions, at every revision of the database
SPECIFICATION WalkSpec
CONSTANTS
  Revisions = {1, 2, 3, 4}
  MaxParents = 2
  Root = Root
  Newer = Newer
INVARIANTS WalkTypeOK PendingIsUnapplied
PROPERTIES WalkEnds
CHECK_DEADLOCK FALSE
