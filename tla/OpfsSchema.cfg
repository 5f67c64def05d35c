\* One document through a release with a new schema and two reloads.
CONSTANTS
  Docs = {d1}
  Blobs = {}
  MaxRevision = 2
  MaxSchema = 2
  MaxReloads = 2
SPECIFICATION Spec
INVARIANT BodiesAreOfThisSchema
CHECK_DEADLOCK FALSE
