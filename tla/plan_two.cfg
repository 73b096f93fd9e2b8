CONSTANTS
  t1 = t1 t2 = t2 author = author
  Tasks = {t1, t2}
  Models = {author}
  Dialects = {"postgres", "mssql"}
  Home = "mssql"
  Returning = {"postgres"}
  Cascading = {"postgres"}
  Neutral = "none"
  MaxResets = 1
SPECIFICATION Spec
SYMMETRY Symmetry
INVARIANTS PlansAreOwn SnapshotsAreOwn UnstirredIsOwn
PROPERTY NewestFields
