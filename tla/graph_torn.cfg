SPECIFICATION MCSpec
CONSTANTS
  c1 = c1
  c2 = c2
  m1 = m1
  Instances = {i1, i2}
  NoInstance = NoInstance
  Columns = {c1, c2}
  Catalogs <- MCCatalogs
  RelationOf <- MCRelationOf
  BaseTables = {"T", "U"}
  ForeignKeys <- MCForeignKeys
  Metrics = {m1}
  Sources <- MCSources
  Builders = {b1}
  Deep = deep
  Requests = {r1}
  Copies = 4
  TopK = 1
  MaxAlters = 0
  MaxFailures = 1

PROPERTIES FailedRefreshKeepsGraph
CHECK_DEADLOCK FALSE
