\* A provider that lists a title again after it was pruned.
SPECIFICATION CatalogSpec
CONSTANTS
  Channel = {k1}
  Title = {t1, t2}
  Imported = {k1, t1, t2}
  Sync = {s1, s2}
  Rollback = {b1}
  Kinds = {"xtream"}
  CatalogHazards = {"relist"}
  MaxOccurred = 1
INVARIANT NeverEmptied
CHECK_DEADLOCK FALSE
