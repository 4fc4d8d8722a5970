SPECIFICATION FairSpec
CONSTANTS
  watch = watch
  etl = etl
  q1 = q1
  q2 = q2
  d1 = d1
  d2 = d2
  d3 = d3
  None = None
  Reloader = {watch, etl}
  Watcher = watch
  Query = {q1, q2}
  Database = {d1, d2, d3}
  MaxVersion = 3
INVARIANTS IInv
PROPERTIES EventuallyLatest
