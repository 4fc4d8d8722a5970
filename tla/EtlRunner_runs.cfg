SPECIFICATION FairRunnerSpec
CONSTANTS
  cli = cli
  t1 = t1
  t2 = t2
  service = service
  None = None
  Builder = {cli, t1, t2}
  DotNet = {cli}
  Server = {service}
  TaskOf <- OneService
  MaxOrder = 1
  MaxFailures = 2
INVARIANTS RInv GoodRunIsFresh
PROPERTIES ImplementsWarehouse AllOrNothing EventuallyPublished EveryRunEnds
