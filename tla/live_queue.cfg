\* Every row of the queue and every orphan row of the store settles; no process ends.
SPECIFICATION FairSpec
CONSTANT None = None
PROPERTY RowsSettle
CHECK_DEADLOCK FALSE
