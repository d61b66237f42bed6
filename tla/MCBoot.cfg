CONSTANTS
  IfAtEntry = {TRUE, FALSE}
  E801 <- MCE801
  Ext88 <- MCExt88
  NULL = NULL
  WaitersLinked = {TRUE, FALSE}
  KernelSize <- MCKernelSize
  LoaderRead <- MCLoaderRead
  KernelRead <- MCKernelRead
  Address <- MCAddress
  EntryLow <- MCEntryLow
  Beyond <- MCBeyond
  Byte = 4
  Nibble = 2
  SectorWords = 2
  Found = {"DRQ", "ERR"}
  Between = {"DRQ", "BSY"}
SPECIFICATION FairSpec
CHECK_DEADLOCK FALSE
INVARIANTS TablesRight NothingLost InterruptsServed PoolsSound ReadsSectors
PROPERTY ClockTicks
