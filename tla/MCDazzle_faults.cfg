SPECIFICATION Spec
CONSTANTS
    nullopt = nullopt
    Key = {1, 2}
    Value = {"b"}
    Pick <- NarrowPick
    SizeBytes <- FileBytes
    ApproximateSize <- MemtableBytes
    MemtableSize = 1
    Faults = {"append", "sync", "wal_create", "wal_remove", "wal_read",
              "sst_write", "sst_sync", "sst_read", "unlink"}
    MaxSst = 4
    MaxWal = 3
    MaxLsn = 3
INVARIANTS
    TypeOK
    PublishedFilesReadable
    LsnAboveDurable
CHECK_DEADLOCK FALSE
