SPECIFICATION Spec
CONSTANTS
    nullopt = nullopt
    Key = {1, 2, 3, 4}
    EntrySize = {1, 2, 3, 5}
    MAX_PAGING_SIZE_BYTES = 4
    FilterBits = 10
    num_hashes = 2
    Hash1 <- SmallHash1
    Hash2 <- SmallHash2
    MaxSequence = 2
CHECK_DEADLOCK FALSE
INVARIANT
    IteratorYieldsWhatWasAdded
