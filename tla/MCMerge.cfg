SPECIFICATION Spec
CONSTANTS
    nullopt = nullopt
    Sources = 3
    Key = {1, 2}
    MaxSequence = 3
PROPERTIES
    ImplementsSortedStream
