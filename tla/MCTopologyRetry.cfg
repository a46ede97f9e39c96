CONSTANTS
    MaxChanges = 1
    MaxOutages = 1
SPECIFICATION TopologySpec
PROPERTIES WatchComesBack
CHECK_DEADLOCK FALSE
