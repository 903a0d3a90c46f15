CONSTANTS
    MaxArms = 2
    MaxRows = 1
    MaxOlder = 1
SPECIFICATION FairSpec
INVARIANT SomeoneReleases
PROPERTIES RowsShown ArmOutlives FlagDrops
CHECK_DEADLOCK FALSE
