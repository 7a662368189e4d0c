SPECIFICATION UpgradeSpec
CONSTANTS
    ImageSize = 2
    SlotSize = 3
    MaxSize = 4
INVARIANT SuccessMeansUpgraded
