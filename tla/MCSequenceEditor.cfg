SPECIFICATION Spec
CONSTANTS
    File <- MCFile
    Media <- MCMedia
    Timelines <- MCTimelines
    Second = 4
    Step = 2
    Slots = 12
    MaxLanding = 3
INVARIANTS
    Positioned
    AsPlaced
PROPERTIES
    Renders
CHECK_DEADLOCK FALSE
