SPECIFICATION Spec
CONSTANTS
    File <- MCFile
    Media <- MCMedia
    Timelines <- ToTheEnd
    Second = 4
    Step = 2
    Slots = 12
    MaxLanding = 3
INVARIANTS
    PictureAsked
CHECK_DEADLOCK FALSE
