\* Three outputs, cut up in every way, with a user who types.
SPECIFICATION RelayFairSpec
CONSTANTS
    Scripts <- MCScripts
    ReadMax = 2
    PtyRoom = 3
    MaxTyped = 4
INVARIANTS OutputAccountedFor ResumeKnown
PROPERTIES PromptShown SessionEnds
\* A child that runs for ever may neither print nor read.
CHECK_DEADLOCK FALSE
