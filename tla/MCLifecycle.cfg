SPECIFICATION FairSpec
INVARIANTS TypeOK StraysAreLate EndsWhatItBegan
PROPERTIES ProcessEnds
CHECK_DEADLOCK FALSE
