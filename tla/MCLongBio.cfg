\* A user write of five blocks: four splits and the tail, every order of
\* their completions against the split loop, each piece ok or failed.
\* Once the user bio has ended nothing more happens, so deadlock is not
\* checked.
CONSTANT NParts = 5
SPECIFICATION Spec
INVARIANTS TypeOK EndsOnceAfterAllPieces ReportsFailure
PROPERTY UserBioEnds
CHECK_DEADLOCK FALSE
