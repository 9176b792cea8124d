CONSTANTS
    Original <- MCOriginal
    Largest <- MCLargest
    Kinds <- MCKinds
    MaxTrouble = 2
    Point = 64
    Candidates <- MCCandidates
    Center <- MCCenter
    Typical <- MCTypical
    MaxDistance = 16
    Systems <- MCSystems
    Elsewhere <- MCElsewhere
    MaxMishaps = 1

SPECIFICATION MeasuringSpec

INVARIANTS
    RestoredAtTheEnd
    LearnedIsTrue
    SearchIsSound
    FoundIsLeast

PROPERTY MeasuringEnds

CHECK_DEADLOCK FALSE
