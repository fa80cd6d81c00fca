\* Values below, at, between and above the two sizes; two calls in flight.
CONSTANTS
    MaxValue = 5
    Sizes <- MCSizes
    PointsAre = 3
    MaxCalls = 2
SPECIFICATION FairSpec
INVARIANTS TypeOK ShownIsTarget FileIsEffective
PROPERTIES LookingIsHarmless TakesEffect
