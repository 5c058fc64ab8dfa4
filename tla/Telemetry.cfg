CONSTANTS
    Depth = 2
    MinGap <- MCMinGap
    MaxGap <- MCMaxGap
    Period = 2
    MaxAge = 11
SPECIFICATION Spec
INVARIANTS StaleBound MotorTruth
