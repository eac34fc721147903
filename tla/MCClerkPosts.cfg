SPECIFICATION FairClerkSpec
CONSTANTS
    proposal = proposal
    Suggestions <- One
    MaxDeliver = 3
    MaxGestures = 2
    MaxMishaps = 2
INVARIANTS NothingTwice SettledWasShown AnsweredIsFinal
PROPERTY GesturesSettle
CHECK_DEADLOCK FALSE
