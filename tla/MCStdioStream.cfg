CONSTANTS
    Input <- MCInput
    MaxSize = 3
    W = 4
    MaxCalls = 5
    OwnsStream = TRUE

SPECIFICATION Spec
INVARIANT ReadsInOrder
INVARIANT PeekPreviews
PROPERTY EndIsFinal
CHECK_DEADLOCK FALSE
