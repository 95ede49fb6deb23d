CONSTANTS
    MaxSize = 1
    MaxAge = 1
    MaxLines = 3
    MaxSeconds = 1
SPECIFICATION Spec
INVARIANT NothingIsLost
