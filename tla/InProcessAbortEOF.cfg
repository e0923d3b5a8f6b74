SPECIFICATION Spec
CONSTANTS
    MaxRequests = 1
    MaxResponses = 1
    Reusers <- NobodyReuses
INVARIANT EOFIsHalfClose
