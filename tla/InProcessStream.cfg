SPECIFICATION Spec
CONSTANTS
    MaxRequests = 2
    MaxResponses = 1
    Reusers <- NobodyReuses
INVARIANTS
    TypeOK
    NothingInFlight
    EndIsPublished
PROPERTIES
    NoSendAfterCloseSend
    ImplementsContract
    EndReleases
