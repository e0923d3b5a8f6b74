SPECIFICATION Spec
CONSTANTS
    StreamTypes = {"client", "server", "bidi"}
    Protocols = {"connect", "grpc"}
    MaxSends = 1
    MaxMessages = 2
INVARIANTS
    BodyReleased
    EndIsTruthful
    SendErrsOutAfterEnd
PROPERTIES
    ResponseIsFinal
    EndReleases
