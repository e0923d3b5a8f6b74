SPECIFICATION Spec
CONSTANTS
    Protocols = {"connect", "grpc", "grpcweb"}
    StreamTypes = {"unary", "client", "server", "bidi"}
    Limits = {"none", "send", "read"}
    MaxRequests = 2
    MaxResponses = 2
    MaxAgain = 2
INVARIANTS
    SuccessIsComplete
    ErrorIsHandlers
    EndIsDelivered
    RequestIsComplete
