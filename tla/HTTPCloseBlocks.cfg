SPECIFICATION Spec
CONSTANTS
    StreamTypes = {"bidi"}
    Protocols = {"connect"}
    MaxSends = 1
    MaxMessages = 1
PROPERTY CloseUnblocksReceive
