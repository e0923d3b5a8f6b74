SPECIFICATION Spec
CONSTANTS
    MaxInt = 3
    Bytes = {32, 37, 50, 195, 169}
    MaxMessage = 2
    Codecs = {"proto", "json"}
    Compressors = {gzip, zstd}
    Protocols = {"connect", "grpc", "grpcweb"}
    StreamTypes = {"unary", "client", "server", "bidi"}
SYMMETRY CompressorSymmetry
INVARIANTS
    MessageIsWhole
    DecisionIsTold
    ErrorIsWhole
