------------------------------ MODULE ErrorWire ------------------------------
(***************************************************************************)
(* How an error (its code, message and details) goes through the           *)
(* protocols: as JSON in Connect; as a status, a percent-encoded message   *)
(* and a base64 status message in gRPC and gRPC-Web.                       *)
(*                                                                         *)
(* A code is its number: zero is that of an error that was given none, 17  *)
(* stands for those that are not canonical.  A message is a sequence of    *)
(* bytes, a detail the number of its bytes.                                *)
(***************************************************************************)
EXTENDS Integers, Sequences

CONSTANTS
    Bytes,        \* the bytes of messages
    MaxMessage    \* bound: the length of a message

ASSUME BytesAssumption == Bytes \subseteq 0 .. 255 /\ MaxMessage \in Nat

\* A detail whose type is not UTF-8: Protobuf refuses it, JSON changes it.
BadDetail == -1
ChangedDetail == -2

CodeNames ==
    <<"canceled", "unknown", "invalid_argument", "deadline_exceeded", "not_found",
      "already_exists", "permission_denied", "resource_exhausted", "failed_precondition",
      "aborted", "out_of_range", "unimplemented", "internal", "unavailable", "data_loss",
      "unauthenticated">>
Canonical == DOMAIN CodeNames
CodeNamed(name) == CHOOSE c \in Canonical : CodeNames[c] = name

\* The error of a code, without message or details; no error; nothing yet.
Coded(code) == [code |-> code, message |-> <<>>, details |-> <<>>]
Plain(name) == Coded(CodeNamed(name))
NoError == Coded(-1)
Nothing == Coded(-2)

\* What a handler may fail with: any code, any message with and without a detail,
\* any details.
Errors ==
    {Coded(code) : code \in 0 .. 17}
    \cup [code : {5}, message : UNION {[1 .. n -> Bytes] : n \in 0 .. MaxMessage},
          details : {<<>>, <<1>>}]
    \cup [code : {5}, message : {<<>>},
          details : UNION {[1 .. n -> {BadDetail} \cup 0 .. 3] : n \in 1 .. 2}]

\* Fault: the code is taken as it is stored.
CodeStored(e) == e.code

\* Error.Code: an error that was given no code is not a success.
Code(e) == IF e.code = 0 THEN CodeNamed("unknown") ELSE e.code

\* An error on the wire: its code as text in Connect, as a number in gRPC, where zero
\* is success.
NoText == [name |-> "none", number |-> 0]
Success == [code |-> 0, text |-> NoText, message |-> <<>>, details |-> <<>>, status |-> <<>>]

\* What a loop over a text writes: a piece in every turn.
Written(pieces) ==
    LET upto[n \in 0 .. Len(pieces)] == IF n = 0 THEN <<>> ELSE upto[n - 1] \o pieces[n]
    IN  upto[Len(pieces)]

-----------------------------------------------------------------------------
(* Connect.                                                                *)

\* Code.String: the name of a canonical code, code_<number> of another.
String(c) ==
    IF c \in Canonical THEN [name |-> CodeNames[c], number |-> 0]
    ELSE [name |-> "code", number |-> c]

\* Code.UnmarshalText; zero when the text is not that of a code.
UnmarshalText(text) ==
    IF text.name # "code" THEN CodeNamed(text.name)
    ELSE IF text.number \in Canonical THEN 0 ELSE text.number

\* encoding/json replaces what is not UTF-8 (of characters of up to two bytes).
ToJSON(text) ==
    LET Continues(b) == b \in 128 .. 191
        Leads(b) == b \in 194 .. 223
        whole(i) == \/ text[i] < 128
                    \/ Leads(text[i]) /\ i < Len(text) /\ Continues(text[i + 1])
                    \/ Continues(text[i]) /\ i > 1 /\ Leads(text[i - 1])
    IN  Written([i \in DOMAIN text |-> IF whole(i) THEN <<text[i]>> ELSE <<239, 191, 189>>])

\* base64 without padding: the number of characters of n bytes, and back.  The
\* decoder that knows padding only takes whole groups of four.
EncodeBinaryHeader(n) == (4 * n + 2) \div 3

\* Fault: the padding-aware decoder is used for every value; -1 is its error.
DecodeBinaryHeaderPadded(chars) == IF chars % 4 # 0 THEN -1 ELSE 3 * (chars \div 4)

DecodeBinaryHeader(chars) ==
    IF chars % 4 # 0 THEN IF chars % 4 = 1 THEN -1 ELSE (3 * chars) \div 4
    ELSE 3 * (chars \div 4)

\* connectWireDetail.MarshalJSON and UnmarshalJSON.
MarshalDetail(detail) ==
    IF detail = BadDetail THEN ChangedDetail ELSE EncodeBinaryHeader(detail)
UnmarshalDetail(wire) ==
    IF wire = ChangedDetail THEN ChangedDetail ELSE DecodeBinaryHeader(wire)

newConnectWireError(e) ==
    [Success EXCEPT !.text = String(Code(e)), !.message = ToJSON(e.message),
                    !.details = [i \in DOMAIN e.details |-> MarshalDetail(e.details[i])]]

\* connectWireError.UnmarshalJSON and asError: a code that is not canonical is
\* unknown.  Details that cannot be decoded spoil the whole error: then the HTTP
\* status of a unary response, or "internal" of a stream, is what the client has.
asError(wire, otherwise) ==
    LET code == UnmarshalText(wire.text)
        details == [i \in DOMAIN wire.details |-> UnmarshalDetail(wire.details[i])]
    IN  IF \E i \in DOMAIN details : details[i] = -1 THEN Plain(otherwise)
        ELSE [code |-> IF code \in Canonical THEN code ELSE CodeNamed("unknown"),
              message |-> wire.message, details |-> details]

-----------------------------------------------------------------------------
(* gRPC and gRPC-Web.                                                      *)

Percent == 37
upperhex(n) == IF n < 10 THEN 48 + n ELSE 55 + n

\* Fault: '%' is a printable character like any other.
grpcShouldEscapeUnprintable(char) == char < 32 \/ char > 126

grpcShouldEscape(char) == char < 32 \/ char > 126 \/ char = Percent

grpcPercentEncode(msg) ==
    Written([i \in DOMAIN msg |->
        IF grpcShouldEscape(msg[i])
        THEN <<Percent, upperhex(msg[i] \div 16), upperhex(msg[i] % 16)>>
        ELSE <<msg[i]>>])

isHex(char) == char \in 48 .. 57 \cup 97 .. 102 \cup 65 .. 70
unhex(char) ==
    CASE char \in 48 .. 57 -> char - 48
      [] char \in 97 .. 102 -> char - 87
      [] char \in 65 .. 70 -> char - 55

\* An escape is a '%' and two hex digits, and needs all three of them.
validateHex(input, i) ==
    i + 2 <= Len(input) /\ isHex(input[i + 1]) /\ isHex(input[i + 2])

\* grpcPercentDecode; Undecodable when an escape is not one.
Undecodable == <<-1>>
grpcPercentDecode(input) ==
    LET rest[i \in 1 .. Len(input) + 1] ==
          IF i > Len(input) THEN <<>>
          ELSE IF input[i] # Percent THEN <<input[i]>> \o rest[i + 1]
          ELSE IF ~validateHex(input, i) THEN Undecodable
          ELSE <<16 * unhex(input[i + 1]) + unhex(input[i + 2])>> \o rest[i + 3]
    IN  IF \E i \in DOMAIN rest[1] : rest[1][i] = -1 THEN Undecodable ELSE rest[1]

\* grpcMarshalStatus: the number of bytes of the google.rpc.Status (a tag and a
\* length, or a value, for every field that is not empty), in base64; -1 when a
\* detail cannot be marshaled.
grpcMarshalStatus(e) ==
    LET bytes[n \in 0 .. Len(e.details)] ==
          IF n = 0 THEN 0 ELSE bytes[n - 1] + 2 + e.details[n]
    IN  IF \E i \in DOMAIN e.details : e.details[i] = BadDetail THEN -1
        ELSE 2 + (IF e.message = <<>> THEN 0 ELSE 2 + Len(e.message)) + bytes[Len(e.details)]

\* grpcErrorToTrailer: the status goes along only for the details.
grpcErrorToTrailer(e) ==
    LET size == grpcMarshalStatus(e)
        coded == [e EXCEPT !.code = Code(e)]
    IN  IF e.details # <<>> /\ size = -1
        THEN [Success EXCEPT !.code = CodeNamed("internal")]
        ELSE [Success EXCEPT
                !.code = Code(e), !.message = grpcPercentEncode(e.message),
                !.status = IF e.details = <<>> THEN <<>>
                           ELSE <<[chars |-> EncodeBinaryHeader(size), of |-> coded]>>]

\* grpcUnmarshalStatus of what the status was marshaled to.
grpcUnmarshalStatus(status, size) == IF size = -1 THEN Plain("internal") ELSE status.of

\* Fault: the headers are preferred to the status.
grpcErrorForTrailerHeaders(trailer) ==
    LET message == grpcPercentDecode(trailer.message)
    IN  IF trailer.code = 0 THEN NoError
        ELSE IF message = Undecodable THEN Plain("internal")
        ELSE [code |-> trailer.code, message |-> message, details |-> <<>>]

\* grpcErrorForTrailer: a status of zero is a success; what the status message says
\* is preferred to the headers.
grpcErrorForTrailer(trailer) ==
    LET message == grpcPercentDecode(trailer.message)
    IN  IF trailer.code = 0 THEN NoError
        ELSE IF message = Undecodable THEN Plain("internal")
        ELSE IF trailer.status = <<>>
        THEN [code |-> trailer.code, message |-> message, details |-> <<>>]
        ELSE grpcUnmarshalStatus(trailer.status[1], DecodeBinaryHeader(trailer.status[1].chars))

\* Spaces around the value of a header do not survive HTTP/1, nor the trailers that
\* gRPC-Web writes into the body.
TrimSpace(text) ==
    LET kept == {i \in DOMAIN text : text[i] # 32}
    IN  IF kept = {} THEN <<>>
        ELSE SubSeq(text, CHOOSE i \in kept : \A j \in kept : i <= j,
                          CHOOSE i \in kept : \A j \in kept : i >= j)
=============================================================================
