---------------------------- MODULE DeadlineChain ----------------------------
(***************************************************************************)
(* How the deadline of a call travels down a chain of handlers that each   *)
(* call the next one on their own context: the client writes what is left  *)
(* of its deadline into a timeout header (connectClient.NewConn,           *)
(* grpcClient.WriteRequestHeader with grpcEncodeTimeout), and the handler  *)
(* derives its own deadline from it on arrival (SetTimeout,                *)
(* grpcParseTimeout).  Durations are whole nanoseconds; the units, the     *)
(* limits of the headers and of time.Duration are constants.               *)
(***************************************************************************)
EXTENDS Integers

CONSTANTS
    Size,          \* nanoseconds in a unit: n, u, m, S, M and H are 1 to 6
    MaxValue,      \* gRPC: values are strictly less (1e8 in the code)
    MaxMillis,     \* Connect: values are strictly less (10 digits, 1e10)
    MaxDuration,   \* math.MaxInt64
    Protocols,     \* subset of {"connect", "grpc"}: what the calls may use
    Budgets,       \* the deadlines the first handler may have
    MaxFlight,     \* bound on the time requests spend in flight
    Patience,      \* how long the model runs on after the deadline
    MaxHops        \* calls in the chain

Unit == 1..6
Nano == 1
Milli == 3
Hour == 6

ASSUME SizeAssumption ==
    /\ Size \in [Unit -> Nat \ {0}]
    /\ Size[Nano] = 1
    /\ \A u, v \in Unit : u < v => Size[u] < Size[v]

\* Every duration is less than MaxValue hours, and MaxValue of a smaller unit is
\* still a duration.
ASSUME LimitAssumption ==
    /\ MaxValue \in Nat \ {0, 1} /\ MaxMillis \in Nat /\ MaxDuration \in Nat
    /\ MaxDuration < MaxValue * Size[Hour]
    /\ \A u \in Unit \ {Hour} : MaxValue * Size[u] <= MaxDuration
    /\ MaxMillis * Size[Milli] <= MaxDuration

ASSUME ChainAssumption ==
    /\ Protocols \subseteq {"connect", "grpc"}
    /\ Budgets \subseteq 1..MaxDuration
    /\ MaxFlight \in Nat /\ Patience \in Nat /\ MaxHops \in Nat

VARIABLES
    pc,         \* "handler", "call" (header written), "wire" or "rejected"
    hop,        \* how many calls deep the chain is
    left,       \* what is left of the first deadline
    deadline,   \* "set" or "none": whether the handler's context has a deadline
    budget,     \* what is left of that one
    proto,      \* the protocol of the call being made
    num, unit,  \* its timeout header; unit 0 when there is none
    flight,     \* the time requests spent between the header and SetTimeout
    dropped     \* history: "yes" once a Connect client wrote no timeout header

vars == <<pc, hop, left, deadline, budget, proto, num, unit, flight, dropped>>

Init ==
    /\ pc = "handler" /\ hop = 0
    /\ left \in Budgets
    /\ deadline = "set" /\ budget = left
    /\ proto \in Protocols
    /\ num = 0 /\ unit = 0
    /\ flight = 0 /\ dropped = "no"

-----------------------------------------------------------------------------
(* The codec.                                                              *)

\* Fault: the bound of the unit itself is taken for one that fits.
grpcUnitInclusive(t) ==
    CHOOSE u \in Unit :
      /\ u = Hour \/ t <= MaxValue * Size[u]
      /\ \A v \in Unit : v < u => t > MaxValue * Size[v]

\* The smallest unit in which the timeout is less than MaxValue; hours otherwise.
grpcUnit(t) ==
    CHOOSE u \in Unit :
      /\ u = Hour \/ t < MaxValue * Size[u]
      /\ \A v \in Unit : v < u => t >= MaxValue * Size[v]

\* Fault: the division rounds up.
grpcEncodeValueUp(t) == IF t <= 0 THEN 0 ELSE (t \div Size[grpcUnit(t)]) + 1

\* Fault: a timeout that is over is encoded like any other.
grpcEncodeValueUnguarded(t) == t \div Size[grpcUnit(t)]

\* The number grpcEncodeTimeout writes: the timeout in the unit, rounded down.
grpcEncodeValue(t) == IF t <= 0 THEN 0 ELSE t \div Size[grpcUnit(t)]

\* The unit it writes; "0n" for a timeout that is over.
grpcEncodeUnit(t) == IF t <= 0 THEN Nano ELSE grpcUnit(t)

\* Fault: one hour less.
grpcTimeoutMaxHoursLess == MaxDuration \div Size[Hour] - 1

\* How many hours fit into a time.Duration.
grpcTimeoutMaxHours == MaxDuration \div Size[Hour]

\* What grpcParseTimeout makes of n in unit u: a timeout, no timeout, or an error.
grpcParseResult(n, u) ==
    IF n > MaxValue - 1 THEN "rejected"
    ELSE IF u = Hour /\ n > grpcTimeoutMaxHours THEN "none"
    ELSE "set"

\* Whole milliseconds of a Connect header; none when there is less than one left
\* or more than ten digits.
connectMillis(t) == IF t <= 0 THEN 0 ELSE t \div Size[Milli]
connectWrites(t) == 0 < connectMillis(t) /\ connectMillis(t) < MaxMillis

-----------------------------------------------------------------------------
(* The chain.                                                              *)

\* Time passes for every deadline.
Elapse ==
    /\ left > -Patience
    /\ pc = "handler" \/ (pc \in {"call", "wire"} /\ flight < MaxFlight)
    /\ left' = left - 1
    /\ budget' = IF deadline = "set" THEN budget - 1 ELSE budget
    /\ flight' = IF pc = "handler" THEN flight ELSE flight + 1
    /\ UNCHANGED <<pc, hop, deadline, proto, num, unit, dropped>>

\* A call of the handler writes its timeout header.
connectNewConn ==
    /\ pc = "handler" /\ hop < MaxHops /\ "connect" \in Protocols
    /\ pc' = "call" /\ proto' = "connect"
    /\ IF deadline = "set" /\ connectWrites(budget)
       THEN num' = connectMillis(budget) /\ unit' = Milli
       ELSE num' = 0 /\ unit' = 0
    /\ dropped' = IF unit' = 0 THEN "yes" ELSE dropped
    /\ UNCHANGED <<hop, left, deadline, budget, flight>>

grpcNewConn ==
    /\ pc = "handler" /\ hop < MaxHops /\ "grpc" \in Protocols
    /\ pc' = "call" /\ proto' = "grpc"
    /\ IF deadline = "set"
       THEN num' = grpcEncodeValue(budget) /\ unit' = grpcEncodeUnit(budget)
       ELSE num' = 0 /\ unit' = 0
    /\ UNCHANGED <<hop, left, deadline, budget, flight, dropped>>

\* The request leaves only while the caller's context is not done.
Send ==
    /\ pc = "call"
    /\ deadline = "set" => budget > 0
    /\ pc' = "wire"
    /\ UNCHANGED <<hop, left, deadline, budget, proto, num, unit, flight, dropped>>

\* SetTimeout of the next handler, on arrival.
connectSetTimeout ==
    /\ pc = "wire" /\ proto = "connect"
    /\ hop' = hop + 1
    /\ IF unit # 0 /\ num >= MaxMillis
       THEN pc' = "rejected" /\ UNCHANGED <<deadline, budget>>
       ELSE /\ pc' = "handler"
            /\ deadline' = IF unit = 0 THEN "none" ELSE "set"
            /\ budget' = IF unit = 0 THEN 0 ELSE num * Size[Milli]
    /\ UNCHANGED <<left, proto, num, unit, flight, dropped>>

grpcSetTimeout ==
    /\ pc = "wire" /\ proto = "grpc"
    /\ hop' = hop + 1
    /\ LET result == IF unit = 0 THEN "none" ELSE grpcParseResult(num, unit)
       IN  IF result = "rejected"
           THEN pc' = "rejected" /\ UNCHANGED <<deadline, budget>>
           ELSE /\ pc' = "handler"
                /\ deadline' = result
                /\ budget' = IF result = "set" THEN num * Size[unit] ELSE 0
    /\ UNCHANGED <<left, proto, num, unit, flight, dropped>>

Next ==
    \/ Elapse
    \/ connectNewConn \/ grpcNewConn
    \/ Send
    \/ connectSetTimeout \/ grpcSetTimeout

Spec == Init /\ [][Next]_vars

-----------------------------------------------------------------------------
(* Properties.                                                             *)

\* Every variable has its type; a budget never leaves time.Duration.
TypeOK ==
    /\ pc \in {"handler", "call", "wire", "rejected"}
    /\ hop \in Nat
    /\ left \in Int /\ left <= MaxDuration
    /\ deadline \in {"set", "none"}
    /\ budget \in Int /\ budget <= MaxDuration
    /\ proto \in {"connect", "grpc"}
    /\ num \in Nat
    /\ unit \in {0} \cup Unit
    /\ flight \in Nat
    /\ dropped \in {"yes", "no"}

\* However many hops round it and re-encode it, the deadline a handler runs with
\* ends no later than the first one, but for the time the requests were in flight.
NeverExtended == deadline = "set" => budget <= left + flight

\* No timeout header a client writes is refused by SetTimeout as malformed.
NeverRejected == pc # "rejected"

\* A deadline is lost on the way only by a Connect client that writes none, for
\* less than a millisecond or for eleven digits of them; gRPC never loses one, at
\* any bound of a unit and at the hours that fit a time.Duration.
DeadlineKept == deadline = "set" \/ dropped = "yes"
=============================================================================
