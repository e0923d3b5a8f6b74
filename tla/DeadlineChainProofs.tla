------------------------- MODULE DeadlineChainProofs -------------------------
(***************************************************************************)
(* Proofs about DeadlineChain and CallErrors, for all units, limits and    *)
(* chains.                                                                 *)
(***************************************************************************)
EXTENDS CallErrors, TLAPS

\* Division rounds down, by less than the divisor.
LEMMA Division ==
    ASSUME NEW t \in Nat, NEW s \in Nat \ {0}
    PROVE  /\ t \div s \in Nat
           /\ (t \div s) * s <= t
           /\ t < (t \div s) * s + s
  OBVIOUS

\* Multiplication by a positive number is monotone.
LEMMA Monotone ==
    ASSUME NEW a \in Nat, NEW b \in Nat, NEW s \in Nat \ {0}
    PROVE  /\ a <= b => a * s <= b * s
           /\ a * s < b * s => a < b
  OBVIOUS

\* grpcEncodeTimeout finds a unit for every timeout, the timeout is less than
\* MaxValue of it, and at least MaxValue of every smaller one.
LEMMA UnitFound ==
    ASSUME NEW t \in 1..MaxDuration
    PROVE  /\ grpcUnit(t) \in Unit
           /\ t < MaxValue * Size[grpcUnit(t)]
           /\ \A v \in Unit : v < grpcUnit(t) => t >= MaxValue * Size[v]
<1> DEFINE Fits(u) == /\ u = Hour \/ t < MaxValue * Size[u]
                      /\ \A v \in Unit : v < u => t >= MaxValue * Size[v]
<1>1. \E u \in Unit : Fits(u)
  <2>1. \A v \in Unit : MaxValue * Size[v] \in Int
    BY SizeAssumption, LimitAssumption
  <2> QED  BY <2>1 DEF Unit, Hour
<1>2. grpcUnit(t) \in Unit /\ Fits(grpcUnit(t))
  BY <1>1 DEF grpcUnit
<1>3. MaxDuration < MaxValue * Size[Hour]  BY LimitAssumption
<1>4. t < MaxValue * Size[grpcUnit(t)]
  <2>1. CASE grpcUnit(t) = Hour
    BY <1>3, <2>1, SizeAssumption, LimitAssumption DEF Hour, Unit
  <2>2. CASE grpcUnit(t) # Hour
    BY <1>2, <2>2
  <2> QED  BY <2>1, <2>2
<1> QED  BY <1>2, <1>4

\* What grpcParseTimeout reads from what grpcEncodeTimeout wrote is accepted, fits
\* into a time.Duration, and is the timeout rounded down to the unit.
THEOREM GRPCRoundTrip ==
    ASSUME NEW t \in 1..MaxDuration
    PROVE  LET n == grpcEncodeValue(t)
               u == grpcEncodeUnit(t)
           IN  /\ n \in Nat /\ u \in Unit
               /\ grpcParseResult(n, u) = "set"
               /\ n * Size[u] \in Nat
               /\ n * Size[u] <= t
               /\ t < n * Size[u] + Size[u]
<1> DEFINE n == grpcEncodeValue(t)
           u == grpcEncodeUnit(t)
           s == Size[u]
<1>1. u = grpcUnit(t) /\ n = t \div s
  BY DEF grpcEncodeValue, grpcEncodeUnit
<1>2. u \in Unit /\ t < MaxValue * s
  BY <1>1, UnitFound
<1>3. s \in Nat \ {0} /\ t \in Nat /\ MaxDuration \in Nat /\ MaxValue \in Nat
  BY <1>2, SizeAssumption, LimitAssumption
<1>4. n \in Nat /\ n * s <= t /\ t < n * s + s
  BY <1>1, <1>3, Division
<1>5. n * s \in Nat
  BY <1>3, <1>4
<1>6. n < MaxValue
  BY <1>2, <1>3, <1>4, Monotone
<1>7. u = Hour => n <= grpcTimeoutMaxHours
  <2> SUFFICES ASSUME u = Hour PROVE n <= grpcTimeoutMaxHours
    OBVIOUS
  <2> DEFINE h == grpcTimeoutMaxHours
  <2>1. h \in Nat /\ MaxDuration < h * s + s
    BY <1>3, Division DEF grpcTimeoutMaxHours
  <2>2. n * s < (h + 1) * s
    BY <1>3, <1>4, <1>5, <2>1
  <2>3. n < h + 1
    BY <1>3, <1>4, <2>1, <2>2, Monotone
  <2> QED  BY <1>4, <2>1, <2>3
<1>8. grpcParseResult(n, u) = "set"
  <2>1. ~(n > MaxValue - 1)  BY <1>3, <1>4, <1>6
  <2>2. ~(u = Hour /\ n > grpcTimeoutMaxHours)
    <3> grpcTimeoutMaxHours \in Nat
      BY LimitAssumption, SizeAssumption, Division DEF grpcTimeoutMaxHours, Unit, Hour
    <3> QED  BY <1>4, <1>7
  <2> QED  BY <2>1, <2>2 DEF grpcParseResult
<1> QED  BY <1>2, <1>4, <1>5, <1>8

\* The same for the milliseconds of Connect, when it writes them.
LEMMA ConnectRoundTrip ==
    ASSUME NEW t \in Int, t <= MaxDuration, connectWrites(t)
    PROVE  /\ connectMillis(t) \in Nat /\ connectMillis(t) < MaxMillis
           /\ connectMillis(t) * Size[Milli] \in Nat
           /\ connectMillis(t) * Size[Milli] <= t
           /\ t < connectMillis(t) * Size[Milli] + Size[Milli]
<1>1. t > 0 /\ connectMillis(t) = t \div Size[Milli] /\ connectMillis(t) < MaxMillis
  BY DEF connectWrites, connectMillis
<1>2. Size[Milli] \in Nat \ {0}
  BY SizeAssumption DEF Milli, Unit
<1>3. t \in Nat  BY <1>1
<1>4. /\ t \div Size[Milli] \in Nat /\ (t \div Size[Milli]) * Size[Milli] <= t
      /\ t < (t \div Size[Milli]) * Size[Milli] + Size[Milli]
  BY <1>2, <1>3, Division
<1>5. (t \div Size[Milli]) * Size[Milli] \in Nat
  BY <1>2, <1>4
<1> QED  BY <1>1, <1>4, <1>5

-----------------------------------------------------------------------------
(* The inductive invariant.  While a call is made, the header it carries   *)
(* is one SetTimeout accepts, and is worth no more than what is left of    *)
(* the first deadline and the time in flight; or the caller's own deadline *)
(* is over and Send will not let the request leave.                        *)

Carried == num * Size[unit]

HeaderAccepted ==
    pc \in {"call", "wire"} /\ unit # 0 =>
      /\ Carried \in Nat /\ Carried <= MaxDuration
      /\ proto = "grpc" => grpcParseResult(num, unit) = "set"
      /\ proto = "connect" => unit = Milli /\ num < MaxMillis

HeaderFits ==
    pc \in {"call", "wire"} /\ unit # 0 =>
      \/ Carried <= left + flight
      \/ pc = "call" /\ deadline = "set" /\ budget <= 0

IInv == TypeOK /\ NeverExtended /\ NeverRejected /\ HeaderAccepted /\ HeaderFits

LEMMA InitIInv == Init => IInv
  BY ChainAssumption, LimitAssumption
     DEF Init, IInv, TypeOK, NeverExtended, NeverRejected, HeaderAccepted, HeaderFits

LEMMA ElapseIInv == IInv /\ Elapse => IInv'
<1> SUFFICES ASSUME IInv, Elapse PROVE IInv'
  OBVIOUS
<1>1. Carried' = Carried  BY DEF Elapse, Carried
<1>2. pc \in {"handler", "call", "wire"}  BY DEF Elapse
<1>3. TypeOK'  BY LimitAssumption DEF IInv, TypeOK, Elapse
<1>4. NeverExtended'  BY DEF IInv, TypeOK, NeverExtended, Elapse
<1>5. NeverRejected'  BY DEF IInv, NeverRejected, Elapse
<1>6. HeaderAccepted'  BY <1>1 DEF IInv, HeaderAccepted, Elapse
<1>7. HeaderFits'
  <2> SUFFICES ASSUME pc \in {"call", "wire"}, unit # 0 PROVE HeaderFits'
    BY DEF HeaderFits, Elapse
  <2>1. left' + flight' = left + flight  BY DEF IInv, TypeOK, Elapse
  <2>2. deadline = "set" /\ budget <= 0 => budget' <= 0  BY DEF IInv, TypeOK, Elapse
  <2> QED  BY <1>1, <2>1, <2>2 DEF IInv, HeaderFits, Elapse
<1> QED  BY <1>3, <1>4, <1>5, <1>6, <1>7 DEF IInv

LEMMA ConnectNewConnIInv == IInv /\ connectNewConn => IInv'
<1> SUFFICES ASSUME IInv, connectNewConn PROVE IInv'
  OBVIOUS
<1>1. CASE deadline = "set" /\ connectWrites(budget)
  <2>1. num' = connectMillis(budget) /\ unit' = Milli
    BY <1>1 DEF connectNewConn
  <2>2. /\ num' \in Nat /\ num' < MaxMillis
        /\ Carried' \in Nat /\ Carried' <= budget
    BY <1>1, <2>1, ConnectRoundTrip DEF IInv, TypeOK, Carried
  <2>3. Carried' <= MaxDuration /\ Carried' <= left + flight
    BY <1>1, <2>2, LimitAssumption DEF IInv, TypeOK, NeverExtended
  <2>4. TypeOK'
    BY <2>1, <2>2 DEF IInv, TypeOK, connectNewConn, Milli, Unit
  <2>5. NeverExtended' /\ NeverRejected'
    BY DEF IInv, NeverExtended, NeverRejected, connectNewConn
  <2>6. HeaderAccepted' /\ HeaderFits'
    BY <2>1, <2>2, <2>3 DEF HeaderAccepted, HeaderFits, connectNewConn
  <2> QED  BY <2>4, <2>5, <2>6 DEF IInv
<1>2. CASE ~(deadline = "set" /\ connectWrites(budget))
  BY <1>2 DEF IInv, TypeOK, NeverExtended, NeverRejected, HeaderAccepted, HeaderFits,
              connectNewConn
<1> QED  BY <1>1, <1>2

LEMMA GRPCNewConnIInv == IInv /\ grpcNewConn => IInv'
<1> SUFFICES ASSUME IInv, grpcNewConn PROVE IInv'
  OBVIOUS
<1>1. NeverExtended' /\ NeverRejected'
  BY DEF IInv, NeverExtended, NeverRejected, grpcNewConn
<1>2. CASE deadline = "set" /\ budget > 0
  <2>1. num' = grpcEncodeValue(budget) /\ unit' = grpcEncodeUnit(budget)
    BY <1>2 DEF grpcNewConn
  <2>2. budget \in 1..MaxDuration
    BY <1>2, LimitAssumption DEF IInv, TypeOK
  <2>3. /\ num' \in Nat /\ unit' \in Unit
        /\ grpcParseResult(num', unit') = "set"
        /\ Carried' \in Nat /\ Carried' <= budget
    BY <2>1, <2>2, GRPCRoundTrip DEF Carried
  <2>4. Carried' <= MaxDuration /\ Carried' <= left + flight
    BY <1>2, <2>2, <2>3, LimitAssumption DEF IInv, TypeOK, NeverExtended
  <2>5. TypeOK'
    BY <2>3 DEF IInv, TypeOK, grpcNewConn
  <2>6. HeaderAccepted'
    <3>1. proto' = "grpc"  BY DEF grpcNewConn
    <3> QED  BY <2>3, <2>4, <3>1 DEF HeaderAccepted
  <2>7. HeaderFits'
    BY <2>4 DEF HeaderFits, grpcNewConn
  <2> QED  BY <1>1, <2>5, <2>6, <2>7 DEF IInv
<1>3. CASE deadline = "set" /\ ~(budget > 0)
  <2>1. budget <= 0  BY <1>3 DEF IInv, TypeOK
  <2>2. num' = 0 /\ unit' = Nano
    BY <1>3, <2>1 DEF grpcNewConn, grpcEncodeValue, grpcEncodeUnit
  <2>3. Size[Nano] = 1  BY SizeAssumption
  <2>4. Carried' = 0  BY <2>2, <2>3 DEF Carried
  <2>5. grpcParseResult(0, Nano) = "set"
    BY LimitAssumption DEF grpcParseResult, Nano, Hour
  <2>6. TypeOK'  BY <2>2 DEF IInv, TypeOK, grpcNewConn, Nano, Unit
  <2>7. HeaderAccepted'
    <3>1. proto' = "grpc"  BY DEF grpcNewConn
    <3> QED  BY <2>2, <2>4, <2>5, <3>1, LimitAssumption DEF HeaderAccepted
  <2>8. HeaderFits'
    BY <1>3, <2>1 DEF HeaderFits, grpcNewConn
  <2> QED  BY <1>1, <2>6, <2>7, <2>8 DEF IInv
<1>4. CASE deadline # "set"
  BY <1>1, <1>4 DEF IInv, TypeOK, HeaderAccepted, HeaderFits, grpcNewConn
<1> QED  BY <1>2, <1>3, <1>4

LEMMA SendIInv == IInv /\ Send => IInv'
<1> SUFFICES ASSUME IInv, Send PROVE IInv'
  OBVIOUS
<1>1. Carried' = Carried  BY DEF Send, Carried
<1>2. TypeOK' /\ NeverExtended' /\ NeverRejected'
  BY DEF IInv, TypeOK, NeverExtended, NeverRejected, Send
<1>3. HeaderAccepted'  BY <1>1 DEF IInv, HeaderAccepted, Send
<1>4. HeaderFits'  BY <1>1 DEF IInv, TypeOK, HeaderFits, Send
<1> QED  BY <1>2, <1>3, <1>4 DEF IInv

LEMMA ConnectSetTimeoutIInv == IInv /\ connectSetTimeout => IInv'
<1> SUFFICES ASSUME IInv, connectSetTimeout PROVE IInv'
  OBVIOUS
<1>1. ~(unit # 0 /\ num >= MaxMillis)
  BY LimitAssumption DEF IInv, TypeOK, HeaderAccepted, connectSetTimeout
<1>2. pc' = "handler"  BY <1>1 DEF connectSetTimeout
<1>3. unit # 0 => /\ unit = Milli /\ budget' = Carried
                  /\ Carried \in Nat /\ Carried <= MaxDuration
                  /\ Carried <= left + flight
  BY <1>1 DEF IInv, HeaderAccepted, HeaderFits, connectSetTimeout, Carried
<1>4. unit = 0 => deadline' = "none" /\ budget' = 0
  BY <1>1 DEF connectSetTimeout
<1>5. TypeOK'
  <2>1. budget' \in Int /\ budget' <= MaxDuration  BY <1>3, <1>4, LimitAssumption
  <2>2. deadline' \in {"set", "none"}  BY <1>1 DEF connectSetTimeout
  <2> QED  BY <1>2, <2>1, <2>2 DEF IInv, TypeOK, connectSetTimeout
<1>6. NeverExtended'  BY <1>3, <1>4 DEF NeverExtended, connectSetTimeout
<1> QED  BY <1>2, <1>5, <1>6 DEF IInv, NeverRejected, HeaderAccepted, HeaderFits

LEMMA GRPCSetTimeoutIInv == IInv /\ grpcSetTimeout => IInv'
<1> SUFFICES ASSUME IInv, grpcSetTimeout PROVE IInv'
  OBVIOUS
<1>1. unit # 0 => /\ grpcParseResult(num, unit) = "set"
                  /\ Carried \in Nat /\ Carried <= MaxDuration
                  /\ Carried <= left + flight
  BY DEF IInv, HeaderAccepted, HeaderFits, grpcSetTimeout
<1>2. pc' = "handler"  BY <1>1 DEF grpcSetTimeout
<1>3. unit # 0 => deadline' = "set" /\ budget' = Carried
  BY <1>1 DEF grpcSetTimeout, Carried
<1>4. unit = 0 => deadline' = "none" /\ budget' = 0
  BY DEF grpcSetTimeout
<1>5. TypeOK'
  <2>1. budget' \in Int /\ budget' <= MaxDuration  BY <1>1, <1>3, <1>4, LimitAssumption
  <2>2. deadline' \in {"set", "none"}  BY <1>3, <1>4
  <2> QED  BY <1>2, <2>1, <2>2 DEF IInv, TypeOK, grpcSetTimeout
<1>6. NeverExtended'  BY <1>1, <1>3, <1>4 DEF NeverExtended, grpcSetTimeout
<1> QED  BY <1>2, <1>5, <1>6 DEF IInv, NeverRejected, HeaderAccepted, HeaderFits

LEMMA NextIInv == IInv /\ [Next]_vars => IInv'
<1> SUFFICES ASSUME IInv, [Next]_vars PROVE IInv'
  OBVIOUS
<1>1. CASE Next
  BY <1>1, ElapseIInv, ConnectNewConnIInv, GRPCNewConnIInv, SendIInv,
     ConnectSetTimeoutIInv, GRPCSetTimeoutIInv DEF Next
<1>2. CASE UNCHANGED vars
  BY <1>2 DEF IInv, TypeOK, NeverExtended, NeverRejected, HeaderAccepted, HeaderFits,
              Carried, vars
<1> QED  BY <1>1, <1>2

\* A budget never leaves time.Duration, through whatever hops.
THEOREM TypeCorrect == Spec => []TypeOK
<1>1. IInv => TypeOK  BY DEF IInv
<1> QED  BY <1>1, InitIInv, NextIInv, PTL DEF Spec

\* The codecs and SetTimeout never give a handler more time than was left of the
\* first deadline, but for the time in flight.
THEOREM BudgetBounded == Spec => []NeverExtended
<1>1. IInv => NeverExtended  BY DEF IInv
<1> QED  BY <1>1, InitIInv, NextIInv, PTL DEF Spec

\* SetTimeout refuses no header that NewConn writes.
THEOREM HeadersAreAccepted == Spec => []NeverRejected
<1>1. IInv => NeverRejected  BY DEF IInv
<1> QED  BY <1>1, InitIInv, NextIInv, PTL DEF Spec

-----------------------------------------------------------------------------
(* No deadline is lost unless a Connect client writes none: until then     *)
(* every handler has one, and every call made carries a header.            *)

Carries ==
    dropped = "no" => deadline = "set" /\ (pc \in {"call", "wire"} => unit # 0)

\* grpcEncodeTimeout always writes a unit.
LEMMA GRPCWritesUnit == TypeOK => grpcEncodeUnit(budget) # 0
<1> SUFFICES ASSUME TypeOK PROVE grpcEncodeUnit(budget) # 0
  OBVIOUS
<1>1. CASE budget > 0
  <2>1. budget \in 1..MaxDuration  BY <1>1, LimitAssumption DEF TypeOK
  <2> QED  BY <2>1, GRPCRoundTrip DEF Unit
<1>2. CASE ~(budget > 0)
  BY <1>2 DEF grpcEncodeUnit, Nano, TypeOK
<1> QED  BY <1>1, <1>2

\* Every handler of a chain has a deadline when the first one has, unless a Connect
\* client wrote no timeout header on the way.
THEOREM DeadlineIsKept == Spec => []DeadlineKept
<1>1. Init => Carries  BY DEF Init, Carries
<1>2. IInv /\ Carries /\ [Next]_vars => Carries'
  <2> SUFFICES ASSUME IInv, Carries, [Next]_vars PROVE Carries'
    OBVIOUS
  <2>1. CASE Elapse  BY <2>1 DEF Elapse, Carries
  <2>2. CASE connectNewConn
    <3>1. dropped' = "no" => unit' # 0 /\ dropped = "no"  BY <2>2 DEF connectNewConn
    <3>2. deadline' = deadline  BY <2>2 DEF connectNewConn
    <3> QED  BY <3>1, <3>2 DEF Carries
  <2>3. CASE grpcNewConn
    <3>1. deadline = "set" => unit' # 0
      BY <2>3, GRPCWritesUnit DEF IInv, grpcNewConn
    <3>2. deadline' = deadline /\ dropped' = dropped  BY <2>3 DEF grpcNewConn
    <3> QED  BY <3>1, <3>2 DEF Carries
  <2>4. CASE Send  BY <2>4 DEF Send, Carries
  <2>5. CASE connectSetTimeout
    <3>1. ~(unit # 0 /\ num >= MaxMillis)
      BY <2>5, LimitAssumption DEF IInv, TypeOK, HeaderAccepted, connectSetTimeout
    <3> QED  BY <2>5, <3>1 DEF connectSetTimeout, Carries
  <2>6. CASE grpcSetTimeout
    <3>1. unit # 0 => grpcParseResult(num, unit) = "set"
      BY <2>6 DEF IInv, HeaderAccepted, grpcSetTimeout
    <3> QED  BY <2>6, <3>1 DEF grpcSetTimeout, Carries
  <2>7. CASE UNCHANGED vars  BY <2>7 DEF vars, Carries
  <2> QED  BY <2>1, <2>2, <2>3, <2>4, <2>5, <2>6, <2>7 DEF Next
<1>3. IInv /\ Carries => DeadlineKept  BY DEF IInv, TypeOK, Carries, DeadlineKept
<1> QED  BY <1>1, <1>2, <1>3, InitIInv, NextIInv, PTL DEF Spec

-----------------------------------------------------------------------------
(* The code a client is told.  What the wrappers see is tied to the        *)
(* deadlines: the handler's own, which came in the header, and the         *)
(* caller's, from which it was computed.                                   *)

CallTypeOK ==
    /\ op \in {"none", "send", "do", "body"}
    /\ step \in {"check", "wait", "context", "rst", "reader", "ready", "told"}
    /\ callerDeadline \in {"set", "none"}
    /\ callerBudget \in Int /\ callerBudget <= MaxDuration
    /\ ctxErr \in {"nil", "canceled", "deadline_exceeded"}
    /\ err \in Failure \cup {"none"}
    /\ early \in Int
    /\ late \in BOOLEAN

CallerIsDue == callerDeadline = "set" /\ callerBudget <= 0

\* The deadline in a header, and later the handler's own, is less than a unit
\* shorter than the caller's.
RoundsByLess ==
    /\ op = "none" /\ pc \in {"call", "wire"} /\ unit # 0 =>
         deadline = "set" /\ budget < Carried + Size[unit]
    /\ op # "none" /\ deadline = "set" =>
         unit # 0 /\ callerDeadline = "set" /\ callerBudget < budget + Size[unit]

\* How far duplexHTTPCall has come with the error.
InSteps ==
    /\ op = "none" => step = "wait" /\ ctxErr = "nil"
    /\ step \in {"check", "wait"} => err = "none" /\ code = "none" /\ early = Never /\ ~late
    /\ step \in {"check", "reader"} => op = "body"
    /\ step = "ready" => op \in {"send", "do"}
    /\ step = "context" => code = "none"
    /\ step \in {"context", "rst", "reader", "ready"} => err # "none"

\* What the context and the transport say is true, and stays so.
FailureIsTrue ==
    /\ ctxErr = "deadline_exceeded" => CallerIsDue
    /\ late => ctxErr # "nil"
    /\ early # Never => /\ err = "CANCEL" /\ callerDeadline = "set"
                        /\ callerBudget <= early /\ early < Size[unit]

\* And so is the code given to it, by whichever wrapper.
CodeSoFar ==
    /\ code = "deadline_exceeded" => CallerIsDue \/ err \in TimedOut
    /\ code = "canceled" => \/ ctxErr = "canceled" \/ err = "Canceled"
                            \/ err = "CANCEL" /\ (early # Never => 0 <= early)
    /\ early # Never /\ step \in {"reader", "ready", "told"} => code \in {"canceled", "deadline_exceeded"}
    /\ early # Never /\ step = "rst" => code \in {"none", "canceled", "deadline_exceeded"}
    /\ op = "body" /\ late /\ step \in {"rst", "reader", "told"} => code \in {"canceled", "deadline_exceeded"}
    /\ op = "send" /\ late /\ step = "told" => code \in {"canceled", "deadline_exceeded"}

CallInv == CallTypeOK /\ RoundsByLess /\ InSteps /\ FailureIsTrue /\ CodeSoFar

\* What CallErrors adds leaves the chain as it is: every step of it is a step of
\* the chain, or no step.
LEMMA CallStep == [CallNext]_callVars => [Next]_vars
<1> SUFFICES ASSUME [CallNext]_callVars PROVE [Next]_vars
  OBVIOUS
<1>1. CASE TimePasses  BY <1>1 DEF TimePasses, Next
<1>2. CASE Calls  BY <1>2 DEF Calls, Next
<1>3. CASE Arrives  BY <1>3 DEF Arrives, Next
<1>4. CASE TimerFires \/ CallerCancels  BY <1>4 DEF TimerFires, CallerCancels
<1>5. CASE ServerGivesUp \/ TransportFails
  BY <1>5 DEF ServerGivesUp, TransportFails, Fails
<1>6. CASE ReadChecks \/ ReadWraps \/ ReaderWraps
  BY <1>6 DEF ReadChecks, ReadWraps, ReaderWraps, Gives
<1>7. CASE makeRequest \/ sendUnary \/ blockUntilResponseReady
  BY <1>7 DEF makeRequest, sendUnary, blockUntilResponseReady, Gives
<1>8. CASE UNCHANGED callVars  BY <1>8 DEF callVars
<1> QED  BY <1>1, <1>2, <1>3, <1>4, <1>5, <1>6, <1>7, <1>8 DEF CallNext

\* A chain whose last call fails is a chain: what is proved of the deadlines holds
\* of it too.
THEOREM CallIsAChain == CallSpec => Spec
<1>1. CallInit => Init  BY DEF CallInit
<1> QED  BY <1>1, CallStep, PTL DEF CallSpec, Spec

LEMMA ChainIInv == CallSpec => []IInv
  BY CallIsAChain, InitIInv, NextIInv, PTL DEF Spec

LEMMA InitCallInv == CallInit => CallInv
<1> SUFFICES ASSUME CallInit PROVE CallInv
  OBVIOUS
<1>1. CallTypeOK
  <2>1. callerBudget \in Int /\ callerBudget <= MaxDuration /\ early \in Int
    BY LimitAssumption DEF CallInit, Never
  <2>2. late \in BOOLEAN  BY Zenon DEF CallInit
  <2> QED  BY <2>1, <2>2 DEF CallInit, CallTypeOK
<1>2. RoundsByLess /\ InSteps
  BY DEF CallInit, Init, RoundsByLess, InSteps
<1>3. FailureIsTrue /\ CodeSoFar
  BY DEF CallInit, FailureIsTrue, CodeSoFar
<1> QED  BY <1>1, <1>2, <1>3 DEF CallInv

\* A unit is a positive number of nanoseconds.
LEMMA SizeIsPositive == ASSUME TypeOK, unit # 0 PROVE Size[unit] \in Nat \ {0}
  BY SizeAssumption DEF TypeOK

LEMMA TimePassesCallInv == IInv /\ CallInv /\ TimePasses => CallInv'
<1> SUFFICES ASSUME IInv, CallInv, TimePasses PROVE CallInv'
  OBVIOUS
<1>1. /\ UNCHANGED <<op, step, err, code, early, late, ctxErr, callerDeadline>>
      /\ UNCHANGED <<pc, deadline, num, unit>>
  BY DEF TimePasses, Elapse, call
<1>2. budget \in Int /\ callerBudget \in Int /\ MaxDuration \in Int
  BY LimitAssumption DEF IInv, TypeOK, CallInv, CallTypeOK
<1>3. /\ budget' = IF deadline = "set" THEN budget - 1 ELSE budget
      /\ callerBudget' = IF callerDeadline = "set" THEN callerBudget - 1 ELSE callerBudget
  BY DEF TimePasses, Elapse
<1>4. budget' \in Int /\ callerBudget' \in Int /\ callerBudget' <= callerBudget
  BY <1>2, <1>3
<1>5. CallerIsDue => CallerIsDue'
  BY <1>1, <1>2, <1>4 DEF CallerIsDue
<1>6. CallTypeOK'
  BY <1>1, <1>2, <1>4 DEF CallInv, CallTypeOK
<1>7. RoundsByLess'
  <2>1. Carried' = Carried  BY <1>1 DEF Carried
  <2>2. pc \in {"call", "wire"} /\ unit # 0 => Carried \in Nat
    BY DEF IInv, HeaderAccepted
  <2>3. unit # 0 => Size[unit] \in Nat \ {0}
    BY SizeIsPositive DEF IInv
  <2>4. op' = "none" /\ pc' \in {"call", "wire"} /\ unit' # 0 =>
          deadline' = "set" /\ budget' < Carried' + Size[unit']
    BY <1>1, <1>2, <1>3, <2>1, <2>2, <2>3 DEF CallInv, RoundsByLess
  <2>5. op' # "none" /\ deadline' = "set" =>
          unit' # 0 /\ callerDeadline' = "set" /\ callerBudget' < budget' + Size[unit']
    BY <1>1, <1>2, <1>3, <2>3 DEF CallInv, RoundsByLess
  <2> QED  BY <2>4, <2>5 DEF RoundsByLess
<1>8. InSteps'
  BY <1>1 DEF CallInv, InSteps, Never
<1>9. FailureIsTrue'
  <2>1. early \in Int  BY DEF CallInv, CallTypeOK
  <2>2. callerBudget <= early => callerBudget' <= early'
    BY <1>1, <1>2, <1>4, <2>1
  <2> QED  BY <1>1, <1>5, <2>2 DEF CallInv, FailureIsTrue, Never
<1>10. CodeSoFar'
  BY <1>1, <1>5 DEF CallInv, CodeSoFar, Never
<1> QED  BY <1>6, <1>7, <1>8, <1>9, <1>10 DEF CallInv

\* The header of a call is written: it rounds the deadline down, by less than its
\* unit.
LEMMA HeaderRounds ==
    ASSUME IInv, connectNewConn \/ grpcNewConn, unit' # 0
    PROVE  deadline' = "set" /\ budget' < Carried' + Size[unit']
<1>1. budget \in Int /\ budget <= MaxDuration /\ MaxDuration \in Int
  BY LimitAssumption DEF IInv, TypeOK
<1>2. CASE connectNewConn
  <2>1. deadline = "set" /\ connectWrites(budget)
    BY <1>2 DEF connectNewConn
  <2>2. num' = connectMillis(budget) /\ unit' = Milli
    BY <1>2, <2>1 DEF connectNewConn
  <2>3. budget < connectMillis(budget) * Size[Milli] + Size[Milli]
    BY <1>1, <2>1, ConnectRoundTrip
  <2>4. deadline' = deadline /\ budget' = budget
    BY <1>2 DEF connectNewConn
  <2> QED  BY <2>1, <2>2, <2>3, <2>4 DEF Carried
<1>3. CASE grpcNewConn
  <2>1. deadline = "set"
    BY <1>3 DEF grpcNewConn
  <2>2. num' = grpcEncodeValue(budget) /\ unit' = grpcEncodeUnit(budget)
    BY <1>3, <2>1 DEF grpcNewConn
  <2>3. deadline' = deadline /\ budget' = budget
    BY <1>3 DEF grpcNewConn
  <2>4. CASE budget > 0
    <3>1. budget \in 1..MaxDuration  BY <1>1, <2>4
    <3>2. budget < grpcEncodeValue(budget) * Size[grpcEncodeUnit(budget)] + Size[grpcEncodeUnit(budget)]
      BY <3>1, GRPCRoundTrip
    <3> QED  BY <2>1, <2>2, <2>3, <3>2 DEF Carried
  <2>5. CASE ~(budget > 0)
    <3>1. budget <= 0  BY <1>1, <2>5
    <3>2. num' = 0 /\ unit' = Nano
      BY <2>2, <3>1 DEF grpcEncodeValue, grpcEncodeUnit
    <3>3. Size[Nano] = 1  BY SizeAssumption
    <3>4. Carried' = 0  BY <3>2, <3>3 DEF Carried
    <3> QED  BY <1>1, <2>1, <2>3, <3>1, <3>2, <3>3, <3>4
  <2> QED  BY <2>4, <2>5
<1> QED  BY <1>2, <1>3

LEMMA CallsCallInv == IInv /\ CallInv /\ Calls => CallInv'
<1> SUFFICES ASSUME IInv, CallInv, Calls PROVE CallInv'
  OBVIOUS
<1>1. /\ UNCHANGED <<op, step, err, code, early, late, ctxErr, callerDeadline, callerBudget>>
      /\ op = "none"
  BY DEF Calls, call, context
<1>2. CallTypeOK' /\ InSteps'
  BY <1>1 DEF CallInv, CallTypeOK, InSteps, Never
<1>3. RoundsByLess'
  <2>1. CASE connectNewConn \/ grpcNewConn
    BY <1>1, <2>1, HeaderRounds DEF RoundsByLess
  <2>2. CASE Send
    <3>1. Carried' = Carried  BY <2>2 DEF Send, Carried
    <3> QED  BY <1>1, <2>2, <3>1 DEF Send, CallInv, RoundsByLess
  <2> QED  BY <2>1, <2>2 DEF Calls
<1>4. FailureIsTrue' /\ CodeSoFar'
  BY <1>1 DEF CallInv, InSteps, FailureIsTrue, CodeSoFar, CallerIsDue, Never
<1> QED  BY <1>2, <1>3, <1>4 DEF CallInv

LEMMA ArrivesCallInv == IInv /\ CallInv /\ Arrives => CallInv'
<1> SUFFICES ASSUME IInv, CallInv, Arrives PROVE CallInv'
  OBVIOUS
<1>1. /\ UNCHANGED <<err, code, early, late, ctxErr, unit>>
      /\ op = "none" /\ step = "wait"
  BY DEF Arrives, context, connectSetTimeout, grpcSetTimeout, CallInv, InSteps
<1>2. pc' = "handler" /\ (deadline' = "set" => unit # 0 /\ budget' = Carried)
  <2>1. CASE connectSetTimeout
    <3>1. unit # 0 => unit = Milli /\ ~(num >= MaxMillis)
      BY <2>1, LimitAssumption DEF IInv, TypeOK, HeaderAccepted, connectSetTimeout
    <3> QED  BY <2>1, <3>1 DEF connectSetTimeout, Carried
  <2>2. CASE grpcSetTimeout
    <3>1. unit # 0 => grpcParseResult(num, unit) = "set"
      BY <2>2 DEF IInv, HeaderAccepted, grpcSetTimeout
    <3> QED  BY <2>2, <3>1 DEF grpcSetTimeout, Carried
  <2> QED  BY <2>1, <2>2 DEF Arrives
<1>3. unit # 0 => deadline = "set" /\ budget < Carried + Size[unit]
  <2>1. pc = "wire"  BY DEF Arrives, connectSetTimeout, grpcSetTimeout
  <2> QED  BY <1>1, <2>1 DEF CallInv, RoundsByLess
<1>4. CASE UNCHANGED <<context, op, step>>
  <2>1. UNCHANGED <<callerDeadline, callerBudget, op, step>>
    BY <1>4 DEF context
  <2>2. CallTypeOK' /\ InSteps'
    BY <1>1, <2>1 DEF CallInv, CallTypeOK, InSteps, Never
  <2>3. RoundsByLess'
    BY <1>1, <1>2, <2>1 DEF RoundsByLess
  <2>4. FailureIsTrue' /\ CodeSoFar'
    BY <1>1, <2>1 DEF CallInv, InSteps, FailureIsTrue, CodeSoFar, CallerIsDue, Never
  <2> QED  BY <2>2, <2>3, <2>4 DEF CallInv
<1>5. CASE /\ callerDeadline' = deadline /\ callerBudget' = budget
           /\ op' \in {"send", "do", "body"}
           /\ step' = IF op' = "body" THEN "check" ELSE "wait"
  <2>1. step' \in {"check", "wait"} /\ (step' = "check" => op' = "body") /\ op' # "none"
    BY <1>5
  <2>2. err' = "none" /\ code' = "none" /\ early' = Never /\ late' = FALSE
    BY <1>1 DEF CallInv, CallTypeOK, InSteps
  <2>3. ctxErr' = "nil"
    BY <1>1 DEF CallInv, InSteps
  <2>4. CallTypeOK'
    BY <1>1, <1>5, <2>1 DEF CallInv, CallTypeOK, IInv, TypeOK
  <2>5. InSteps'
    BY <2>1, <2>2, <2>3 DEF InSteps, Never
  <2>6. RoundsByLess'
    BY <1>1, <1>2, <1>3, <1>5, <2>1 DEF RoundsByLess
  <2>7. FailureIsTrue' /\ CodeSoFar'
    BY <2>1, <2>2, <2>3 DEF FailureIsTrue, CodeSoFar, Never
  <2> QED  BY <2>4, <2>5, <2>6, <2>7 DEF CallInv
<1> QED  BY <1>4, <1>5 DEF Arrives

LEMMA ContextCallInv == CallInv /\ (TimerFires \/ CallerCancels) => CallInv'
<1> SUFFICES ASSUME CallInv, TimerFires \/ CallerCancels PROVE CallInv'
  OBVIOUS
<1>1. /\ UNCHANGED <<op, step, err, code, early, late, callerDeadline, callerBudget>>
      /\ UNCHANGED <<pc, deadline, budget, num, unit>>
      /\ op # "none" /\ step # "told" /\ ctxErr = "nil"
  BY DEF TimerFires, CallerCancels, Watched, call, vars
<1>2. ctxErr' = "canceled" \/ (ctxErr' = "deadline_exceeded" /\ CallerIsDue)
  BY DEF TimerFires, CallerCancels, CallerIsDue
<1>3. CallerIsDue' = CallerIsDue  BY <1>1 DEF CallerIsDue
<1>4. CallTypeOK' /\ InSteps'
  BY <1>1, <1>2 DEF CallInv, CallTypeOK, InSteps, Never
<1>5. RoundsByLess'
  BY <1>1 DEF CallInv, RoundsByLess
<1>6. FailureIsTrue'
  BY <1>1, <1>2, <1>3 DEF CallInv, FailureIsTrue, Never
<1>7. CodeSoFar'
  BY <1>1, <1>2, <1>3 DEF CallInv, CodeSoFar, Never
<1> QED  BY <1>4, <1>5, <1>6, <1>7 DEF CallInv

LEMMA FailsCallInv == IInv /\ CallInv /\ (ServerGivesUp \/ TransportFails) => CallInv'
<1> SUFFICES ASSUME IInv, CallInv, ServerGivesUp \/ TransportFails PROVE CallInv'
  OBVIOUS
<1>1. PICK failure \in Failure :
        /\ Fails(failure)
        /\ \/ early' = early
           \/ /\ failure = "CANCEL" /\ early' = callerBudget
              /\ deadline = "set" /\ budget <= 0
  BY DEF ServerGivesUp, TransportFails, Failure, Reset
<1>2. /\ UNCHANGED <<op, code, ctxErr, callerDeadline, callerBudget>>
      /\ UNCHANGED <<pc, deadline, budget, num, unit>>
      /\ op # "none" /\ step = "wait"
      /\ step' = "context" /\ err' = failure /\ late' = (ctxErr # "nil")
  BY <1>1 DEF Fails, Watched, context, vars
<1>3. code = "none" /\ early = Never
  BY <1>2 DEF CallInv, InSteps
<1>4. CallerIsDue' = CallerIsDue  BY <1>2 DEF CallerIsDue
<1>5. late' \in BOOLEAN  BY <1>2, Zenon
<1>6. CallTypeOK'
  BY <1>1, <1>2, <1>5 DEF CallInv, CallTypeOK
<1>7. RoundsByLess'
  BY <1>2 DEF CallInv, RoundsByLess
<1>8. InSteps'
  BY <1>2, <1>3 DEF InSteps, Failure, Reset, TimedOut
<1>9. early' # Never => /\ failure = "CANCEL" /\ callerDeadline = "set"
                        /\ callerBudget <= early' /\ early' < Size[unit]
  <2> SUFFICES ASSUME early' # Never
               PROVE  /\ failure = "CANCEL" /\ callerDeadline = "set"
                      /\ callerBudget <= early' /\ early' < Size[unit]
    OBVIOUS
  <2>1. failure = "CANCEL" /\ early' = callerBudget /\ deadline = "set" /\ budget <= 0
    BY <1>1, <1>3
  <2>2. unit # 0 /\ callerDeadline = "set" /\ callerBudget < budget + Size[unit]
    BY <1>2, <2>1 DEF CallInv, RoundsByLess
  <2>3. Size[unit] \in Nat /\ budget \in Int /\ callerBudget \in Int
    BY <2>2, SizeIsPositive DEF IInv, TypeOK, CallInv, CallTypeOK
  <2> QED  BY <2>1, <2>2, <2>3
<1>10. FailureIsTrue'
  <2>1. Never' = Never  BY DEF Never
  <2>2. late' => ctxErr' # "nil"  BY <1>2
  <2>3. ctxErr' = "deadline_exceeded" => CallerIsDue'
    BY <1>2, <1>4 DEF CallInv, FailureIsTrue
  <2> QED  BY <1>2, <1>9, <2>1, <2>2, <2>3 DEF FailureIsTrue
<1>11. CodeSoFar'
  BY <1>2, <1>3 DEF CodeSoFar
<1> QED  BY <1>6, <1>7, <1>8, <1>10, <1>11 DEF CallInv

\* A wrapper gives the error a code: all that is left to show is that the code is
\* true, and that the next step is in order.
LEMMA GivesCallInv ==
    ASSUME CallInv, NEW c, NEW next, Gives(c, next),
           step # "told", op # "none",
           \/ step = "check" /\ next = "wait" /\ c = "none"
           \/ next = "told"
           \/ next = "rst" /\ step = "context"
           \/ next = "reader" /\ op = "body" /\ step = "rst"
           \/ next = "ready" /\ op \in {"send", "do"} /\ step = "rst",
           c = "deadline_exceeded" => CallerIsDue \/ err \in TimedOut,
           c = "canceled" => \/ ctxErr = "canceled" \/ err = "Canceled"
                             \/ err = "CANCEL" /\ (early # Never => 0 <= early),
           early # Never /\ next \in {"reader", "ready", "told"} => c \in {"canceled", "deadline_exceeded"},
           early # Never /\ next = "rst" => c \in {"none", "canceled", "deadline_exceeded"},
           op = "body" /\ late /\ next \in {"rst", "reader", "told"} => c \in {"canceled", "deadline_exceeded"},
           op = "send" /\ late /\ next = "told" => c \in {"canceled", "deadline_exceeded"}
    PROVE  CallInv'
<1>1. /\ UNCHANGED <<op, err, early, late, ctxErr, callerDeadline, callerBudget>>
      /\ UNCHANGED <<pc, deadline, budget, num, unit>>
      /\ code' = c /\ step' = next
  BY DEF Gives, context, vars
<1>2. CallerIsDue' = CallerIsDue /\ Never' = Never  BY <1>1 DEF CallerIsDue, Never
<1>3. CallTypeOK'
  BY <1>1 DEF CallInv, CallTypeOK
<1>4. RoundsByLess'
  BY <1>1 DEF CallInv, RoundsByLess
<1>5. InSteps'
  BY <1>1, <1>2 DEF CallInv, InSteps
<1>6. FailureIsTrue'
  BY <1>1, <1>2 DEF CallInv, FailureIsTrue
<1>7. CodeSoFar'
  BY <1>1, <1>2 DEF CodeSoFar
<1> QED  BY <1>3, <1>4, <1>5, <1>6, <1>7 DEF CallInv

\* What the context says is true of the deadline.
LEMMA ContextIsTrue ==
    ASSUME CallInv
    PROVE  /\ ctxErr # "nil" => ctxErr \in {"canceled", "deadline_exceeded"}
           /\ ctxErr = "deadline_exceeded" => CallerIsDue
  BY DEF CallInv, CallTypeOK, FailureIsTrue

\* wrapIfContextError repeats what the transport said of a context, whichever it was;
\* it says nothing of a reset.
LEMMA ContextErrorIsTrue ==
    ASSUME CallInv
    PROVE  LET c == wrapIfContextError(err)
           IN  /\ c \in {"none", "canceled", "deadline_exceeded"}
               /\ c = "deadline_exceeded" => CallerIsDue \/ err \in TimedOut
               /\ c = "canceled" => ctxErr = "canceled" \/ err = "Canceled"
               /\ early # Never => c = "none"
  BY DEF CallInv, FailureIsTrue, wrapIfContextError, TimedOut

\* wrapIfContextDone does, too, and it speaks whenever the context is done.
LEMMA ContextDoneIsTrue ==
    ASSUME CallInv
    PROVE  LET c == wrapIfContextDone(err)
           IN  /\ c \in {"none", "canceled", "deadline_exceeded"}
               /\ c = "deadline_exceeded" => CallerIsDue \/ err \in TimedOut
               /\ c = "canceled" => ctxErr = "canceled" \/ err = "Canceled"
               /\ ctxErr # "nil" => c # "none"
<1>1. CASE wrapIfContextError(err) # "none"
  BY <1>1, ContextErrorIsTrue DEF wrapIfContextDone
<1>2. CASE wrapIfContextError(err) = "none"
  BY <1>2, ContextIsTrue DEF wrapIfContextDone
<1> QED  BY <1>1, <1>2

\* wrapIfRSTError asks the clock about CANCEL: it says canceled of a server that
\* gave up only when the caller had time left.
LEMMA RSTErrorIsTrue ==
    ASSUME CallInv
    PROVE  LET c == wrapIfRSTError(err)
           IN  /\ c = "deadline_exceeded" => CallerIsDue
               /\ c = "canceled" => err = "CANCEL" /\ (early # Never => 0 <= early)
               /\ err = "CANCEL" => c \in {"canceled", "deadline_exceeded"}
<1>1. CASE err = "CANCEL"
  <2>1. wrapIfRSTError(err) = IF callerDeadline = "set" /\ callerBudget < 0
                              THEN "deadline_exceeded" ELSE "canceled"
    BY <1>1 DEF wrapIfRSTError
  <2>2. callerBudget \in Int /\ early \in Int
    BY DEF CallInv, CallTypeOK
  <2>3. early # Never => callerDeadline = "set" /\ callerBudget <= early
    BY DEF CallInv, FailureIsTrue
  <2> QED  BY <1>1, <2>1, <2>2, <2>3 DEF CallerIsDue
<1>2. CASE err # "CANCEL"
  BY <1>2 DEF wrapIfRSTError
<1> QED  BY <1>1, <1>2

LEMMA ReadChecksCallInv == CallInv /\ ReadChecks => CallInv'
<1> SUFFICES ASSUME CallInv, ReadChecks PROVE CallInv'
  OBVIOUS
<1>1. op = "body" /\ step = "check" /\ early = Never /\ ~late
  BY DEF ReadChecks, CallInv, InSteps
<1>2. CASE ctxErr # "nil"
  BY <1>1, <1>2, ContextIsTrue, GivesCallInv DEF ReadChecks
<1>3. CASE ctxErr = "nil"
  BY <1>1, <1>3, GivesCallInv DEF ReadChecks
<1> QED  BY <1>2, <1>3

LEMMA ReadWrapsCallInv == CallInv /\ ReadWraps => CallInv'
<1> SUFFICES ASSUME CallInv, ReadWraps PROVE CallInv'
  OBVIOUS
<1>1. CASE step = "context" /\ Gives(wrapIfContextDone(err), "rst")
  <2>1. late => wrapIfContextDone(err) \in {"canceled", "deadline_exceeded"}
    BY ContextDoneIsTrue DEF CallInv, FailureIsTrue
  <2> QED  BY <1>1, <2>1, ContextDoneIsTrue, GivesCallInv DEF ReadWraps
<1>2. CASE step = "rst" /\ Gives(IF code # "none" THEN code ELSE wrapIfRSTError(err), "reader")
  <2>1. CASE code # "none"
    BY <1>2, <2>1, GivesCallInv DEF ReadWraps, CallInv, CodeSoFar
  <2>2. CASE code = "none"
    <3>1. ~late  BY <1>2, <2>2 DEF ReadWraps, CallInv, CodeSoFar
    <3>2. early # Never => err = "CANCEL"  BY DEF CallInv, FailureIsTrue
    <3> QED  BY <1>2, <2>2, <3>1, <3>2, RSTErrorIsTrue, GivesCallInv DEF ReadWraps
  <2> QED  BY <2>1, <2>2
<1> QED  BY <1>1, <1>2 DEF ReadWraps

LEMMA ReaderWrapsCallInv == CallInv /\ ReaderWraps => CallInv'
<1> SUFFICES ASSUME CallInv, ReaderWraps PROVE CallInv'
  OBVIOUS
<1> DEFINE c == IF code # "none" THEN code ELSE wrapIfContextDone(err)
<1>1. PICK unread \in {"invalid_argument", "unknown"} :
        Gives(IF c # "none" THEN c ELSE unread, "told")
  BY DEF ReaderWraps
<1>2. op = "body" /\ step = "reader"
  BY DEF ReaderWraps
<1>3. CASE code # "none"
  BY <1>1, <1>2, <1>3, GivesCallInv DEF CallInv, CodeSoFar
<1>4. CASE code = "none"
  <2>1. early = Never /\ ~late
    BY <1>2, <1>4 DEF CallInv, CodeSoFar
  <2> QED  BY <1>1, <1>2, <1>4, <2>1, ContextDoneIsTrue, GivesCallInv
<1> QED  BY <1>3, <1>4

LEMMA MakeRequestCallInv == CallInv /\ makeRequest => CallInv'
<1> SUFFICES ASSUME CallInv, makeRequest PROVE CallInv'
  OBVIOUS
<1> DEFINE c == IF code # "none" THEN code ELSE wrapIfRSTError(err)
<1>1. op \in {"send", "do"}
  BY DEF makeRequest
<1>2. CASE step = "context" /\ Gives(wrapIfContextError(err), "rst")
  BY <1>1, <1>2, ContextErrorIsTrue, GivesCallInv
<1>3. CASE step = "rst" /\ Gives(IF c # "none" THEN c ELSE "unavailable", "ready")
  <2>1. CASE code # "none"
    BY <1>1, <1>3, <2>1, GivesCallInv DEF CallInv, CodeSoFar
  <2>2. CASE code = "none"
    <3>1. early # Never => err = "CANCEL"  BY DEF CallInv, FailureIsTrue
    <3> QED  BY <1>1, <1>3, <2>2, <3>1, RSTErrorIsTrue, GivesCallInv
  <2> QED  BY <2>1, <2>2
<1> QED  BY <1>2, <1>3 DEF makeRequest

LEMMA ReadyCallInv == CallInv /\ (sendUnary \/ blockUntilResponseReady) => CallInv'
<1> SUFFICES ASSUME CallInv, sendUnary \/ blockUntilResponseReady PROVE CallInv'
  OBVIOUS
<1>1. CASE op = "send" /\ step = "ready" /\ Gives(IF ctxErr # "nil" THEN ctxErr ELSE code, "told")
  <2>1. late => ctxErr # "nil"  BY DEF CallInv, FailureIsTrue
  <2>2. CASE ctxErr # "nil"
    BY <1>1, <2>1, <2>2, ContextIsTrue, GivesCallInv
  <2>3. CASE ctxErr = "nil"
    BY <1>1, <2>1, <2>3, GivesCallInv DEF CallInv, CodeSoFar
  <2> QED  BY <2>2, <2>3
<1>2. CASE op = "do" /\ step = "ready" /\ Gives(code, "told")
  BY <1>2, GivesCallInv DEF CallInv, CodeSoFar
<1>3. CASE op = "do" /\ step # "told" /\ ctxErr # "nil" /\ Gives(ctxErr, "told")
  BY <1>3, ContextIsTrue, GivesCallInv
<1> QED  BY <1>1, <1>2, <1>3 DEF sendUnary, blockUntilResponseReady, Watched

LEMMA NextCallInv == IInv /\ CallInv /\ [CallNext]_callVars => CallInv'
<1> SUFFICES ASSUME IInv, CallInv, [CallNext]_callVars PROVE CallInv'
  OBVIOUS
<1>1. CASE CallNext
  BY <1>1, TimePassesCallInv, CallsCallInv, ArrivesCallInv, ContextCallInv, FailsCallInv,
     ReadChecksCallInv, ReadWrapsCallInv, ReaderWrapsCallInv, MakeRequestCallInv, ReadyCallInv
     DEF CallNext
<1>2. CASE UNCHANGED callVars
  <2>1. /\ UNCHANGED <<op, step, err, code, early, late, ctxErr, callerDeadline, callerBudget>>
        /\ UNCHANGED <<pc, deadline, budget, num, unit>>
    BY <1>2 DEF callVars, call, context, vars
  <2>2. CallTypeOK' /\ RoundsByLess' /\ InSteps'
    BY <2>1 DEF CallInv, CallTypeOK, RoundsByLess, InSteps, Carried, Never
  <2>3. FailureIsTrue' /\ CodeSoFar'
    BY <2>1 DEF CallInv, FailureIsTrue, CodeSoFar, CallerIsDue, Never
  <2> QED  BY <2>2, <2>3 DEF CallInv
<1> QED  BY <1>1, <1>2

\* When the server gives up at its deadline and resets the stream, the caller is told
\* deadline_exceeded; or canceled, if its context was canceled or if rounding made the
\* server early, by less than the unit of the header.
THEOREM ServersDeadlineIsTold == CallSpec => []DeadlineIsTold
<1>1. CallInv => DeadlineIsTold
  BY DEF CallInv, CodeSoFar, FailureIsTrue, DeadlineIsTold
<1> QED  BY <1>1, ChainIInv, InitCallInv, NextCallInv, PTL DEF CallSpec

\* Whatever fails, the caller's context, the peer or a limit of the transport's own, and
\* whenever the timer of the context fires between the wrappers of duplexHTTPCall: the
\* caller is told deadline_exceeded only when its deadline has passed or the transport
\* reported a timeout, canceled only when somebody canceled, and no other code once its
\* context was done before the failure (but for the error of Do on a stream).
THEOREM CodesAreTrue == CallSpec => []CodeIsTrue
<1>1. CallInv => CodeIsTrue
  BY DEF CallInv, CallTypeOK, InSteps, CodeSoFar, CodeIsTrue, CallerIsDue
<1> QED  BY <1>1, ChainIInv, InitCallInv, NextCallInv, PTL DEF CallSpec
=============================================================================
