-------------------------- MODULE ConnectorProofs --------------------------
(***************************************************************************)
(* The safety of the connector.  ConnectionNotTorn needs to know who       *)
(* holds m_sendSync at which point of its code; FlagAtRest is inductive as *)
(* it stands, because the last step of each thread clears the flag.        *)
(***************************************************************************)
EXTENDS Connector, TLAPS

(* The mutex is held exactly at the points between its lock and unlock,    *)
(* and no thread runs before it is started.                                *)
LockInv ==
  /\ mainPc \in {"load", "start client"} => clientPc = "none"
  /\ mainPc \in {"load", "start client", "start ping"} => pingPc = "none"
  /\ clientPc \in {"connect", "retry"} <=> sendSync = "client"
  /\ pingPc = "ping" <=> sendSync = "ping"

LEMMA LockInvariant == Spec => []LockInv
<1>1. Init => LockInv
  BY DEF Init, LockInv
<1>2. LockInv /\ [Next]_vars => LockInv'
  <2> SUFFICES ASSUME LockInv, [Next]_vars PROVE LockInv'
    OBVIOUS
  <2> USE DEF LockInv
  <2>1. CASE Main
    BY <2>1 DEF Main, LoadConf, StartClient, StartFails, StartPing, Wait, Destroy
  <2>2. CASE Client
    BY <2>2 DEF Client, ClientTest, Retry, GetConnectionFails, Connect,
                RunReturns, HandlerReturns, ClientClear
  <2>3. CASE ClientLocks
    BY <2>3 DEF ClientLocks, ClientLock, Send
  <2>4. CASE Network
    BY <2>4 DEF Network, Event, OnWsOpen, OnWsFail, AuthRefused, OnWsMessage,
                HandlerThrows, PeerCloses, CloseCompletes
  <2>5. CASE PingThread \/ PingWakes \/ PingLock
    BY <2>5 DEF PingThread, PingTest, Ping, PingClear, PingWakes, PingLock
  <2>6. CASE UNCHANGED vars
    BY <2>6 DEF vars
  <2> QED
    BY <2>1, <2>2, <2>3, <2>4, <2>5, <2>6 DEF Next
<1> QED
  BY <1>1, <1>2, PTL DEF Spec

(* The two flags, apart: they are values and formulas at once.             *)
Flags == isRunning \in BOOLEAN /\ ioStopped \in BOOLEAN

Values ==
  /\ sendSync \in {"free", "client", "ping"}
  /\ connection \in {"null", "connecting", "failed", "opened",
                     "authenticated", "closing", "closed"}
  /\ mainPc \in {"load", "start client", "start ping", "wait", "destroy"}
  /\ clientPc \in {"none", "test", "lock", "connect", "retry", "run",
                   "handler", "clear", "done"}
  /\ pingPc \in {"none", "test", "sleep", "lock", "ping", "clear", "done"}
  /\ process \in {"running", "returned", "aborted"}

LEMMA FlagsInvariant == Spec => []Flags
<1>1. Init => Flags
  BY DEF Init, Flags
<1>2. Flags /\ [Next]_vars => Flags'
  <2> SUFFICES ASSUME Flags, [Next]_vars PROVE Flags'
    OBVIOUS
  <2> USE DEF Flags
  <2>1. CASE Main
    BY <2>1 DEF Main, LoadConf, StartClient, StartFails, StartPing, Wait, Destroy
  <2>2. CASE Client
    BY <2>2 DEF Client, ClientTest, Retry, GetConnectionFails, Connect,
                RunReturns, HandlerReturns, ClientClear
  <2>3. CASE ClientLocks
    BY <2>3 DEF ClientLocks, ClientLock, Send
  <2>4. CASE Network
    BY <2>4 DEF Network, Event, OnWsOpen, OnWsFail, AuthRefused, OnWsMessage,
                HandlerThrows, PeerCloses, CloseCompletes
  <2>5. CASE PingThread \/ PingWakes \/ PingLock
    BY <2>5 DEF PingThread, PingTest, Ping, PingClear, PingWakes, PingLock
  <2>6. CASE UNCHANGED vars
    BY <2>6 DEF vars
  <2> QED
    BY <2>1, <2>2, <2>3, <2>4, <2>5, <2>6 DEF Next
<1> QED
  BY <1>1, <1>2, PTL DEF Spec

LEMMA ValuesInvariant == Spec => []Values
<1>1. Init => Values
  BY DEF Init, Values
<1>2. Values /\ [Next]_vars => Values'
  <2> SUFFICES ASSUME Values, [Next]_vars PROVE Values'
    OBVIOUS
  <2> USE DEF Values
  <2>1. CASE Main
    BY <2>1 DEF Main, LoadConf, StartClient, StartFails, StartPing, Wait, Destroy
  <2>2. CASE Client
    BY <2>2 DEF Client, ClientTest, Retry, GetConnectionFails, Connect,
                RunReturns, HandlerReturns, ClientClear
  <2>3. CASE ClientLocks
    BY <2>3 DEF ClientLocks, ClientLock, Send
  <2>4. CASE Network
    BY <2>4 DEF Network, Event, OnWsOpen, OnWsFail, AuthRefused, OnWsMessage,
                HandlerThrows, PeerCloses, CloseCompletes
  <2>5. CASE PingThread \/ PingWakes \/ PingLock
    BY <2>5 DEF PingThread, PingTest, Ping, PingClear, PingWakes, PingLock
  <2>6. CASE UNCHANGED vars
    BY <2>6, ZenonT(60) DEF vars
  <2> QED
    BY <2>1, <2>2, <2>3, <2>4, <2>5, <2>6 DEF Next
<1> QED
  BY <1>1, <1>2, PTL DEF Spec

(* What a step does to the number of requests to send.                     *)
ToSendStep ==
  \/ toSend' = toSend
  \/ toSend' = 1
  \/ toSend' \in 0..MaxSends
  \/ toSend > 0 /\ toSend' = toSend - 1

Sends == toSend \in 0..MaxSends

LEMMA SendsInvariant == Spec => []Sends
<1>1. Init => Sends
  BY MaxSendsAssumption, SMT DEF Init, Sends
<1>2. [Next]_vars => ToSendStep
  <2> SUFFICES ASSUME [Next]_vars PROVE ToSendStep
    OBVIOUS
  <2> USE DEF ToSendStep
  <2>1. CASE Main
    BY <2>1 DEF Main, LoadConf, StartClient, StartFails, StartPing, Wait, Destroy
  <2>2. CASE Client
    BY <2>2 DEF Client, ClientTest, Retry, GetConnectionFails, Connect,
                RunReturns, HandlerReturns, ClientClear
  <2>3. CASE ClientLocks
    BY <2>3 DEF ClientLocks, ClientLock, Send
  <2>4. CASE Network
    BY <2>4 DEF Network, Event, OnWsOpen, OnWsFail, AuthRefused, OnWsMessage,
                HandlerThrows, PeerCloses, CloseCompletes
  <2>5. CASE PingThread \/ PingWakes \/ PingLock
    BY <2>5 DEF PingThread, PingTest, Ping, PingClear, PingWakes, PingLock
  <2>6. CASE UNCHANGED vars
    BY <2>6 DEF vars
  <2> QED
    BY <2>1, <2>2, <2>3, <2>4, <2>5, <2>6 DEF Next
<1>3. Sends /\ ToSendStep => Sends'
  BY MaxSendsAssumption DEF Sends, ToSendStep
<1> QED
  BY <1>1, <1>2, <1>3, PTL DEF Spec

(* Every variable keeps its type: a handler sends no more than it has to.  *)
THEOREM ConnectorTypeCorrect == Spec => []TypeOK
<1>1. Flags /\ Values /\ Sends => TypeOK
  BY DEF Flags, Values, Sends, TypeOK
<1> QED
  BY <1>1, FlagsInvariant, ValuesInvariant, SendsInvariant, PTL

(* The client thread never renews m_connection while the ping thread uses  *)
(* it.                                                                     *)
THEOREM ConnectionSafe == Spec => []ConnectionNotTorn
<1>1. LockInv => ConnectionNotTorn
  BY DEF LockInv, ConnectionNotTorn
<1> QED
  BY <1>1, LockInvariant, PTL

(* Once both threads have left their loops, the flag is clear.             *)
THEOREM FlagClearAtRest == Spec => []FlagAtRest
<1>1. Init => FlagAtRest
  BY DEF Init, FlagAtRest
<1>2. FlagAtRest /\ [Next]_vars => FlagAtRest'
  <2> SUFFICES ASSUME FlagAtRest, [Next]_vars PROVE FlagAtRest'
    OBVIOUS
  <2> USE DEF FlagAtRest
  <2>1. CASE Main
    BY <2>1 DEF Main, LoadConf, StartClient, StartFails, StartPing, Wait, Destroy
  <2>2. CASE Client
    BY <2>2 DEF Client, ClientTest, Retry, GetConnectionFails, Connect,
                RunReturns, HandlerReturns, ClientClear
  <2>3. CASE ClientLocks
    BY <2>3 DEF ClientLocks, ClientLock, Send
  <2>4. CASE Network
    BY <2>4 DEF Network, Event, OnWsOpen, OnWsFail, AuthRefused, OnWsMessage,
                HandlerThrows, PeerCloses, CloseCompletes
  <2>5. CASE PingThread \/ PingWakes \/ PingLock
    BY <2>5 DEF PingThread, PingTest, Ping, PingClear, PingWakes, PingLock
  <2>6. CASE UNCHANGED vars
    BY <2>6 DEF vars
  <2> QED
    BY <2>1, <2>2, <2>3, <2>4, <2>5, <2>6 DEF Next
<1> QED
  BY <1>1, <1>2, PTL DEF Spec

=============================================================================
