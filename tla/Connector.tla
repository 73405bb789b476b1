----------------------------- MODULE Connector -----------------------------
(***************************************************************************)
(* The threads of the connector (lib/zubr-connector-ws/src/                *)
(* ConnectorWs.cpp): the main thread that starts it, waits and destroys    *)
(* it (main in src/zubrobot-ws.cpp), the client thread that connects and   *)
(* runs the event loop with all its callbacks, and the ping thread.  They  *)
(* share the flag m_isRunning, the mutex m_sendSync and the pointer        *)
(* m_connection; what websocketpp and asio do is modelled as the code      *)
(* relies on it.                                                           *)
(***************************************************************************)
EXTENDS Integers

CONSTANT MaxSends     (* bound: requests one handler sends                 *)

ASSUME MaxSendsAssumption == MaxSends \in Nat \ {0}

VARIABLES
  isRunning,    (* m_isRunning, a std::atomic_flag                         *)
  sendSync,     (* m_sendSync: "free" or the thread that holds it          *)
  connection,   (* the session m_connection points to                      *)
  ioStopped,    (* asio's event loop ran out of work or was stopped: it    *)
                (* stays so, as nobody calls reset()                       *)
  mainPc, clientPc, pingPc,
  toSend,       (* requests the running handler has still to send          *)
  process       (* "running", "returned" from main (0 or -1), or "aborted" *)
                (* by std::terminate                                       *)

vars == <<isRunning, sendSync, connection, ioStopped, mainPc, clientPc,
          pingPc, toSend, process>>

TypeOK ==
  /\ isRunning \in BOOLEAN
  /\ sendSync \in {"free", "client", "ping"}
  /\ connection \in {"null", "connecting", "failed", "opened",
                     "authenticated", "closing", "closed"}
  /\ ioStopped \in BOOLEAN
  /\ mainPc \in {"load", "start client", "start ping", "wait", "destroy"}
  /\ clientPc \in {"none", "test", "lock", "connect", "retry", "run",
                   "handler", "clear", "done"}
  /\ pingPc \in {"none", "test", "sleep", "lock", "ping", "clear", "done"}
  /\ toSend \in 0..MaxSends
  /\ process \in {"running", "returned", "aborted"}

Init ==
  /\ isRunning \in BOOLEAN      (* an atomic_flag nobody initialised       *)
  /\ sendSync = "free"
  /\ connection = "null"
  /\ ioStopped = FALSE
  /\ mainPc = "load" /\ clientPc = "none" /\ pingPc = "none"
  /\ toSend = 0
  /\ process = "running"

-----------------------------------------------------------------------------
(* The main thread: the configuration, Start, Wait, and the end of main.   *)

(* No argument, or an exception out of LoadFile: main returns -1.          *)
LoadConf ==
  /\ mainPc = "load"
  /\ \/ mainPc' = "start client" /\ process' = process
     \/ mainPc' = mainPc /\ process' = "returned"
  /\ UNCHANGED <<isRunning, sendSync, connection, ioStopped, clientPc, pingPc,
                 toSend>>

StartClient ==
  /\ mainPc = "start client"
  /\ mainPc' = "start ping"
  /\ isRunning' = TRUE
  /\ clientPc' = "test"
  /\ UNCHANGED <<sendSync, connection, ioStopped, pingPc, toSend, process>>

(* What websocketpp throws before the threads exist is reported and        *)
(* forgotten: main goes on to wait.                                        *)
StartFails ==
  /\ mainPc = "start client"
  /\ mainPc' = "wait"
  /\ UNCHANGED <<isRunning, sendSync, connection, ioStopped, clientPc, pingPc,
                 toSend, process>>

StartPing ==
  /\ mainPc = "start ping"
  /\ mainPc' = "wait"
  /\ pingPc' = "test"
  /\ UNCHANGED <<isRunning, sendSync, connection, ioStopped, clientPc, toSend,
                 process>>

(* Wait joins the client thread, if there is one, and no other.            *)
Wait ==
  /\ mainPc = "wait"
  /\ clientPc \in {"none", "done"}
  /\ mainPc' = "destroy"
  /\ UNCHANGED <<isRunning, sendSync, connection, ioStopped, clientPc, pingPc,
                 toSend, process>>

(* ~ConnectorWs: the flag is cleared, then the members go; m_pingThread    *)
(* was neither joined nor detached.                                        *)
Destroy ==
  /\ mainPc = "destroy"
  /\ isRunning' = FALSE
  /\ process' = IF pingPc = "none" THEN "returned" ELSE "aborted"
  /\ UNCHANGED <<sendSync, connection, ioStopped, mainPc, clientPc, pingPc,
                 toSend>>

-----------------------------------------------------------------------------
(* The client thread's loop.                                               *)

(* while ( m_isRunning.test_and_set() ): the test sets the flag again.     *)
ClientTest ==
  /\ clientPc = "test"
  /\ isRunning' = TRUE
  /\ clientPc' = IF isRunning THEN "lock" ELSE "clear"
  /\ UNCHANGED <<sendSync, connection, ioStopped, mainPc, pingPc, toSend,
                 process>>

(* Mutant: the connection is renewed without the mutex.                    *)
ClientLockMutant ==
  /\ clientPc = "lock"
  /\ clientPc' = "connect"
  /\ UNCHANGED <<isRunning, sendSync, connection, ioStopped, mainPc, pingPc,
                 toSend, process>>

ClientLock ==
  /\ clientPc = "lock"
  /\ sendSync = "free"
  /\ sendSync' = "client"
  /\ clientPc' = "connect"
  /\ UNCHANGED <<isRunning, connection, ioStopped, mainPc, pingPc, toSend,
                 process>>

(* get_connection fails: two seconds of sleep, the mutex held.             *)
GetConnectionFails ==
  /\ clientPc = "connect"
  /\ connection' = "null"
  /\ clientPc' = "retry"
  /\ UNCHANGED <<isRunning, sendSync, ioStopped, mainPc, pingPc, toSend,
                 process>>

Retry ==
  /\ clientPc = "retry"
  /\ sendSync' = "free"
  /\ clientPc' = "test"
  /\ UNCHANGED <<isRunning, connection, ioStopped, mainPc, pingPc, toSend,
                 process>>

Connect ==
  /\ clientPc = "connect"
  /\ connection' = "connecting"
  /\ sendSync' = "free"
  /\ clientPc' = "run"
  /\ UNCHANGED <<isRunning, ioStopped, mainPc, pingPc, toSend, process>>

(* m_client.run() returns when the loop is stopped or the session is over, *)
(* which leaves it without work, hence stopped.                            *)
RunReturns ==
  /\ clientPc = "run"
  /\ ioStopped \/ connection = "closed"
  /\ ioStopped' = TRUE
  /\ clientPc' = "test"
  /\ UNCHANGED <<isRunning, sendSync, connection, mainPc, pingPc, toSend,
                 process>>

ClientClear ==
  /\ clientPc = "clear"
  /\ isRunning' = FALSE
  /\ clientPc' = "done"
  /\ UNCHANGED <<sendSync, connection, ioStopped, mainPc, pingPc, toSend,
                 process>>

-----------------------------------------------------------------------------
(* The callbacks, run by the client thread inside m_client.run().          *)

Event(from) == clientPc = "run" /\ ~ioStopped /\ connection \in from

(* OnWsOpen sends the authentication.                                      *)
OnWsOpen ==
  /\ Event({"connecting"})
  /\ connection' = "opened"
  /\ toSend' = 1
  /\ clientPc' = "handler"
  /\ UNCHANGED <<isRunning, sendSync, ioStopped, mainPc, pingPc, process>>

OnWsFail ==
  /\ Event({"connecting"})
  /\ connection' = "failed"
  /\ isRunning' = FALSE
  /\ ioStopped' = TRUE
  /\ UNCHANGED <<sendSync, mainPc, clientPc, pingPc, toSend, process>>

(* OnWsMessage, the authentication refused: no request is sent.            *)
AuthRefused ==
  /\ Event({"opened"})
  /\ connection' = "closing"
  /\ isRunning' = FALSE
  /\ UNCHANGED <<sendSync, ioStopped, mainPc, clientPc, pingPc, toSend, process>>

(* OnWsMessage, any other message: the robot's handlers send what they     *)
(* have to (see Bot).  Websocketpp drops what comes in while it closes.    *)
OnWsMessage ==
  /\ Event({"opened", "authenticated"})
  /\ connection' = "authenticated"
  /\ toSend' \in 0..MaxSends
  /\ clientPc' = "handler"
  /\ UNCHANGED <<isRunning, sendSync, ioStopped, mainPc, pingPc, process>>

(* Mutant: a handler sends on after its last request.                      *)
SendOnceMore ==
  /\ clientPc = "handler"
  /\ sendSync = "free"
  /\ toSend' = toSend - 1
  /\ UNCHANGED <<isRunning, sendSync, connection, ioStopped, mainPc, clientPc,
                 pingPc, process>>

(* Send locks m_sendSync, writes to the session and unlocks.               *)
Send ==
  /\ clientPc = "handler"
  /\ toSend > 0
  /\ sendSync = "free"
  /\ toSend' = toSend - 1
  /\ UNCHANGED <<isRunning, sendSync, connection, ioStopped, mainPc, clientPc,
                 pingPc, process>>

HandlerReturns ==
  /\ clientPc = "handler"
  /\ toSend = 0
  /\ clientPc' = "run"
  /\ UNCHANGED <<isRunning, sendSync, connection, ioStopped, mainPc, pingPc,
                 toSend, process>>

(* An exception in a handler, out of the digest of a secret that is not    *)
(* hexadecimal or out of a message that cannot be read, leaves run() and   *)
(* with it the thread.                                                     *)
HandlerThrows ==
  /\ clientPc = "handler"
  /\ process' = "aborted"
  /\ UNCHANGED <<isRunning, sendSync, connection, ioStopped, mainPc, clientPc,
                 pingPc, toSend>>

(* The session ends, because the peer closed it or the closing handshake   *)
(* is over.  There is no close handler.                                    *)
PeerCloses ==
  /\ Event({"opened", "authenticated"})
  /\ connection' = "closed"
  /\ UNCHANGED <<isRunning, sendSync, ioStopped, mainPc, clientPc, pingPc, toSend,
                 process>>

CloseCompletes ==
  /\ Event({"closing"})
  /\ connection' = "closed"
  /\ UNCHANGED <<isRunning, sendSync, ioStopped, mainPc, clientPc, pingPc, toSend,
                 process>>

-----------------------------------------------------------------------------
(* The ping thread.                                                        *)

PingTest ==
  /\ pingPc = "test"
  /\ isRunning' = TRUE
  /\ pingPc' = IF isRunning THEN "sleep" ELSE "clear"
  /\ UNCHANGED <<sendSync, connection, ioStopped, mainPc, clientPc, toSend,
                 process>>

(* Fourteen seconds later.                                                 *)
PingWakes ==
  /\ pingPc = "sleep"
  /\ pingPc' = "lock"
  /\ UNCHANGED <<isRunning, sendSync, connection, ioStopped, mainPc, clientPc,
                 toSend, process>>

PingLock ==
  /\ pingPc = "lock"
  /\ sendSync = "free"
  /\ sendSync' = "ping"
  /\ pingPc' = "ping"
  /\ UNCHANGED <<isRunning, connection, ioStopped, mainPc, clientPc, toSend,
                 process>>

(* Mutant: the mutex is released only after the next sleep.                *)
PingMutant ==
  /\ pingPc = "ping"
  /\ IF connection \in {"opened", "authenticated"}
     THEN pingPc' = "sleep" /\ process' = process
     ELSE pingPc' = "ping" /\ process' = "aborted"
  /\ UNCHANGED <<isRunning, sendSync, connection, ioStopped, mainPc, clientPc,
                 toSend>>

(* Mutant: a ping that fails is ignored.                                   *)
PingIgnoresErrors ==
  /\ pingPc = "ping"
  /\ sendSync' = "free"
  /\ pingPc' = "test"
  /\ UNCHANGED <<isRunning, connection, ioStopped, mainPc, clientPc, toSend,
                 process>>

(* m_client.ping throws unless the session is open, and nobody catches.    *)
Ping ==
  /\ pingPc = "ping"
  /\ IF connection \in {"opened", "authenticated"}
     THEN sendSync' = "free" /\ pingPc' = "test" /\ process' = process
     ELSE process' = "aborted" /\ UNCHANGED <<sendSync, pingPc>>
  /\ UNCHANGED <<isRunning, connection, ioStopped, mainPc, clientPc, toSend>>

(* Mutant: the flag is left as the test set it.                            *)
PingClearMutant ==
  /\ pingPc = "clear"
  /\ pingPc' = "done"
  /\ UNCHANGED <<isRunning, sendSync, connection, ioStopped, mainPc, clientPc,
                 toSend, process>>

PingClear ==
  /\ pingPc = "clear"
  /\ isRunning' = FALSE
  /\ pingPc' = "done"
  /\ UNCHANGED <<sendSync, connection, ioStopped, mainPc, clientPc, toSend,
                 process>>

-----------------------------------------------------------------------------
Main == LoadConf \/ StartClient \/ StartFails \/ StartPing \/ Wait \/ Destroy

ClientLocks == ClientLock \/ Send

(* The client thread's own steps; what the peer does is in Network.        *)
Client ==
  \/ ClientTest \/ Retry \/ GetConnectionFails \/ Connect
  \/ RunReturns \/ HandlerReturns \/ ClientClear

Network == \/ OnWsOpen \/ OnWsFail \/ AuthRefused \/ OnWsMessage
           \/ HandlerThrows \/ PeerCloses \/ CloseCompletes

PingThread == PingTest \/ Ping \/ PingClear

Next ==
  /\ process = "running"
  /\ Main \/ Client \/ ClientLocks \/ Network
       \/ PingThread \/ PingWakes \/ PingLock

(* Every thread runs on while it can; a closing handshake ends, by         *)
(* websocketpp's timeout if need be.  The client thread gets a mutex that  *)
(* is free again and again: the ping thread, the only other one to take    *)
(* it, then sleeps for fourteen seconds.  Nothing is assumed of the        *)
(* network, nor of how long the ping thread sleeps.                        *)
Running(A) == process = "running" /\ A

Spec ==
  /\ Init /\ [][Next]_vars
  /\ WF_vars(Running(Main)) /\ WF_vars(Running(Client))
  /\ SF_vars(Running(ClientLocks)) /\ WF_vars(Running(PingThread))
  /\ WF_vars(Running(CloseCompletes))

(* What a property may ask for besides: the ping thread's sleep ends, and  *)
(* it gets the mutex although the client thread takes it in a tight loop.  *)
PingWakesUp == WF_vars(Running(PingWakes)) /\ SF_vars(Running(PingLock))

-----------------------------------------------------------------------------
Live == process = "running"

(* ConnectionNotTorn: m_connection is never assigned by the client thread  *)
(* while the ping thread reads it, though the client thread reconnects in  *)
(* a loop and the ping thread wakes up at any time.                        *)
ConnectionNotTorn == ~(clientPc = "connect" /\ pingPc = "ping")

(* FlagAtRest: when both threads have left their loops the flag is clear,  *)
(* although each loop sets it by testing it.                               *)
FlagAtRest == clientPc = "done" /\ pingPc = "done" => ~isRunning

(* WaitWaits: once Wait has returned, the client has terminated, both its  *)
(* threads, if it had any.                                                 *)
WaitWaits == mainPc = "destroy" => {clientPc, pingPc} \subseteq {"none", "done"}

(* StopIsHeeded: after a refused authentication or a failed connection     *)
(* the process comes to its end, even if the ping thread's test_and_set is *)
(* the one to see the flag cleared, and even if that thread then sleeps    *)
(* for good.                                                               *)
StopIsHeeded == (connection \in {"closing", "failed"}) ~> ~Live

(* HandlersFinish: a handler that has requests to send comes to its end,   *)
(* whatever the ping thread does with the mutex.                           *)
HandlersFinish == (clientPc = "handler") ~> (clientPc # "handler" \/ ~Live)

(* LostSessionEndsProcess: a session that is over is never replaced, and   *)
(* the process does not live on without one, if the ping thread wakes up.  *)
LostSessionEndsProcess ==
  PingWakesUp => ((connection = "closed") ~> ~Live)

=============================================================================
