------------------------------- MODULE Server -------------------------------
(***************************************************************************)
(* il_listen of ileastic.c: the loop that opens the listening socket,      *)
(* accepts connections, sets up TLS and starts a thread (TM_THREAD) or a   *)
(* job (TM_JOB) for each, next to the scheduler thread, with the           *)
(* descriptors it holds.  A connection, which Roundtrip describes, is here *)
(* only being served or not.                                               *)
(***************************************************************************)
EXTENDS Scheduler, Sequences, FiniteSets

CONSTANTS
  Clients,    \* who may connect
  None,       \* no client
  Setups      \* the configurations to consider

(* maxFds, the size of the descriptor table, is what setMaxSockets gets.   *)
Setup == [threading : {"TM_THREAD", "TM_JOB"}, secure : BOOLEAN,
          maxFds : Nat \ {0}]

ASSUME ServerAssumption ==
  /\ None \notin Clients
  /\ IsFiniteSet(Clients)
  /\ Setups \subseteq Setup

VARIABLES
  setup,         \* chosen once, in Setups
  acceptor,      \* where the loop of il_listen is
  mainSocket,    \* the listening socket is open
  backlog,       \* clients the kernel has connected, oldest first
  clientSocket,  \* the client accepted last, until it is served
  session,       \* pConfig->sessionHandle: whose TLS session it is
  rmt,           \* pConfig->rmtHost, rmtTcpIp, rmtPort: whose address
  conn,          \* what the server does with each client
  instance,      \* INSTANCE: the copy of the config a thread works with
  fds,           \* number of open descriptors
  lost           \* descriptors nothing will close

connVars   == <<conn, instance>>
fdVars     == <<fds, lost>>
configVars == <<session, rmt>>
serverVars == <<setup, acceptor, mainSocket, backlog, clientSocket, configVars,
                connVars, fdVars>>
allVars == <<vars, serverVars>>

NoInstance == [socket |-> None, session |-> None, rmt |-> None]

ServerInit ==
  /\ Init
  /\ setup \in Setups
  /\ acceptor = "getSocket"
  /\ mainSocket = FALSE
  /\ backlog = <<>>
  /\ clientSocket = None
  /\ session = None /\ rmt = None
  /\ conn = [c \in Clients |-> "away"]
  /\ instance = [c \in Clients |-> NoInstance]
  /\ fds = 0 /\ lost = 0

Queued == {backlog[i] : i \in DOMAIN backlog}

(* A client connects: the kernel puts it in the queue of the socket. *)
Connect(c) ==
  /\ Up
  /\ mainSocket
  /\ conn[c] = "away"
  /\ c \notin Queued
  /\ backlog' = Append(backlog, c)
  /\ UNCHANGED <<process, setup, acceptor, mainSocket, clientSocket, configVars,
                 connVars, fdVars>>

-----------------------------------------------------------------------------
(* The loop of il_listen.                                                  *)

(* When a call of getSocket fails, it closes what it opened, and il_listen *)
(* sleeps and tries again: nothing has changed.                            *)
getSocket ==
  /\ Up
  /\ acceptor = "getSocket"
  /\ fds < setup.maxFds
  /\ mainSocket' = TRUE
  /\ fds' = fds + 1
  /\ acceptor' = "accept"
  /\ UNCHANGED <<process, setup, backlog, clientSocket, configVars, connVars, lost>>

accept ==
  /\ Up
  /\ acceptor = "accept"
  /\ backlog # <<>>
  /\ fds < setup.maxFds
  /\ clientSocket' = Head(backlog)
  /\ backlog' = Tail(backlog)
  /\ conn' = [conn EXCEPT ![Head(backlog)] = "accepted"]
  /\ fds' = fds + 1
  /\ acceptor' = IF setup.secure THEN "setup" ELSE "start"
  /\ UNCHANGED <<process, setup, mainSocket, configVars, instance, lost>>

(* Mutant: the loop tries again with the same socket. *)
acceptFailsRetries ==
  /\ Up
  /\ acceptor = "accept"
  /\ UNCHANGED <<process, serverVars>>

(* Mutant: the loop goes on with the socket it has closed. *)
acceptFailsKeepsSocket ==
  /\ Up
  /\ acceptor = "accept"
  /\ mainSocket' = FALSE
  /\ backlog' = <<>>
  /\ fds' = fds - 1
  /\ UNCHANGED <<process, setup, acceptor, clientSocket, configVars, connVars, lost>>

(* accept returns -1 (a signal, an aborted connection, no descriptor): the *)
(* listening socket is closed, and the clients in its queue are cut off.   *)
acceptFails ==
  /\ Up
  /\ acceptor = "accept"
  /\ mainSocket' = FALSE
  /\ backlog' = <<>>
  /\ fds' = fds - 1
  /\ acceptor' = "getSocket"
  /\ UNCHANGED <<process, setup, clientSocket, configVars, connVars, lost>>

(* setupSecureSocket, handshake included; pConfig->sessionHandle is set.   *)
setupSecureSocket ==
  /\ Up
  /\ acceptor = "setup"
  /\ session' = clientSocket
  /\ acceptor' = "start"
  /\ UNCHANGED <<process, setup, mainSocket, backlog, clientSocket, rmt,
                 connVars, fdVars>>

(* It fails: il_listen continues and leaves the client's socket open. *)
setupSecureSocketFails ==
  /\ Up
  /\ acceptor = "setup"
  /\ session' \in {session, clientSocket}
  /\ conn' = [conn EXCEPT ![clientSocket] = "away"]
  /\ lost' = lost + 1
  /\ clientSocket' = None
  /\ acceptor' = "accept"
  /\ UNCHANGED <<process, setup, mainSocket, backlog, rmt, instance, fds>>

(* Mutant: the config is copied before the address is set. *)
NewInstanceTooEarly == [socket |-> clientSocket, session |-> session, rmt |-> rmt]

(* The address goes into the config, and the config into an INSTANCE. *)
NewInstance == [socket |-> clientSocket, session |-> session, rmt |-> clientSocket]

startThread ==
  /\ Up
  /\ acceptor = "start" /\ setup.threading = "TM_THREAD"
  /\ rmt' = clientSocket
  /\ instance' = [instance EXCEPT ![clientSocket] = NewInstance]
  /\ conn' = [conn EXCEPT ![clientSocket] = "thread"]
  /\ clientSocket' = None
  /\ acceptor' = "accept"
  /\ UNCHANGED <<process, setup, mainSocket, backlog, session, fdVars>>

(* Mutant: the parent keeps the client's socket. *)
startJobKeepsSocket ==
  /\ Up
  /\ acceptor = "start" /\ setup.threading = "TM_JOB"
  /\ fds + 2 <= setup.maxFds
  /\ rmt' = clientSocket
  /\ conn' = [conn EXCEPT ![clientSocket] = "job"]
  /\ clientSocket' = None
  /\ acceptor' = "accept"
  /\ UNCHANGED <<process, setup, mainSocket, backlog, session, instance, fdVars>>

(* pipe() takes two descriptors; the job inherits the client's socket, and *)
(* the parent closes that and the pipe.  The INSTANCE the parent has made  *)
(* goes to nobody: the job is another process, which runs il_listen from   *)
(* its start, with the address from the pipe and a handshake of its own.   *)
startJob ==
  /\ Up
  /\ acceptor = "start" /\ setup.threading = "TM_JOB"
  /\ fds + 2 <= setup.maxFds
  /\ rmt' = clientSocket
  /\ conn' = [conn EXCEPT ![clientSocket] = "job"]
  /\ fds' = fds - 1
  /\ clientSocket' = None
  /\ acceptor' = "accept"
  /\ UNCHANGED <<process, setup, mainSocket, backlog, session, instance, lost>>

(* pthread_create, pipe or spawn fails: exit. *)
startFails ==
  /\ Up
  /\ acceptor = "start"
  /\ process' = "failure"
  /\ UNCHANGED serverVars

-----------------------------------------------------------------------------
(* The connections.                                                        *)

(* serverThread leaves its loop and closes its socket. *)
serverThreadEnds(c) ==
  /\ Up
  /\ conn[c] = "thread"
  /\ conn' = [conn EXCEPT ![c] = "away"]
  /\ instance' = [instance EXCEPT ![c] = NoInstance]
  /\ fds' = fds - 1
  /\ UNCHANGED <<process, setup, acceptor, mainSocket, backlog, clientSocket,
                 configVars, lost>>

(* It dies with its socket open (the state "died" of Roundtrip): a head it *)
(* cannot parse is enough, for receiveHeader runs under no handler.        *)
serverThreadDies(c) ==
  /\ Up
  /\ conn[c] = "thread"
  /\ conn' = [conn EXCEPT ![c] = "away"]
  /\ instance' = [instance EXCEPT ![c] = NoInstance]
  /\ lost' = lost + 1
  /\ UNCHANGED <<process, setup, acceptor, mainSocket, backlog, clientSocket,
                 configVars, fds>>

(* A job ends by itself, also when the server is gone. *)
jobEnds(c) ==
  /\ conn[c] = "job"
  /\ conn' = [conn EXCEPT ![c] = "away"]
  /\ UNCHANGED <<process, setup, acceptor, mainSocket, backlog, clientSocket,
                 configVars, instance, fdVars>>

-----------------------------------------------------------------------------
il_listen == getSocket \/ accept \/ acceptFails \/ setupSecureSocket
               \/ setupSecureSocketFails \/ startThread \/ startJob \/ startFails

Connections == \E c \in Clients : \/ Connect(c) \/ serverThreadEnds(c)
                                  \/ serverThreadDies(c) \/ jobEnds(c)

Terminated == ~Up /\ UNCHANGED allVars

ServerNext ==
  \/ (schedulerThread \/ catcher) /\ UNCHANGED serverVars
  \/ (il_listen \/ Connections) /\ UNCHANGED schedulerVars
  \/ Terminated

ServerSpec == ServerInit /\ [][ServerNext]_allVars

(* The threads run; accept returns when a client is queued or when no      *)
(* descriptor is left; the operating system grants a socket in the end;    *)
(* the scheduler plugin returns.  Nothing makes a handshake end.           *)
AcceptReturns == accept \/ (backlog # <<>> /\ acceptFails)
Progress == getSocket \/ AcceptReturns \/ startThread \/ startJob \/ startFails

ServerFairness ==
  /\ WF_allVars(schedulerThread /\ UNCHANGED serverVars)
  /\ WF_allVars(Progress /\ UNCHANGED schedulerVars)

FairServerSpec == ServerSpec /\ ServerFairness

-----------------------------------------------------------------------------
(* Properties.                                                             *)

ServerTypeOK ==
  /\ SchedulerTypeOK
  /\ setup \in Setup
  /\ acceptor \in {"getSocket", "accept", "setup", "start"}
  /\ mainSocket \in BOOLEAN
  /\ backlog \in Seq(Clients)
  /\ clientSocket \in Clients \cup {None}
  /\ session \in Clients \cup {None}
  /\ rmt \in Clients \cup {None}
  /\ conn \in [Clients -> {"away", "accepted", "thread", "job"}]
  /\ instance \in [Clients -> [socket : Clients \cup {None},
                               session : Clients \cup {None},
                               rmt : Clients \cup {None}]]
  /\ fds \in 0..setup.maxFds
  /\ lost \in Nat

Holding == {c \in Clients : conn[c] \in {"accepted", "thread"}}

(* Every open descriptor is the listening socket, the socket of a client   *)
(* that was accepted and not handed on, or one that is lost: no path of    *)
(* il_listen and serverThread closes one twice or forgets another one.     *)
DescriptorsAccounted ==
  fds = (IF mainSocket THEN 1 ELSE 0) + Cardinality(Holding) + lost

(* The config that serves a client in a thread has that client's socket,   *)
(* session and address, although il_listen uses the fields again for the   *)
(* next one.                                                               *)
ContextIsOwn ==
  \A c \in Clients : conn[c] = "thread" =>
    /\ instance[c].socket = c
    /\ instance[c].rmt = c
    /\ setup.secure => instance[c].session = c

(* Without TLS a queued client is accepted or cut off: it does not wait    *)
(* forever, whatever the other clients do.                                 *)
QueueMoves ==
  \A c \in Clients : (c \in Queued /\ ~setup.secure) ~> (c \notin Queued \/ ~Up)

(* After a failed accept the server listens again. *)
ListensAgain == ~mainSocket ~> (mainSocket \/ ~Up)
=============================================================================
