---------------------------- MODULE ServerProofs ----------------------------
(***************************************************************************)
(* Proofs about Server and the Scheduler in it, for any number of clients  *)
(* and descriptors and any timer.                                          *)
(***************************************************************************)
EXTENDS Server, SequenceTheorems, FiniteSetTheorems, TLAPS

-----------------------------------------------------------------------------
(* The scheduler thread.                                                   *)

(* How the counter, the time since the last call and the stage of the      *)
(* thread go together, and where the thread may be after SIGTERM.          *)
SchedulerInv ==
  /\ SchedulerTypeOK
  /\ ~plugin => gap = 0 /\ sec = 0 /\ scheduler # "call"
  /\ plugin /\ ~shutdownFlag =>
       /\ scheduler \in {"sleep", "exitTest"} => gap = sec /\ sec <= Timer + 1
       /\ scheduler = "test" => gap = sec + 1 /\ sec <= Timer + 1
       /\ scheduler = "call" => gap = sec /\ sec = Timer + 2
  /\ shutdownFlag /\ scheduler = "sleep" => gap <= Timer + 1
  /\ shutdownFlag /\ plugin /\ raised \in {"sleep", "test"} =>
       scheduler \in {"sleep", "test"} \/ finalCall
  /\ process = "sigterm" => shutdownFlag /\ scheduler = "exitTest"

(* The scheduler starts with no second passed and no call due. *)
LEMMA SchedulerInit == Init => SchedulerInv
<1>. SUFFICES ASSUME Init PROVE SchedulerInv
  OBVIOUS
<1>1. Timer \in Nat
  BY SchedulerAssumption
<1>2. plugin \in BOOLEAN
  <2>1. Plugins \subseteq BOOLEAN
    BY SchedulerAssumption, Zenon
  <2>2. plugin \in Plugins
    BY Zenon DEF Init
  <2>. QED
    BY <2>1, <2>2, Zenon
<1>3. 0 \in 0..(Timer + 2)
  BY <1>1
<1>4. SchedulerTypeOK
  BY <1>2, <1>3 DEF Init, SchedulerTypeOK
<1>. QED
  BY <1>1, <1>4 DEF Init, SchedulerInv

(* Every step of schedulerThread and of the signal handler keeps it. *)
LEMMA SchedulerStep ==
  SchedulerInv /\ (schedulerThread \/ catcher) => SchedulerInv'
<1>. SUFFICES ASSUME SchedulerInv, schedulerThread \/ catcher
              PROVE  SchedulerInv'
  OBVIOUS
<1>t. Timer \in Nat
  BY SchedulerAssumption
<1>. USE <1>t DEF SchedulerInv, SchedulerTypeOK, Up
<1>1. CASE catcher
  BY <1>1 DEF catcher
<1>2. CASE Tick
  BY <1>2 DEF Tick
<1>3. CASE TestSchedule
  BY <1>3 DEF TestSchedule, Due
<1>4. ASSUME NEW run \in BOOLEAN, PluginReturns(run) PROVE SchedulerInv'
  BY <1>4 DEF PluginReturns
<1>5. CASE ExitTest
  BY <1>5 DEF ExitTest
<1>. QED
  BY <1>1, <1>2, <1>3, <1>4, <1>5 DEF schedulerThread

(* il_listen and the connections leave the scheduler alone, except that    *)
(* il_listen may end the process.                                          *)
LEMMA SchedulerUntouched ==
  ASSUME SchedulerInv, UNCHANGED schedulerVars,
         process' = process \/ process' = "failure"
  PROVE  SchedulerInv'
BY DEF SchedulerInv, SchedulerTypeOK, schedulerVars

(* So does every step of the server. *)
LEMMA SchedulerInServer == SchedulerInv /\ [ServerNext]_allVars => SchedulerInv'
<1>. SUFFICES ASSUME SchedulerInv, [ServerNext]_allVars PROVE SchedulerInv'
  OBVIOUS
<1>1. CASE UNCHANGED allVars
  BY <1>1, SchedulerUntouched DEF allVars, vars
<1>2. CASE schedulerThread \/ catcher
  BY <1>2, SchedulerStep
<1>3. CASE (il_listen \/ Connections) /\ UNCHANGED schedulerVars
  <2>1. process' = process \/ process' = "failure"
    BY <1>3 DEF il_listen, getSocket, accept, acceptFails, setupSecureSocket,
                setupSecureSocketFails, startThread, startJob, startFails,
                Connections, Connect, serverThreadEnds, serverThreadDies, jobEnds
  <2>. QED
    BY <1>3, <2>1, SchedulerUntouched
<1>. QED
  BY <1>1, <1>2, <1>3 DEF ServerNext, Terminated

(* schedulerThread's counter follows the seconds since the last call, and  *)
(* a flag raised before the test gets its call, whatever il_listen does.   *)
THEOREM SchedulerInvariant == ServerSpec => []SchedulerInv
<1>1. ServerInit => SchedulerInv
  BY SchedulerInit DEF ServerInit
<1>. QED
  BY <1>1, SchedulerInServer, PTL DEF ServerSpec

(* Two calls of the plugin in a job that is not ending are Timer + 2       *)
(* wake-ups apart: the counter is compared with > before it is counted up. *)
(* (headers/ileastic.rpgle:894 calls Timer the "Seconds between calls".)    *)
SchedulerPeriod == scheduler = "call" /\ ~shutdownFlag => gap = Timer + 2

(* For every timer, two calls of the scheduler plugin are Timer + 2        *)
(* wake-ups of schedulerThread apart, until the job is to end.             *)
THEOREM PeriodHolds == ServerSpec => []SchedulerPeriod
<1>1. SchedulerInv => SchedulerPeriod
  BY DEF SchedulerInv, SchedulerPeriod
<1>. QED
  BY SchedulerInvariant, <1>1, PTL

(* A SIGTERM that reaches schedulerThread before it tests the flag gets    *)
(* the plugin its last call.                                               *)
THEOREM FinalCallHolds == ServerSpec => []FinalCall
<1>1. SchedulerInv => FinalCall
  BY DEF SchedulerInv, FinalCall
<1>. QED
  BY SchedulerInvariant, <1>1, PTL

-----------------------------------------------------------------------------
(* il_listen and the connections.                                          *)

(* A client is in one place at a time: queued, in the hands of il_listen,  *)
(* or served.                                                              *)
PlaceInv ==
  /\ \A i, j \in DOMAIN backlog : backlog[i] = backlog[j] => i = j
  /\ \A i \in DOMAIN backlog : conn[backlog[i]] = "away"
  /\ acceptor \in {"setup", "start"} =>
       clientSocket \in Clients /\ conn[clientSocket] = "accepted"
  /\ \A c \in Clients : conn[c] = "accepted" =>
       c = clientSocket /\ acceptor \in {"setup", "start"}
  /\ mainSocket <=> acceptor # "getSocket"
  /\ acceptor = "setup" => setup.secure
  /\ acceptor = "start" /\ setup.secure => session = clientSocket

ServerInv ==
  /\ ServerTypeOK
  /\ PlaceInv
  /\ DescriptorsAccounted
  /\ ContextIsOwn

(* How one client more or less changes the number of descriptors. *)
LEMMA HoldingFinite ==
  /\ IsFiniteSet(Holding) /\ Cardinality(Holding) \in Nat
  /\ \A c \in Clients \ Holding :
       Cardinality(Holding \cup {c}) = Cardinality(Holding) + 1
  /\ \A c \in Holding : Cardinality(Holding \ {c}) = Cardinality(Holding) - 1
<1>1. IsFiniteSet(Holding)
  BY ServerAssumption, FS_Subset DEF Holding
<1>. QED
  BY <1>1, FS_CardinalityType, FS_AddElement, FS_RemoveElement

(* il_listen starts with no descriptor and no client. *)
LEMMA ServerInitInv == ServerInit => ServerInv
<1>. SUFFICES ASSUME ServerInit PROVE ServerInv
  OBVIOUS
<1>1. SchedulerTypeOK
  BY SchedulerInit DEF ServerInit, SchedulerInv
<1>2. Holding = {} /\ backlog = <<>> /\ DOMAIN backlog = {}
  BY DEF ServerInit, Holding
<1>3. ServerTypeOK
  <2>1. setup \in Setup /\ fds \in 0..setup.maxFds
    BY ServerAssumption DEF ServerInit, Setup
  <2>2. conn \in [Clients -> {"away", "accepted", "thread", "job"}]
          /\ backlog \in Seq(Clients)
    BY DEF ServerInit
  <2>3. instance \in [Clients -> [socket : Clients \cup {None},
                                  session : Clients \cup {None},
                                  rmt : Clients \cup {None}]]
    BY DEF ServerInit, NoInstance
  <2>. QED
    BY <1>1, <2>1, <2>2, <2>3 DEF ServerInit, ServerTypeOK
<1>4. PlaceInv
  BY <1>2 DEF ServerInit, PlaceInv
<1>5. DescriptorsAccounted
  BY <1>2, FS_EmptySet DEF ServerInit, DescriptorsAccounted
<1>. QED
  BY <1>3, <1>4, <1>5 DEF ServerInit, ServerInv, ContextIsOwn

(* Every step of il_listen and of a connection accounts for the            *)
(* descriptors it opens and closes, and keeps each client's context.       *)
LEMMA ServerInvStep == ServerInv /\ SchedulerTypeOK' /\ [ServerNext]_allVars => ServerInv'
<1>. SUFFICES ASSUME ServerInv, SchedulerTypeOK', [ServerNext]_allVars
              PROVE  ServerInv'
  OBVIOUS
<1>. USE DEF connVars, fdVars, configVars
<1>m. setup.maxFds \in Nat /\ None \notin Clients
  BY ServerAssumption DEF ServerInv, ServerTypeOK, Setup
<1>f. /\ lost \in Nat /\ fds \in 0..setup.maxFds /\ Cardinality(Holding) \in Nat
      /\ fds = (IF mainSocket THEN 1 ELSE 0) + Cardinality(Holding) + lost
  BY HoldingFinite DEF ServerInv, ServerTypeOK, DescriptorsAccounted
<1>1. ASSUME UNCHANGED serverVars PROVE ServerInv'
  BY <1>1 DEF serverVars, ServerInv, ServerTypeOK, PlaceInv,
              DescriptorsAccounted, Holding, ContextIsOwn
<1>2. ASSUME NEW c \in Clients, Connect(c) PROVE ServerInv'
  <2>1. backlog \in Seq(Clients) /\ c \notin Queued
    BY <1>2 DEF Connect, ServerInv, ServerTypeOK
  <2>2. /\ backlog' \in Seq(Clients)
        /\ DOMAIN backlog = 1..Len(backlog) /\ Len(backlog) \in Nat
        /\ DOMAIN backlog' = 1..(Len(backlog) + 1)
        /\ \A i \in 1..Len(backlog) : backlog'[i] = backlog[i]
        /\ backlog'[Len(backlog) + 1] = c
    BY <1>2, <2>1, AppendProperties, LenProperties DEF Connect
  <2>3. \A i \in 1..Len(backlog) : backlog[i] # c
    BY <2>1, <2>2 DEF Queued
  <2>4. PlaceInv'
    BY <1>2, <2>2, <2>3 DEF Connect, ServerInv, PlaceInv
  <2>5. Holding' = Holding
    BY <1>2 DEF Connect, Holding
  <2>. QED
    BY <1>2, <2>2, <2>4, <2>5
    DEF Connect, ServerInv, ServerTypeOK, DescriptorsAccounted, ContextIsOwn
<1>3. CASE getSocket
  <2>1. Holding' = Holding /\ fds + 1 \in 0..setup.maxFds /\ ~mainSocket
    BY <1>3, <1>f, <1>m DEF getSocket, Holding, ServerInv, PlaceInv
  <2>2. DescriptorsAccounted'
    BY <1>3, <1>f, <2>1 DEF getSocket, DescriptorsAccounted
  <2>3. PlaceInv'
    BY <1>3 DEF getSocket, ServerInv, PlaceInv
  <2>. QED
    BY <1>3, <2>1, <2>2, <2>3
    DEF getSocket, ServerInv, ServerTypeOK, ContextIsOwn
<1>4. CASE accept
  <2>. DEFINE c == Head(backlog)
  <2>1. backlog \in Seq(Clients) /\ backlog # <<>>
    BY <1>4 DEF accept, ServerInv, ServerTypeOK
  <2>2. /\ c \in Clients /\ c = backlog[1]
        /\ DOMAIN backlog = 1..Len(backlog) /\ Len(backlog) \in Nat \ {0}
        /\ backlog' \in Seq(Clients)
        /\ Len(backlog') = Len(backlog) - 1
        /\ DOMAIN backlog' = 1..(Len(backlog) - 1)
        /\ \A i \in 1..(Len(backlog) - 1) : backlog'[i] = backlog[i + 1]
    BY <1>4, <2>1, HeadTailProperties, LenProperties, EmptySeq DEF accept
  <2>. HIDE DEF c
  <2>3. conn[c] = "away"
    BY <2>2 DEF ServerInv, PlaceInv
  <2>4. /\ conn' = [conn EXCEPT ![c] = "accepted"] /\ clientSocket' = c
        /\ UNCHANGED <<setup, mainSocket, session, rmt, instance, lost>>
        /\ acceptor = "accept" /\ acceptor' \in {"setup", "start"}
        /\ acceptor' = IF setup.secure THEN "setup" ELSE "start"
        /\ fds < setup.maxFds /\ fds' = fds + 1
    BY <1>4 DEF accept, c
  <2>5. conn \in [Clients -> {"away", "accepted", "thread", "job"}]
    BY DEF ServerInv, ServerTypeOK
  <2>6. Holding' = Holding \cup {c} /\ c \notin Holding
    BY <2>2, <2>3, <2>4, <2>5 DEF Holding
  <2>7. DescriptorsAccounted'
    <3>1. c \in Clients \ Holding
      BY <2>2, <2>6
    <3>2. Cardinality(Holding') = Cardinality(Holding) + 1
      BY <2>6, <3>1, HoldingFinite
    <3>. QED
      BY <1>f, <2>4, <3>2 DEF DescriptorsAccounted
  <2>8. \A i \in 1..(Len(backlog) - 1) : backlog[i + 1] # c
    BY <2>2 DEF ServerInv, PlaceInv
  <2>9. PlaceInv'
    <3>1. \A i, j \in DOMAIN backlog' : backlog'[i] = backlog'[j] => i = j
      BY <2>2 DEF ServerInv, PlaceInv
    <3>2. \A i \in DOMAIN backlog' : conn'[backlog'[i]] = "away"
      <4>1. SUFFICES ASSUME NEW i \in 1..(Len(backlog) - 1)
                     PROVE  conn'[backlog'[i]] = "away"
        BY <2>2
      <4>2. i + 1 \in DOMAIN backlog /\ backlog'[i] = backlog[i + 1]
        BY <2>2
      <4>3. backlog[i + 1] \in Clients /\ conn[backlog[i + 1]] = "away"
        BY <2>1, <2>2, <4>2, ElementOfSeq DEF ServerInv, PlaceInv
      <4>. QED
        BY <2>4, <2>5, <2>8, <4>2, <4>3
    <3>. QED
      BY <2>2, <2>4, <2>5, <3>1, <3>2 DEF ServerInv, PlaceInv
  <2>10. ServerTypeOK'
    <3>1. fds' \in 0..setup.maxFds /\ lost' \in Nat
      BY <1>m, <1>f, <2>4
    <3>2. conn' \in [Clients -> {"away", "accepted", "thread", "job"}]
            /\ acceptor' \in {"getSocket", "accept", "setup", "start"}
      BY <2>4, <2>5
    <3>. QED
      BY <2>2, <2>4, <3>1, <3>2 DEF ServerInv, ServerTypeOK
  <2>11. ContextIsOwn'
    BY <2>2, <2>4, <2>5 DEF ServerInv, ContextIsOwn
  <2>. QED
    BY <2>7, <2>9, <2>10, <2>11 DEF ServerInv
<1>5. CASE acceptFails
  <2>1. Holding' = Holding /\ mainSocket
    BY <1>5 DEF acceptFails, Holding, ServerInv, PlaceInv
  <2>2. fds - 1 \in 0..setup.maxFds /\ DescriptorsAccounted'
    BY <1>5, <1>f, <1>m, <2>1 DEF acceptFails, DescriptorsAccounted
  <2>3. PlaceInv'
    BY <1>5 DEF acceptFails, ServerInv, PlaceInv
  <2>. QED
    BY <1>5, <2>2, <2>3, EmptySeq
    DEF acceptFails, ServerInv, ServerTypeOK, ContextIsOwn
<1>6. CASE setupSecureSocket
  <2>1. Holding' = Holding
    BY <1>6 DEF setupSecureSocket, Holding
  <2>2. PlaceInv'
    BY <1>6 DEF setupSecureSocket, ServerInv, PlaceInv
  <2>. QED
    BY <1>6, <2>1, <2>2
    DEF setupSecureSocket, ServerInv, ServerTypeOK, PlaceInv,
        DescriptorsAccounted, ContextIsOwn
<1>7. CASE setupSecureSocketFails
  <2>1. clientSocket \in Clients /\ conn[clientSocket] = "accepted" /\ setup.secure
    BY <1>7 DEF setupSecureSocketFails, ServerInv, PlaceInv
  <2>2. conn \in [Clients -> {"away", "accepted", "thread", "job"}]
    BY DEF ServerInv, ServerTypeOK
  <2>3. Holding' = Holding \ {clientSocket} /\ clientSocket \in Holding
    BY <1>7, <2>1, <2>2 DEF setupSecureSocketFails, Holding
  <2>4. DescriptorsAccounted'
    BY <1>7, <1>f, <2>3, HoldingFinite
    DEF setupSecureSocketFails, DescriptorsAccounted
  <2>5. PlaceInv'
    BY <1>7, <2>1, <2>2 DEF setupSecureSocketFails, ServerInv, PlaceInv
  <2>6. ServerTypeOK'
    BY <1>7, <1>f, <2>1, <2>2 DEF setupSecureSocketFails, ServerInv, ServerTypeOK
  <2>7. ContextIsOwn'
    BY <1>7, <2>1, <2>2
    DEF setupSecureSocketFails, ServerInv, ContextIsOwn
  <2>. QED
    BY <2>4, <2>5, <2>6, <2>7 DEF ServerInv
<1>8. ASSUME startThread \/ startJob PROVE ServerInv'
  <2>1. PICK s \in {"thread", "job"} :
          /\ conn' = [conn EXCEPT ![clientSocket] = s]
          /\ fds' = IF s = "thread" THEN fds ELSE fds - 1
          /\ instance' = IF s = "thread"
                           THEN [instance EXCEPT ![clientSocket] = NewInstance]
                           ELSE instance
    BY <1>8 DEF startThread, startJob
  <2>2. /\ acceptor = "start" /\ acceptor' = "accept"
        /\ rmt' = clientSocket /\ clientSocket' = None
        /\ UNCHANGED <<setup, mainSocket, backlog, session, lost>>
    BY <1>8 DEF startThread, startJob
  <2>3. /\ clientSocket \in Clients /\ conn[clientSocket] = "accepted"
        /\ setup.secure => session = clientSocket
    BY <2>2 DEF ServerInv, PlaceInv
  <2>4. /\ conn \in [Clients -> {"away", "accepted", "thread", "job"}]
        /\ instance \in [Clients -> [socket : Clients \cup {None},
                                     session : Clients \cup {None},
                                     rmt : Clients \cup {None}]]
        /\ session \in Clients \cup {None}
    BY DEF ServerInv, ServerTypeOK
  <2>5. clientSocket \in Holding
    BY <2>3 DEF Holding
  <2>6. DescriptorsAccounted' /\ fds' \in 0..setup.maxFds
    <3>1. CASE s = "thread"
      <4>1. Holding' = Holding
        BY <2>1, <2>3, <2>4, <3>1 DEF Holding
      <4>. QED
        BY <1>f, <2>1, <2>2, <3>1, <4>1 DEF DescriptorsAccounted
    <3>2. CASE s = "job"
      <4>1. Holding' = Holding \ {clientSocket}
        BY <2>1, <2>3, <2>4, <3>2 DEF Holding
      <4>2. Cardinality(Holding') = Cardinality(Holding) - 1
              /\ Cardinality(Holding') \in Nat
        <5>1. IsFiniteSet(Holding \ {clientSocket})
          BY HoldingFinite, FS_RemoveElement
        <5>. QED
          BY <2>5, <4>1, <5>1, HoldingFinite, FS_CardinalityType
      <4>. QED
        BY <1>f, <1>m, <2>1, <2>2, <3>2, <4>2 DEF DescriptorsAccounted
    <3>. QED
      BY <3>1, <3>2
  <2>7. PlaceInv'
    <3>1. \A i \in DOMAIN backlog : backlog[i] # clientSocket
      BY <2>3 DEF ServerInv, PlaceInv
    <3>2. \A i \in DOMAIN backlog : backlog[i] \in Clients
      BY ElementOfSeq, LenProperties DEF ServerInv, ServerTypeOK
    <3>. QED
      BY <2>1, <2>2, <2>3, <2>4, <3>1, <3>2 DEF ServerInv, PlaceInv
  <2>8. ContextIsOwn'
    BY <2>1, <2>2, <2>3, <2>4 DEF ServerInv, ContextIsOwn, NewInstance
  <2>9. NewInstance \in [socket : Clients \cup {None}, session : Clients \cup {None},
                         rmt : Clients \cup {None}]
    BY <2>3, <2>4 DEF NewInstance
  <2>10. ServerTypeOK'
    BY <2>1, <2>2, <2>3, <2>4, <2>6, <2>9 DEF ServerInv, ServerTypeOK
  <2>. QED
    BY <2>2, <2>6, <2>7, <2>8, <2>10 DEF ServerInv
<1>9. CASE startFails
  BY <1>1, <1>9 DEF startFails
<1>10. ASSUME NEW c \in Clients, serverThreadEnds(c) \/ serverThreadDies(c)
       PROVE  ServerInv'
  <2>1. /\ conn[c] = "thread"
        /\ conn' = [conn EXCEPT ![c] = "away"]
        /\ instance' = [instance EXCEPT ![c] = NoInstance]
        /\ UNCHANGED <<setup, acceptor, mainSocket, backlog, clientSocket, configVars>>
    BY <1>10 DEF serverThreadEnds, serverThreadDies
  <2>2. \/ fds' = fds - 1 /\ UNCHANGED lost
        \/ UNCHANGED fds /\ lost' = lost + 1
    BY <1>10 DEF serverThreadEnds, serverThreadDies
  <2>3. conn \in [Clients -> {"away", "accepted", "thread", "job"}]
    BY DEF ServerInv, ServerTypeOK
  <2>4. Holding' = Holding \ {c} /\ c \in Holding
    BY <2>1, <2>3 DEF Holding
  <2>5. Cardinality(Holding') = Cardinality(Holding) - 1 /\ Cardinality(Holding') \in Nat
    <3>1. IsFiniteSet(Holding \ {c})
      BY HoldingFinite, FS_RemoveElement
    <3>. QED
      BY <2>4, <3>1, HoldingFinite, FS_CardinalityType
  <2>6. DescriptorsAccounted' /\ fds' \in 0..setup.maxFds /\ lost' \in Nat
    BY <1>f, <1>m, <2>1, <2>2, <2>5 DEF DescriptorsAccounted
  <2>7. PlaceInv'
    BY <2>1, <2>3 DEF ServerInv, PlaceInv
  <2>8. ServerTypeOK'
    BY <2>1, <2>3, <2>6 DEF ServerInv, ServerTypeOK, NoInstance
  <2>9. ContextIsOwn'
    BY <1>f, <2>1, <2>2, <2>3 DEF ServerInv, ServerTypeOK, ContextIsOwn
  <2>. QED
    BY <2>6, <2>7, <2>8, <2>9 DEF ServerInv
<1>11. ASSUME NEW c \in Clients, jobEnds(c) PROVE ServerInv'
  <2>1. conn \in [Clients -> {"away", "accepted", "thread", "job"}]
    BY DEF ServerInv, ServerTypeOK
  <2>2. Holding' = Holding
    BY <1>11, <2>1 DEF jobEnds, Holding
  <2>3. PlaceInv'
    BY <1>11, <2>1 DEF jobEnds, ServerInv, PlaceInv
  <2>4. DescriptorsAccounted'
    BY <1>11, <2>2 DEF jobEnds, ServerInv, DescriptorsAccounted
  <2>5. ServerTypeOK'
    BY <1>11, <2>1 DEF jobEnds, ServerInv, ServerTypeOK, NoInstance
  <2>. QED
    BY <1>11, <2>1, <2>3, <2>4, <2>5
    DEF jobEnds, ServerInv, ContextIsOwn
<1>. QED
  BY <1>1, <1>2, <1>3, <1>4, <1>5, <1>6, <1>7, <1>8, <1>9, <1>10, <1>11
  DEF ServerNext, il_listen, Connections, Terminated, allVars

(* In every reachable state il_listen's position, its descriptors and the  *)
(* contexts of its clients agree.                                          *)
THEOREM ServerInvariant == ServerSpec => []ServerInv
<1>1. SchedulerInv => SchedulerTypeOK
  BY DEF SchedulerInv
<1>. QED
  BY <1>1, SchedulerInvariant, ServerInitInv, ServerInvStep, PTL DEF ServerSpec

(* Every variable of the server has its type. *)
THEOREM ServerTypeCorrect == ServerSpec => []ServerTypeOK
<1>1. ServerInv => ServerTypeOK
  BY DEF ServerInv
<1>. QED
  BY ServerInvariant, <1>1, PTL

(* Whatever fails and in whatever order connections come and go, the open  *)
(* descriptors are those the server still has a use for and the lost ones. *)
THEOREM DescriptorsHold == ServerSpec => []DescriptorsAccounted
<1>1. ServerInv => DescriptorsAccounted
  BY DEF ServerInv
<1>. QED
  BY ServerInvariant, <1>1, PTL

(* A connection in a thread is served with its own socket, session and     *)
(* address, for any number of connections at a time.                       *)
THEOREM ContextHolds == ServerSpec => []ContextIsOwn
<1>1. ServerInv => ContextIsOwn
  BY DEF ServerInv
<1>. QED
  BY ServerInvariant, <1>1, PTL
=============================================================================
