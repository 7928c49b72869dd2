------------------------ MODULE ClientsAndServer_proofs ------------------------
(***************************************************************************)
(* What holds of the clients and the accept loop for any number of clients *)
(* and retries and any length of the listener's queue.  RetryArmed is not  *)
(* inductive: a client that has used up its retries does not start its     *)
(* timer, so it must be known that a retry that was counted came from a    *)
(* timer that still runs (CountedByTimer).                                 *)
(***************************************************************************)
EXTENDS ClientsAndServer, TLAPS

(* A retry is counted only while the timer runs, and the timer is stopped  *)
(* only where the count is reset.                                          *)
CountedByTimer == \A c \in Clients : retryCount[c] > 0 => retryTimer[c]

Inv ==
    /\ ServerTypeOK /\ CountedByTimer
    /\ TimersFollowTheSocket /\ RetryArmed /\ NobodyIsForgotten

(* The queue keeps its type and its length when a client lets go. *)
LEMMA QueueWithoutType ==
    ASSUME NEW c \in Clients, ServerTypeOK
    PROVE  /\ QueueWithout(c) \in Seq(Clients \cup {Broken})
           /\ Len(QueueWithout(c)) = Len(queue)
<1> DEFINE S == Clients \cup {Broken}
           q == QueueWithout(c)
<1>1. queue \in Seq(S) /\ Len(queue) \in Nat /\ DOMAIN queue = 1..Len(queue)
  BY DEF ServerTypeOK
<1>2. \A i \in 1..Len(queue) : queue[i] \in S
  BY <1>1
<1>3. q \in [1..Len(queue) -> S]
  BY <1>1, <1>2 DEF QueueWithout
<1>4. q \in Seq(S)
  BY <1>1, <1>3
<1>5. Len(q) = Len(queue)
  BY <1>1, <1>3, <1>4
<1> QED BY <1>4, <1>5

(* Every variable of a new connection attempt's server side keeps its type. *)
LEMMA OpensTypes ==
    ASSUME NEW c \in Clients, Inv, Opens(c), Arrives(c) \/ GetsLost(c)
    PROVE  /\ queue' \in Seq(Clients \cup {Broken}) /\ Len(queue') <= Backlog
           /\ serving' \in Clients \cup {Nobody, Broken, Closed}
           /\ running' \in BOOLEAN /\ orphans' \subseteq Clients
           /\ unread' \in {"none", "zlib", "gzip"}
           /\ NobodyIsForgotten'
<1>1. /\ QueueWithout(c) \in Seq(Clients \cup {Broken})
      /\ Len(QueueWithout(c)) = Len(queue)
  BY QueueWithoutType DEF Inv
<1>2. queue' \in Seq(Clients \cup {Broken}) /\ Len(queue') <= Backlog
  <2>1. CASE Arrives(c)
    BY <1>1, <2>1, BacklogAssumption DEF Arrives, Inv, ServerTypeOK
  <2>2. CASE GetsLost(c)
    BY <1>1, <2>2 DEF GetsLost, Inv, ServerTypeOK
  <2> QED BY <2>1, <2>2
<1> QED
  BY <1>2 DEF Opens, LetsGo, Inv, ServerTypeOK, NobodyIsForgotten

(* What the parts of Inv that speak of clients say; a step that leaves the *)
(* clients alone preserves it.                                             *)
ClientInv ==
    /\ ClientTypeOK /\ CountedByTimer /\ TimersFollowTheSocket /\ RetryArmed

(* A step that changes no client keeps what is said of the clients. *)
LEMMA ClientInvStays ==
    ASSUME ClientInv, UNCHANGED clientVars PROVE ClientInv'
  BY DEF ClientInv, clientVars, timers, ClientTypeOK, CountedByTimer,
         TimersFollowTheSocket, RetryArmed

(* connectUrl opens the socket and leaves the timers: nothing is owed. *)
LEMMA ConnectUrlKeeps ==
    ASSUME NEW c \in Clients, ClientInv, connectUrl(c) PROVE ClientInv'
  BY RetryAssumption
     DEF ClientInv, connectUrl, open, timers, ClientTypeOK, CountedByTimer,
         TimersFollowTheSocket, RetryArmed

(* A retry opens the socket again, with its timer still active. *)
LEMMA RetryKeeps ==
    ASSUME NEW c \in Clients, ClientInv, onRetryConnection(c) PROVE ClientInv'
  BY RetryAssumption
     DEF ClientInv, onRetryConnection, open, timers, ClientTypeOK,
         CountedByTimer, TimersFollowTheSocket, RetryArmed

(* The slot onConnected stops the retry timer it no longer needs. *)
LEMMA ConnectedKeeps ==
    ASSUME NEW c \in Clients, ClientInv, onConnected(c) PROVE ClientInv'
  BY RetryAssumption
     DEF ClientInv, onConnected, ClientTypeOK, CountedByTimer,
         TimersFollowTheSocket, RetryArmed

(* The slot onDisconnected leaves a retry timer, new or old, active. *)
LEMMA DisconnectedKeeps ==
    ASSUME NEW c \in Clients, ClientInv, onDisconnected(c) PROVE ClientInv'
  BY RetryAssumption
     DEF ClientInv, onDisconnected, ClientTypeOK, CountedByTimer,
         TimersFollowTheSocket, RetryArmed

(* A program that has ended owes no retry. *)
LEMMA QuitKeeps ==
    ASSUME NEW c \in Clients, ClientInv, Quit(c) PROVE ClientInv'
  BY RetryAssumption
     DEF ClientInv, Quit, ClientTypeOK, CountedByTimer,
         TimersFollowTheSocket, RetryArmed

(* The rest of Inv, about the server's side. *)
ServerInv ==
    /\ queue \in Seq(Clients \cup {Broken}) /\ Len(queue) <= Backlog
    /\ serving \in Clients \cup {Nobody, Broken, Closed}
    /\ running \in BOOLEAN /\ orphans \subseteq Clients
    /\ unread \in {"none", "zlib", "gzip"}
    /\ NobodyIsForgotten

(* Inv in its two parts, before and after a step. *)
LEMMA InvParts == Inv <=> ClientInv /\ ServerInv
  BY DEF Inv, ClientInv, ServerInv, ServerTypeOK

(* The same after a step. *)
LEMMA InvPartsPrimed == Inv' <=> ClientInv' /\ ServerInv'
  BY DEF Inv, ClientInv, ServerInv, ServerTypeOK

(* Nobody is connected at the start. *)
LEMMA InitInv == Init => Inv
  BY RetryAssumption, BacklogAssumption
     DEF Init, ClientInit, Inv, ServerTypeOK, ClientTypeOK, CountedByTimer,
         TimersFollowTheSocket, RetryArmed, NobodyIsForgotten

(* A message or the end of a connection leaves the served client, if any,  *)
(* without a reader only when the loop ends.                               *)
LEMMA ReceivesKeeps ==
    ASSUME Inv, Receives PROVE Inv'
<1>1. ClientInv'
  BY ClientInvStays, InvParts
     DEF Receives, ReceiveMessage, ReceiveClose, ReceiveThrows, HandlerLeft
<1>2. ServerInv'
  <2>1. CASE ReceiveMessage
    BY <2>1, InvParts
       DEF ReceiveMessage, HandlerLeft, ServerInv, NobodyIsForgotten
  <2>2. CASE ReceiveClose
    BY <2>2, InvParts, NamesAssumption
       DEF ReceiveClose, HandlerLeft, ServerInv, NobodyIsForgotten
  <2>3. CASE ReceiveThrows
    BY <2>3, InvParts, NamesAssumption
       DEF ReceiveThrows, HandlerLeft, ServerInv, NobodyIsForgotten
  <2> QED BY <2>1, <2>2, <2>3 DEF Receives
<1> QED BY <1>1, <1>2, InvPartsPrimed

(* Accepting shortens the queue of the listener. *)
LEMMA TailQueue ==
    ASSUME ServerInv, queue # <<>>
    PROVE  /\ Tail(queue) \in Seq(Clients \cup {Broken})
           /\ Len(Tail(queue)) <= Backlog
<1>1. Len(queue) \in Nat /\ Backlog \in Nat
  BY BacklogAssumption DEF ServerInv
<1>2. Tail(queue) \in Seq(Clients \cup {Broken}) /\ Len(Tail(queue)) = Len(queue) - 1
  BY DEF ServerInv
<1> QED BY <1>1, <1>2 DEF ServerInv

(* Every step of a client, the server or the world keeps Inv. *)
LEMMA NextInv == Inv /\ [Next]_allVars => Inv'
<1> SUFFICES ASSUME Inv, [Next]_allVars PROVE ClientInv' /\ ServerInv'
  BY InvPartsPrimed
<1> USE InvParts
<1>1. ASSUME NEW c \in Clients, ClientStep(c) PROVE ClientInv' /\ ServerInv'
  <2>1. CASE Connect(c)
    BY <2>1, ConnectUrlKeeps, OpensTypes DEF Connect, ServerInv
  <2>2. CASE RetryArrives(c) \/ RetryGetsLost(c)
    BY <2>2, RetryKeeps, OpensTypes DEF RetryArrives, RetryGetsLost, ServerInv
  <2>3. CASE Connected(c)
    BY <2>3, ConnectedKeeps
       DEF Connected, ServerInv, serverVars, NobodyIsForgotten
  <2>4. CASE Disconnected(c)
    BY <2>4, DisconnectedKeeps
       DEF Disconnected, ServerInv, serverVars, NobodyIsForgotten
  <2>5. CASE Sends(c)
    <3>1. ClientInv'
      BY <2>5, ClientInvStays DEF Sends
    <3>2. ServerInv'
      BY <2>5 DEF Sends, doCompress, ServerInv, NobodyIsForgotten
    <3> QED BY <3>1, <3>2
  <2>6. CASE Leave(c)
    <3>1. ClientInv'
      BY <2>6, QuitKeeps DEF Leave
    <3>2. ServerInv'
      BY <2>6, QueueWithoutType DEF Leave, LetsGo, Inv, ServerInv, NobodyIsForgotten
    <3> QED BY <3>1, <3>2
  <2> QED
    BY <1>1, <2>1, <2>2, <2>3, <2>4, <2>5, <2>6
       DEF ClientStep, sendMessage, onSendHeartbeat
<1>2. ASSUME NEW c \in Clients, Accept(c) PROVE ClientInv' /\ ServerInv'
  BY <1>2, ClientInvStays, TailQueue
     DEF Accept, AcceptNext, ServerInv, NobodyIsForgotten
<1>3. ASSUME NEW c \in Clients, Break(c) PROVE ClientInv' /\ ServerInv'
  <2>1. ClientInv'
    BY <1>3, ClientInvStays DEF Break
  <2>2. ServerInv'
    BY <1>3, QueueWithoutType DEF Break, LetsGo, Inv, ServerInv, NobodyIsForgotten
  <2> QED BY <2>1, <2>2
<1>4. CASE AcceptBroken
  <2>1. ClientInv'
    BY <1>4, ClientInvStays DEF AcceptBroken
  <2>2. ServerInv'
    BY <1>4, TailQueue DEF AcceptBroken, AcceptNext, ServerInv, NobodyIsForgotten
  <2> QED BY <2>1, <2>2
<1>5. CASE Receives
  BY <1>5, ReceivesKeeps, InvPartsPrimed
<1>6. CASE Restart
  <2>1. ClientInv'
    BY <1>6, ClientInvStays DEF Restart
  <2>2. ServerInv'
    BY <1>6, BacklogAssumption DEF Restart, ServerInv, NobodyIsForgotten
  <2> QED BY <2>1, <2>2
<1>7. CASE UNCHANGED allVars
  BY <1>7, ClientInvStays DEF allVars, serverVars, ServerInv, NobodyIsForgotten
<1> QED BY <1>1, <1>2, <1>3, <1>4, <1>5, <1>6, <1>7 DEF Next

(* Inv holds in every reachable state of clients and server. *)
THEOREM InvHolds == Spec => []Inv
  BY InitInv, NextInv, PTL DEF Spec

(* Every variable of clients and server keeps its type. *)
THEOREM ClientServerTypesHold == Spec => []ServerTypeOK
<1>1. Inv => ServerTypeOK  BY DEF Inv
<1> QED BY <1>1, InvHolds, PTL

(* A connected client sends heartbeats and has no retry pending, and no    *)
(* heartbeat runs without a socket (onConnected, onDisconnected).          *)
THEOREM TimersHold == Spec => []TimersFollowTheSocket
<1>1. Inv => TimersFollowTheSocket  BY DEF Inv
<1> QED BY <1>1, InvHolds, PTL

(* A started client without a connection has its retry timer running,      *)
(* whatever the number of failures: it never gives up.                     *)
THEOREM RetriesGoOn == Spec => []RetryArmed
<1>1. Inv => RetryArmed  BY DEF Inv
<1> QED BY <1>1, InvHolds, PTL

(* While the accept loop runs no client sits on an accepted connection     *)
(* that nobody reads.                                                      *)
THEOREM NobodyForgotten == Spec => []NobodyIsForgotten
<1>1. Inv => NobodyIsForgotten  BY DEF Inv
<1> QED BY <1>1, InvHolds, PTL

-----------------------------------------------------------------------------
(* The connections of one client.                                          *)

(* Client and server mean the same connection: whatever a client lets go   *)
(* of, retries and opens again, it is in the listener's queue at most      *)
(* once, not while the server reads from it or has left it behind, and not *)
(* while the client takes itself for connected: the answer it got was not  *)
(* for a connection it had given up.                                       *)
OneConnection(c) ==
    /\ \A i, j \in DOMAIN queue : queue[i] = c /\ queue[j] = c => i = j
    /\ c \in Queued => ~Accepted(c)
    /\ serving = c => c \notin orphans
    /\ socket[c] = "connected" => c \notin Queued

OneConnectionEach == \A c \in Clients : OneConnection(c)

(* What client c gives up is no longer in the queue, and nothing else      *)
(* changes place.                                                          *)
LEMMA QueueWithoutPlaces ==
    ASSUME NEW c \in Clients, NEW d \in Clients
    PROVE  /\ DOMAIN QueueWithout(c) = DOMAIN queue
           /\ \A i \in DOMAIN queue : QueueWithout(c)[i] = d <=> queue[i] = d /\ d # c
  BY NamesAssumption DEF QueueWithout

(* A step that leaves d its place in the queue, or takes it away. *)
LEMMA OneConnectionStays ==
    ASSUME NEW d \in Clients, OneConnection(d),
           DOMAIN queue' = DOMAIN queue,
           \A i \in DOMAIN queue : queue'[i] = d => queue[i] = d,
           serving' = d => serving = d, d \in orphans' => d \in orphans,
           socket'[d] = "connected" => socket[d] = "connected" \/ Accepted(d)
    PROVE  OneConnection(d)'
  BY DEF OneConnection, Queued, Accepted

(* A new connection goes to the end of the queue, where its client had     *)
(* none left.                                                              *)
LEMMA OpensKeeps ==
    ASSUME Inv, OneConnectionEach, NEW c \in Clients, open(c), Opens(c),
           Arrives(c) \/ GetsLost(c), NEW d \in Clients
    PROVE  OneConnection(d)'
<1>0. OneConnection(d)
  BY DEF OneConnectionEach
<1>1. /\ QueueWithout(c) \in Seq(Clients \cup {Broken}) /\ Len(queue) \in Nat
      /\ Len(QueueWithout(c)) = Len(queue) /\ DOMAIN queue = 1..Len(queue)
  BY QueueWithoutType DEF Inv, ServerTypeOK
<1>2. /\ socket'[d] = IF d = c THEN "connecting" ELSE socket[d]
      /\ serving' = d => serving = d /\ d # c
      /\ d \in orphans' => d \in orphans /\ d # c
  BY NamesAssumption DEF open, Opens, LetsGo, Inv, ServerTypeOK, ClientTypeOK
<1>3. CASE GetsLost(c)
  BY <1>0, <1>2, <1>3, QueueWithoutPlaces, OneConnectionStays DEF GetsLost
<1>4. CASE Arrives(c)
  <2>1. queue' = Append(QueueWithout(c), c)
    BY <1>4 DEF Arrives
  <2>2. /\ DOMAIN queue' = 1..(Len(queue) + 1)
        /\ queue'[Len(queue) + 1] = c
        /\ \A i \in 1..Len(queue) : queue'[i] = QueueWithout(c)[i]
    BY <1>1, <2>1
  <2>3. \A i \in 1..Len(queue) : queue'[i] = d <=> queue[i] = d /\ d # c
    BY <1>1, <2>2, QueueWithoutPlaces
  <2>4. CASE d = c
    <3>1. \A i \in DOMAIN queue' : queue'[i] = c => i = Len(queue) + 1
      BY <1>1, <2>2, <2>3, <2>4
    <3> QED BY <1>2, <2>4, <3>1 DEF OneConnection, Queued, Accepted
  <2>5. CASE d # c
    <3>1. \A i \in DOMAIN queue' : queue'[i] = d => i \in DOMAIN queue /\ queue[i] = d
      BY <1>1, <2>2, <2>3, <2>5
    <3> QED BY <1>0, <1>2, <2>5, <3>1 DEF OneConnection, Queued, Accepted
  <2> QED BY <2>4, <2>5
<1> QED BY <1>3, <1>4

(* The server takes the first connection out of the queue. *)
LEMMA TailPlaces ==
    ASSUME Inv, AcceptNext
    PROVE  /\ DOMAIN queue = 1..Len(queue) /\ Len(queue) \in Nat \ {0}
           /\ DOMAIN queue' = 1..(Len(queue) - 1)
           /\ \A i \in DOMAIN queue' : queue'[i] = queue[i + 1]
           /\ Head(queue) = queue[1]
<1>1. queue \in Seq(Clients \cup {Broken}) /\ queue # <<>> /\ queue' = Tail(queue)
  BY DEF Inv, ServerTypeOK, AcceptNext
<1>2. Len(queue) \in Nat \ {0} /\ DOMAIN queue = 1..Len(queue)
  BY <1>1
<1>3. /\ DOMAIN Tail(queue) = 1..(Len(queue) - 1)
      /\ \A i \in 1..(Len(queue) - 1) : Tail(queue)[i] = queue[i + 1]
  BY <1>1, <1>2
<1> QED BY <1>1, <1>2, <1>3

(* The connection that is accepted was the only one of its client. *)
LEMMA AcceptKeeps ==
    ASSUME Inv, OneConnectionEach, AcceptNext, NEW d \in Clients,
           UNCHANGED <<clientVars, orphans>>,
           serving' = d => Head(queue) = d
    PROVE  OneConnection(d)'
<1>1. OneConnection(d) /\ serving = Nobody
  BY DEF OneConnectionEach, AcceptNext
<1>2. \A i \in DOMAIN queue' : i + 1 \in DOMAIN queue /\ i + 1 # 1
  BY TailPlaces
<1>3. \A i, j \in DOMAIN queue' : i + 1 = j + 1 => i = j
  BY TailPlaces
<1>4. d \in Queued' => d \in Queued /\ Head(queue) # d
  <2> SUFFICES ASSUME NEW i \in DOMAIN queue', queue'[i] = d
               PROVE  d \in Queued /\ Head(queue) # d
    BY DEF Queued
  <2>1. queue[i + 1] = d /\ i + 1 \in DOMAIN queue /\ i + 1 # 1 /\ 1 \in DOMAIN queue
    BY <1>2, TailPlaces
  <2> QED BY <1>1, <2>1, TailPlaces DEF OneConnection, Queued
<1>5. Head(queue) = d => d \in Queued
  BY TailPlaces DEF Queued
<1>6. \A i, j \in DOMAIN queue' : queue'[i] = d /\ queue'[j] = d => i = j
  BY <1>1, <1>2, <1>3, TailPlaces DEF OneConnection
<1>7. d \in Queued => d \notin orphans
  BY <1>1 DEF OneConnection, Accepted
<1> QED
  BY <1>1, <1>4, <1>5, <1>6, <1>7
     DEF OneConnection, Accepted, clientVars

(* Every step leaves every client at most one connection. *)
LEMMA OneConnectionKeeps ==
    ASSUME Inv, OneConnectionEach, [Next]_allVars PROVE OneConnectionEach'
<1> SUFFICES ASSUME NEW d \in Clients PROVE OneConnection(d)'
  BY DEF OneConnectionEach
<1>0. OneConnection(d) /\ d # Nobody /\ d # Broken /\ d # Closed
  BY NamesAssumption DEF OneConnectionEach
<1>1. ASSUME NEW c \in Clients,
             Connect(c) \/ RetryArrives(c) \/ RetryGetsLost(c)
      PROVE  OneConnection(d)'
  BY <1>1, OpensKeeps
     DEF Connect, RetryArrives, RetryGetsLost, connectUrl, onRetryConnection
<1>2. ASSUME NEW c \in Clients, Connected(c) PROVE OneConnection(d)'
  BY <1>0, <1>2, OneConnectionStays
     DEF Connected, onConnected, serverVars, Inv, ServerTypeOK, ClientTypeOK
<1>3. ASSUME NEW c \in Clients, Disconnected(c) PROVE OneConnection(d)'
  BY <1>0, <1>3, OneConnectionStays
     DEF Disconnected, onDisconnected, serverVars, Inv, ServerTypeOK, ClientTypeOK
<1>4. ASSUME NEW c \in Clients, Sends(c) PROVE OneConnection(d)'
  BY <1>0, <1>4, OneConnectionStays DEF Sends, clientVars
<1>5. ASSUME NEW c \in Clients, Leave(c) PROVE OneConnection(d)'
  <2>1. socket'[d] = "connected" => socket[d] = "connected"
    BY <1>5 DEF Leave, Quit, Inv, ServerTypeOK, ClientTypeOK
  <2> QED
    BY <1>0, <1>5, <2>1, QueueWithoutPlaces, OneConnectionStays DEF Leave, LetsGo
<1>6. ASSUME NEW c \in Clients, Break(c) PROVE OneConnection(d)'
  BY <1>0, <1>6, QueueWithoutPlaces, OneConnectionStays
     DEF Break, LetsGo, clientVars
<1>7. ASSUME NEW c \in Clients, Accept(c) PROVE OneConnection(d)'
  BY <1>7, AcceptKeeps DEF Accept, AcceptNext
<1>8. CASE AcceptBroken
  <2>1. AcceptNext /\ UNCHANGED <<clientVars, orphans>> /\ serving' # d
    BY <1>0, <1>8 DEF AcceptBroken, AcceptNext
  <2> QED BY <2>1, AcceptKeeps
<1>9. CASE Receives
  <2>1. \/ UNCHANGED <<clientVars, queue, serving, orphans>>
        \/ HandlerLeft
    BY <1>9 DEF Receives, ReceiveMessage, ReceiveClose, ReceiveThrows
  <2>2. CASE UNCHANGED <<clientVars, queue, serving, orphans>>
    BY <1>0, <2>2, OneConnectionStays DEF clientVars
  <2>3. CASE HandlerLeft
    BY <1>0, <2>3 DEF HandlerLeft, OneConnection, Queued, Accepted, clientVars
  <2> QED BY <2>1, <2>2, <2>3
<1>10. CASE Restart
  BY <1>0, <1>10 DEF Restart, OneConnection, Queued, Accepted
<1>11. CASE UNCHANGED allVars
  BY <1>0, <1>11, OneConnectionStays DEF allVars, clientVars, serverVars
<1> QED
  BY <1>1, <1>2, <1>3, <1>4, <1>5, <1>6, <1>7, <1>8, <1>9, <1>10, <1>11
     DEF Next, ClientStep, sendMessage, onSendHeartbeat

(* A client that retries for ever never piles up connections, and never    *)
(* believes in one that it has given up.                                   *)
THEOREM OneConnectionHolds == Spec => []OneConnectionEach
<1>1. ASSUME Init PROVE OneConnectionEach
  <2>1. DOMAIN queue = {} /\ \A c \in Clients : serving # c /\ socket[c] = "unconnected"
    BY <1>1, NamesAssumption DEF Init, ClientInit
  <2> QED BY <2>1 DEF OneConnectionEach, OneConnection, Queued
<1>2. Inv /\ OneConnectionEach /\ [Next]_allVars => OneConnectionEach'
  BY OneConnectionKeeps
<1> QED BY <1>1, <1>2, InvHolds, PTL DEF Spec
=============================================================================
