---------------------------- MODULE ClientsAndServer ---------------------------
(***************************************************************************)
(* Client programs (WebSocketClient) and the accept loop of the server     *)
(* (WebSocketService.StartAsync and HandleWebSocketAsync) with the network *)
(* between them.  The server serves one client at a time; the others wait  *)
(* in the listener's queue, where a client that retries leaves its old     *)
(* connection behind.  A client and the server learn of each other's       *)
(* moves only later.                                                       *)
(*                                                                         *)
(* A client compresses its messages with zlib's compress, and the server   *)
(* reads gzip: a message cannot be decompressed, and the exception ends    *)
(* the accept loop.  So nobody ever logs in here; module Sessions models   *)
(* what the server does with messages it understands.                      *)
(***************************************************************************)
EXTENDS WebSocketClient, Sequences

CONSTANTS
    Backlog,   \* length of the listener's queue
    Nobody,    \* the loop waits in GetContextAsync
    Broken,    \* a connection whose client has gone without a close frame
    Closed     \* a connection whose client has sent a close frame

ASSUME BacklogAssumption == Backlog \in Nat \ {0}
ASSUME NamesAssumption ==
    Clients \cap {Nobody, Broken, Closed} = {} /\ Nobody # Broken /\ Nobody # Closed

VARIABLES
    queue,     \* connections that wait for the accept loop
    serving,   \* whose connection HandleWebSocketAsync reads from
    running,   \* the accept loop has not ended by an exception
    orphans,   \* clients with a connection from which nobody reads any more
    unread     \* format of the message in the served connection, or "none"

serverVars == <<queue, serving, running, orphans, unread>>
allVars    == <<clientVars, serverVars>>

Init ==
    /\ ClientInit
    /\ queue = <<>> /\ serving = Nobody /\ running = TRUE
    /\ orphans = {} /\ unread = "none"

Queued  == {queue[i] : i \in DOMAIN queue}
Accepted(c) == serving = c \/ c \in orphans
HasConnection(c) == c \in Queued \/ Accepted(c)

(* What is left in the queue when client c lets go of its connection. *)
QueueWithout(c) ==
    [i \in DOMAIN queue |-> IF queue[i] = c THEN Broken ELSE queue[i]]

(* The server's side when client c lets go of its connection. *)
LetsGo(c, end) ==
    /\ serving' = IF serving = c THEN end ELSE serving
    /\ orphans' = orphans \ {c}

-----------------------------------------------------------------------------
(* Clients. *)

(* Mutant of Arrives: the listener's queue takes any number. *)
ArrivesAnyway(c) == queue' = Append(QueueWithout(c), c)

(* The new connection reaches the listener, or it does not: the network,   *)
(* a queue that is full, a server that is not running.                     *)
Arrives(c) ==
    /\ Len(queue) < Backlog
    /\ queue' = Append(QueueWithout(c), c)
GetsLost(c) == queue' = QueueWithout(c)

Opens(c) ==
    /\ LetsGo(c, Broken)
    /\ UNCHANGED <<running, unread>>

Connect(c) == connectUrl(c) /\ Opens(c) /\ (Arrives(c) \/ GetsLost(c))

RetryArrives(c) == onRetryConnection(c) /\ Opens(c) /\ Arrives(c)
RetryGetsLost(c) == onRetryConnection(c) /\ Opens(c) /\ GetsLost(c)

(* The answer of AcceptWebSocketAsync arrives. *)
Connected(c) ==
    /\ Accepted(c)
    /\ onConnected(c)
    /\ UNCHANGED serverVars

(* The client learns that it has no connection. *)
Disconnected(c) ==
    /\ ~HasConnection(c)
    /\ onDisconnected(c)
    /\ UNCHANGED serverVars

(* Mutant of doCompress: the format the server reads. *)
doCompressGzip == "gzip"

(* compress of zlib. *)
doCompress == "zlib"

(* GZipStream throws at any other format. *)
Decompressible(format) == format = "gzip"

Sends(c) ==
    /\ socket[c] = "connected"
    /\ unread' = IF serving = c THEN doCompress ELSE unread
    /\ UNCHANGED <<clientVars, queue, serving, running, orphans>>

(* Requests, logins and logouts, whenever the user likes. *)
sendMessage(c) == Sends(c)

(* A heartbeat is a message like any other; a message to a socket that is  *)
(* not connected is dropped.                                               *)
onSendHeartbeat(c) == heartbeatTimer[c] /\ Sends(c)

(* The destructor closes the socket: a close frame if it is connected. *)
Leave(c) ==
    /\ Quit(c)
    /\ queue' = QueueWithout(c)
    /\ LetsGo(c, IF socket[c] = "connected" THEN Closed ELSE Broken)
    /\ UNCHANGED <<running, unread>>

-----------------------------------------------------------------------------
(* The server. *)

AcceptNext ==
    /\ running /\ serving = Nobody
    /\ queue # <<>>
    /\ queue' = Tail(queue)

Accept(c) ==
    /\ AcceptNext /\ Head(queue) = c
    /\ serving' = c
    /\ UNCHANGED <<clientVars, running, orphans, unread>>

(* The client of the next connection has gone: the listener drops it, or   *)
(* AcceptWebSocketAsync throws, or the first ReceiveAsync is going to.     *)
AcceptBroken ==
    /\ AcceptNext /\ Head(queue) = Broken
    /\ \/ UNCHANGED <<serving, running>>
       \/ running' = FALSE /\ UNCHANGED serving
       \/ serving' = Broken /\ UNCHANGED running
    /\ UNCHANGED <<clientVars, orphans, unread>>

(* HandleWebSocketAsync is left; a client that is still there keeps its    *)
(* connection: nobody closes or disposes of the WebSocket.                 *)
HandlerLeft ==
    /\ serving' = Nobody /\ unread' = "none"
    /\ orphans' = orphans \cup ({serving} \cap Clients)
    /\ UNCHANGED <<clientVars, queue>>

(* Mutant of ReceiveMessage: the accept loop catches the exception. *)
ReceiveMessageCaught ==
    /\ running /\ unread # "none"
    /\ IF Decompressible(unread)
       THEN /\ unread' = "none"
            /\ UNCHANGED <<clientVars, queue, serving, running, orphans>>
       ELSE HandlerLeft /\ UNCHANGED running

(* A message: nobody is logged in, so one that could be decompressed would *)
(* be ignored.                                                             *)
ReceiveMessage ==
    /\ running /\ unread # "none"
    /\ IF Decompressible(unread)
       THEN /\ unread' = "none"
            /\ UNCHANGED <<clientVars, queue, serving, running, orphans>>
       ELSE running' = FALSE /\ HandlerLeft

(* CloseAsync answers the close frame, or finds the client gone and throws. *)
ReceiveClose ==
    /\ running /\ serving = Closed /\ unread = "none"
    /\ running' \in BOOLEAN
    /\ HandlerLeft

(* ReceiveAsync throws on a broken connection. *)
ReceiveThrows ==
    /\ running /\ serving = Broken /\ unread = "none"
    /\ running' = FALSE
    /\ HandlerLeft

-----------------------------------------------------------------------------
(* The world. *)

(* The connection of client c breaks; both sides will learn of it. *)
Break(c) ==
    /\ HasConnection(c)
    /\ queue' = QueueWithout(c)
    /\ LetsGo(c, Broken)
    /\ UNCHANGED <<clientVars, running, unread>>

(* The server program is started again, by its operator. *)
Restart ==
    /\ queue' = <<>> /\ serving' = Nobody /\ running' = TRUE
    /\ orphans' = {} /\ unread' = "none"
    /\ UNCHANGED <<clientVars>>

ClientStep(c) ==
    \/ Connect(c) \/ RetryArrives(c) \/ RetryGetsLost(c)
    \/ Connected(c) \/ Disconnected(c)
    \/ sendMessage(c) \/ onSendHeartbeat(c) \/ Leave(c)

Receives == ReceiveMessage \/ ReceiveClose \/ ReceiveThrows

Next ==
    \/ \E c \in Clients : ClientStep(c) \/ Accept(c) \/ Break(c)
    \/ AcceptBroken \/ Receives \/ Restart

(* An idle server goes through its queue within the retry interval of five *)
(* seconds, at least again and again.                                      *)
QueueIsWorkedOff == []<>(queue = <<>> \/ serving # Nobody \/ ~running)

RetryFindsEmptyQueue(c) == RetryArrives(c) /\ queue = <<>>

(* Both sides learn of a lost connection, heartbeats are sent, and an      *)
(* exception or a close frame is dealt with.  Of the retries, again and    *)
(* again one reaches the listener, and again and again one is accepted and *)
(* answered before the next.                                               *)
Fairness ==
    /\ WF_allVars(AcceptBroken) /\ WF_allVars(Receives)
    /\ QueueIsWorkedOff
    /\ \A c \in Clients :
         /\ WF_allVars(Disconnected(c)) /\ WF_allVars(onSendHeartbeat(c))
         /\ SF_allVars(RetryFindsEmptyQueue(c))
         /\ SF_allVars(Accept(c)) /\ SF_allVars(Connected(c))

Spec == Init /\ [][Next]_allVars /\ Fairness

-----------------------------------------------------------------------------
(* Properties. *)

ServerTypeOK ==
    /\ ClientTypeOK
    /\ queue \in Seq(Clients \cup {Broken}) /\ Len(queue) <= Backlog
    /\ serving \in Clients \cup {Nobody, Broken, Closed}
    /\ running \in BOOLEAN /\ orphans \subseteq Clients
    /\ unread \in {"none", "zlib", "gzip"}

(* As long as the accept loop runs, every client whose connection it has   *)
(* accepted and that still holds it is read from.                          *)
NobodyIsForgotten == running => orphans = {}

(* A client that was started, and does not call connectUrl over and over, *)
(* gets its connection, however many attempts are refused and whatever     *)
(* becomes of the connections it left in the queue - unless the loop has   *)
(* ended or serves another client.                                         *)
GetsThrough ==
    \A c \in Clients :
        <>[][~connectUrl(c)]_allVars =>
        (started[c] ~> \/ socket[c] = "connected" \/ ~started[c]
                       \/ ~running \/ \E d \in Clients \ {c} : serving = d)

(* The price of the two formats: no client stays connected to the server,  *)
(* because its heartbeat, or an earlier message, ends the accept loop.     *)
NobodyIsServedForLong ==
    \A c \in Clients :
        serving = c /\ socket[c] = "connected" ~> serving # c
=============================================================================
