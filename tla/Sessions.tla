------------------------------- MODULE Sessions -------------------------------
(***************************************************************************)
(* WebSocketService: the accept loop of StartAsync, the message loop of    *)
(* HandleWebSocketAsync with login, logout and requests, and               *)
(* BroadcastMessage, which the exchange's callbacks start on other threads *)
(* and which suspends at every send.                                       *)
(*                                                                         *)
(* StartAsync awaits HandleWebSocketAsync, so a client is accepted when    *)
(* the one before has gone.  An exception of a message loop ends           *)
(* StartAsync.  BroadcastMessage is async void: its exceptions end the     *)
(* process.  Each await is a step boundary.                                *)
(*                                                                         *)
(* Heartbeats store a time that nothing reads and are left out.            *)
(***************************************************************************)
CONSTANTS
    Users,       \* UserIds of the rows of the client user table
    Sockets,     \* the WebSocket of each connection that is ever made
    Broadcasts,  \* calls of BroadcastMessage that may overlap
    NoUser, NoSocket

ASSUME SessionAssumption == NoUser \notin Users /\ NoSocket \notin Sockets

VARIABLES
    server,     \* StartAsync: accepting, serving (in its await), faulted
    crashed,    \* an unhandled exception has ended the process
    sock,       \* each connection; "dropped": the client has left or broken off
    handler,    \* HandleWebSocketAsync of each socket
    candidate,  \* clientUserInfo of the login being answered
    info,       \* the user in clientConnectionInfo
    map,        \* m_UserId2ConnectionInfoMap: the socket of each entry
    answers,    \* which sockets were sent the answers to requests of each socket
    casting,    \* the broadcasts that are under way
    visited,    \* the entries each of them has been through
    sent,       \* the sockets it has sent its message to
    audience,   \* the sockets that were logged in when it started
    grown       \* those whose enumerator a new entry has invalidated

acceptVars    == <<server, crashed>>
sessionVars   == <<sock, handler, candidate, info>>
broadcastVars == <<casting, visited, sent, audience, grown>>
sessionsVars  == <<acceptVars, map, sessionVars, answers, broadcastVars>>

SessionInit ==
    /\ server = "accepting" /\ crashed = FALSE
    /\ sock      = [s \in Sockets |-> "new"]
    /\ handler   = [s \in Sockets |-> "none"]
    /\ candidate = [s \in Sockets |-> NoUser]
    /\ info      = [s \in Sockets |-> NoUser]
    /\ map       = [u \in Users |-> NoSocket]
    /\ answers   = [s \in Sockets |-> {}]
    /\ casting   = {}
    /\ visited   = [b \in Broadcasts |-> {}]
    /\ sent      = [b \in Broadcasts |-> {}]
    /\ audience  = [b \in Broadcasts |-> {}]
    /\ grown     = {}

SocketGoes(s, from, to) ==
    /\ sock[s] \in from
    /\ sock' = [sock EXCEPT ![s] = to]

Connect(s) ==
    /\ SocketGoes(s, {"new"}, "waiting")
    /\ UNCHANGED <<acceptVars, map, handler, candidate, info, answers,
                   broadcastVars>>

(* The client has sent its last message, and then a close frame, or its    *)
(* connection breaks; the server does not know yet.                        *)
Drop(s) ==
    /\ SocketGoes(s, {"open"}, "dropped")
    /\ UNCHANGED <<acceptVars, map, handler, candidate, info, answers,
                   broadcastVars>>

-----------------------------------------------------------------------------
(* The server. *)

(* Mutant of Accept: HandleWebSocketAsync is not awaited. *)
AcceptUnawaited(s) ==
    /\ server = "accepting"
    /\ SocketGoes(s, {"waiting"}, "open")
    /\ handler' = [handler EXCEPT ![s] = "receiving"]
    /\ UNCHANGED <<acceptVars, map, candidate, info, answers, broadcastVars>>

Accept(s) ==
    /\ server = "accepting"
    /\ SocketGoes(s, {"waiting"}, "open")
    /\ handler' = [handler EXCEPT ![s] = "receiving"]
    /\ server' = "serving"
    /\ UNCHANGED <<crashed, map, candidate, info, answers, broadcastVars>>

(* AcceptWebSocketAsync throws because the client is gone. *)
AcceptThrows(s) ==
    /\ server = "accepting"
    /\ SocketGoes(s, {"waiting"}, "closed")
    /\ server' = "faulted"
    /\ UNCHANGED <<crashed, map, handler, candidate, info, answers,
                   broadcastVars>>

HandlerGoes(s, from, to) ==
    /\ handler[s] = from
    /\ handler' = [handler EXCEPT ![s] = to]

(* The message loop is left, and with it its local variables. *)
Leaves(s, from) ==
    /\ HandlerGoes(s, from, "ended")
    /\ candidate' = [candidate EXCEPT ![s] = NoUser]
    /\ info' = [info EXCEPT ![s] = NoUser]

(* Mutant of Returns: the accept loop is not a loop. *)
ReturnsForGood(s, from) == Leaves(s, from) /\ UNCHANGED server

(* HandleWebSocketAsync returns, and StartAsync goes on to the next client. *)
Returns(s, from) == Leaves(s, from) /\ server' = "accepting"

(* Close frame: CloseAsync and break.  The entry in the map stays. *)
ReceiveClose(s) ==
    /\ Returns(s, "receiving")
    /\ SocketGoes(s, {"dropped"}, "closed")
    /\ UNCHANGED <<crashed, map, answers, broadcastVars>>

(* ReceiveAsync on a broken connection, a message that cannot be           *)
(* decompressed, a failing query or a failing handler; SendAsync and       *)
(* CloseAsync when the client has gone.                                    *)
HandlerThrows(s) ==
    /\ \/ Leaves(s, "receiving") \/ Leaves(s, "closing")
       \/ sock[s] = "dropped" /\ Leaves(s, "answering")
    /\ server' = "faulted"
    /\ UNCHANGED <<crashed, map, sock, answers, broadcastVars>>

(* ReqLogin: the query finds user u by the MAC address, or nobody, and the *)
(* answer is being sent.                                                   *)
ReqLogin(s, u) ==
    /\ sock[s] = "open"
    /\ HandlerGoes(s, "receiving", "answering")
    /\ candidate' = [candidate EXCEPT ![s] = u]
    /\ UNCHANGED <<acceptVars, map, sock, info, answers, broadcastVars>>

(* Unknown MAC address: the socket is left open and nobody reads from it.  *)
LoginRefused(s) ==
    /\ candidate[s] = NoUser
    /\ Returns(s, "answering")
    /\ UNCHANGED <<crashed, map, sock, answers, broadcastVars>>

(* Mutant of LoggedIn: the null check is missing. *)
LoggedInUnchecked(s) ==
    /\ HandlerGoes(s, "answering", "receiving")
    /\ LET u == candidate[s]
       IN  /\ map'  = [v \in Users \cup {u} |-> IF v = u THEN s ELSE map[v]]
           /\ info' = [info EXCEPT ![s] = u]
    /\ UNCHANGED <<acceptVars, sock, candidate, answers, broadcastVars>>

(* Mutant of LoggedIn: TryAdd keeps the entry that is there. *)
LoggedInTryAdd(s) ==
    /\ candidate[s] # NoUser
    /\ HandlerGoes(s, "answering", "receiving")
    /\ LET u == candidate[s]
       IN  /\ map'  = [map EXCEPT ![u] = IF @ = NoSocket THEN s ELSE @]
           /\ info' = [info EXCEPT ![s] = u]
           /\ grown' = IF map[u] = NoSocket THEN casting ELSE grown
    /\ candidate' = [candidate EXCEPT ![s] = NoUser]
    /\ UNCHANGED <<acceptVars, sock, answers, casting, visited, sent, audience>>

(* A new entry changes the dictionary's version; replacing one does not.   *)
LoggedIn(s) ==
    /\ candidate[s] # NoUser
    /\ HandlerGoes(s, "answering", "receiving")
    /\ LET u == candidate[s]
       IN  /\ map'  = [map EXCEPT ![u] = s]
           /\ info' = [info EXCEPT ![s] = u]
           /\ grown' = IF map[u] = NoSocket THEN casting ELSE grown
    /\ candidate' = [candidate EXCEPT ![s] = NoUser]
    /\ UNCHANGED <<acceptVars, sock, answers, casting, visited, sent, audience>>

(* ReqLogout removes the key GetHashCode(): the hash code of a socket is   *)
(* no user's id, or by accident that of any user.  Then CloseAsync.        *)
ReqLogout(s) ==
    /\ info[s] # NoUser
    /\ SocketGoes(s, {"open"}, "closed")
    /\ HandlerGoes(s, "receiving", "closing")
    /\ UNCHANGED map \/ \E u \in Users : map' = [map EXCEPT ![u] = NoSocket]
    /\ UNCHANGED <<acceptVars, candidate, info, answers, broadcastVars>>

LoggedOut(s) ==
    /\ Returns(s, "closing")
    /\ UNCHANGED <<crashed, map, sock, answers, broadcastVars>>

(* A request of the facades: its handler answers by PushMessge to the user *)
(* of the session, through the map.  A missing entry throws.               *)
Request(s) ==
    /\ handler[s] = "receiving" /\ sock[s] = "open"
    /\ info[s] # NoUser
    /\ map[info[s]] # NoSocket
    /\ answers' = [answers EXCEPT ![s] = @ \cup {map[info[s]]}]
    /\ UNCHANGED <<acceptVars, map, sessionVars, broadcastVars>>

-----------------------------------------------------------------------------
(* BroadcastMessage. *)

Entries == {u \in Users : map[u] # NoSocket}

LoggedInOn(s) == info[s] # NoUser /\ handler[s] # "closing"

BroadcastMessage(b) ==
    /\ b \notin casting
    /\ casting' = casting \cup {b}
    /\ audience' = [audience EXCEPT ![b] = {s \in Sockets : LoggedInOn(s)}]
    /\ UNCHANGED <<acceptVars, map, sessionVars, answers, visited, sent, grown>>

(* A send to a client that has left may still seem to succeed. *)
SendNext(b, u) ==
    /\ b \in casting \ grown
    /\ u \in Entries \ visited[b]
    /\ sock[map[u]] \in {"open", "dropped"}
    /\ visited' = [visited EXCEPT ![b] = @ \cup {u}]
    /\ sent' = [sent EXCEPT ![b] = @ \cup {map[u]}]
    /\ UNCHANGED <<acceptVars, map, sessionVars, answers, casting, audience, grown>>

(* MoveNext finds that the dictionary has grown, or SendAsync finds its    *)
(* socket closed or broken.                                                *)
BroadcastThrows(b) ==
    /\ b \in casting
    /\ \/ b \in grown
       \/ \E u \in Entries \ visited[b] : sock[map[u]] \in {"dropped", "closed"}
    /\ crashed' = TRUE
    /\ UNCHANGED <<server, map, sessionVars, answers, broadcastVars>>

BroadcastEnds(b) ==
    /\ b \in casting \ grown
    /\ Entries \subseteq visited[b]
    /\ casting' = casting \ {b}
    /\ visited'  = [visited EXCEPT ![b] = {}]
    /\ sent'     = [sent EXCEPT ![b] = {}]
    /\ audience' = [audience EXCEPT ![b] = {}]
    /\ UNCHANGED <<acceptVars, map, sessionVars, answers, grown>>

-----------------------------------------------------------------------------
HandlerStep(s) ==
    \/ ReceiveClose(s) \/ HandlerThrows(s)
    \/ LoginRefused(s) \/ LoggedIn(s) \/ LoggedOut(s)

SessionNext ==
    /\ ~crashed
    /\ \/ \E s \in Sockets :
            \/ Connect(s) \/ Drop(s) \/ Accept(s) \/ AcceptThrows(s)
            \/ HandlerStep(s) \/ ReqLogout(s) \/ Request(s)
            \/ \E u \in Users \cup {NoUser} : ReqLogin(s, u)
       \/ \E b \in Broadcasts :
            \/ BroadcastMessage(b) \/ BroadcastThrows(b) \/ BroadcastEnds(b)
            \/ \E u \in Users : SendNext(b, u)

(* The continuation of an await runs: sends and closes return or throw, and *)
(* ReceiveAsync learns that its client has gone.  Nothing is assumed about  *)
(* what clients send.                                                       *)
Unfinished(s) ==
    /\ ~crashed
    /\ sock[s] = "dropped" \/ handler[s] \in {"answering", "closing"}
    /\ HandlerStep(s)

SessionFairness == \A s \in Sockets : WF_sessionsVars(Unfinished(s))

SessionSpec == SessionInit /\ [][SessionNext]_sessionsVars /\ SessionFairness

-----------------------------------------------------------------------------
SessionTypeOK ==
    /\ server    \in {"accepting", "serving", "faulted"}
    /\ crashed   \in BOOLEAN
    /\ sock      \in [Sockets -> {"new", "waiting", "open", "dropped", "closed"}]
    /\ handler   \in [Sockets -> {"none", "receiving", "answering", "closing", "ended"}]
    /\ candidate \in [Sockets -> Users \cup {NoUser}]
    /\ info      \in [Sockets -> Users \cup {NoUser}]
    /\ map       \in [Users -> Sockets \cup {NoSocket}]
    /\ answers   \in [Sockets -> SUBSET Sockets]
    /\ casting   \in SUBSET Broadcasts
    /\ visited   \in [Broadcasts -> SUBSET Users]
    /\ sent      \in [Broadcasts -> SUBSET Sockets]
    /\ audience  \in [Broadcasts -> SUBSET Sockets]
    /\ grown     \in SUBSET Broadcasts

(* Answers go out through the map of users, not to the socket the request  *)
(* came from, and a user may log in again from another socket: yet an      *)
(* answer always goes to the client that asked.                            *)
AnswersReachTheRequester == \A s \in Sockets : answers[s] \subseteq {s}

(* A client that leaves, at whatever point of its session, does not keep   *)
(* the accept loop: the next client can be served, or the loop has ended   *)
(* by an exception.                                                        *)
LeaversFreeTheServer ==
    \A s \in Sockets :
        sock[s] = "dropped" /\ handler[s] # "ended" ~> server # "serving" \/ crashed

(* The map changes between the sends of a broadcast, yet a broadcast that   *)
(* comes to its end has been sent to the client that was logged in when it *)
(* started and still is.                                                   *)
BroadcastReachesTheServed ==
    [][\A b \in casting \ casting' :
          \A s \in audience[b] : LoggedInOn(s) => s \in sent[b]]_sessionsVars

(* "从连接信息映射中移除": the logout removes the user's entry from the map,    *)
(* so that no broadcast meets the closed socket.                           *)
LogoutRemovesEntry ==
    \A s \in Sockets : handler[s] = "closing" => map[info[s]] # s
=============================================================================
