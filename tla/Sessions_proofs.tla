--------------------------- MODULE Sessions_proofs ---------------------------
(***************************************************************************)
(* Proofs about Sessions, for any users, sockets and broadcasts.           *)
(*                                                                         *)
(* The argument rests on StartAsync awaiting HandleWebSocketAsync: at most *)
(* one message loop runs (OneAtATime), so nobody else can log in while a   *)
(* session lasts, and its entry of the map stays its own (OwnEntry).       *)
(***************************************************************************)
EXTENDS Sessions, TLAPS

Active(s) == handler[s] \in {"receiving", "answering", "closing"}

OneAtATime ==
    \A s \in Sockets :
        Active(s) => server = "serving" /\ \A r \in Sockets : Active(r) => r = s

OwnEntry ==
    \A s \in Sockets :
        /\ info[s] # NoUser => Active(s)
        /\ LoggedInOn(s) => map[info[s]] = s

(* The sessions that were logged in when a broadcast started still are, or *)
(* have ended; a broadcast under way has sent to each of them, or it has   *)
(* an entry with its socket still before it.                               *)
Survives(s) == info[s] # NoUser \/ handler[s] = "ended"

AudienceInv ==
    \A b \in Broadcasts :
        /\ b \notin casting => visited[b] = {}
        /\ \A s \in audience[b] :
              /\ Survives(s)
              /\ b \in casting /\ LoggedInOn(s) =>
                    s \in sent[b] \/ \E u \in Users : map[u] = s /\ u \notin visited[b]

(* Only an accepted socket has a message loop. *)
FreshSockets ==
    \A s \in Sockets : sock[s] \in {"new", "waiting"} => handler[s] = "none"

SessionInv ==
    /\ SessionTypeOK /\ FreshSockets /\ OneAtATime /\ OwnEntry /\ AudienceInv
    /\ AnswersReachTheRequester

(* The initial state satisfies SessionInv.                                 *)
LEMMA SessionInvInit == SessionInit => SessionInv
  BY SessionAssumption
  DEF SessionInit, SessionInv, SessionTypeOK, FreshSockets, OneAtATime, OwnEntry, AudienceInv,
      AnswersReachTheRequester, Active, LoggedInOn, Survives

(* The types, one step per action.                                         *)
LEMMA SessionTypes ==
    ASSUME SessionTypeOK, [SessionNext]_sessionsVars
    PROVE  SessionTypeOK'
<1> USE SessionAssumption
    DEF SessionTypeOK, acceptVars, sessionVars, broadcastVars, SocketGoes, HandlerGoes,
        Leaves, Returns
<1>1. CASE UNCHANGED sessionsVars
  BY <1>1 DEF sessionsVars
<1>2. ASSUME NEW s \in Sockets, Connect(s) \/ Drop(s) \/ Accept(s) \/ AcceptThrows(s)
      PROVE  SessionTypeOK'
  BY <1>2 DEF Connect, Drop, Accept, AcceptThrows
<1>3. ASSUME NEW s \in Sockets, HandlerStep(s)
      PROVE  SessionTypeOK'
  <2>1. CASE ReceiveClose(s)
    BY <2>1 DEF ReceiveClose
  <2>2. CASE HandlerThrows(s)
    BY <2>2 DEF HandlerThrows
  <2>3. CASE LoginRefused(s) \/ LoggedOut(s)
    BY <2>3 DEF LoginRefused, LoggedOut
  <2>4. CASE LoggedIn(s)
    BY <2>4 DEF LoggedIn
  <2> QED BY <1>3, <2>1, <2>2, <2>3, <2>4 DEF HandlerStep
<1>4. ASSUME NEW s \in Sockets, ReqLogout(s)
      PROVE  SessionTypeOK'
  BY <1>4 DEF ReqLogout
<1>5. ASSUME NEW s \in Sockets, Request(s)
      PROVE  SessionTypeOK'
  BY <1>5 DEF Request
<1>6. ASSUME NEW s \in Sockets, NEW u \in Users \cup {NoUser}, ReqLogin(s, u)
      PROVE  SessionTypeOK'
  BY <1>6 DEF ReqLogin
<1>7. ASSUME NEW b \in Broadcasts,
             BroadcastMessage(b) \/ BroadcastThrows(b) \/ BroadcastEnds(b)
      PROVE  SessionTypeOK'
  <2>1. CASE BroadcastMessage(b)
    <3>1. {s \in Sockets : LoggedInOn(s)} \in SUBSET Sockets
      OBVIOUS
    <3> QED BY <2>1, <3>1 DEF BroadcastMessage
  <2>2. CASE BroadcastThrows(b)
    BY <2>2 DEF BroadcastThrows
  <2>3. CASE BroadcastEnds(b)
    BY <2>3 DEF BroadcastEnds
  <2> QED BY <1>7, <2>1, <2>2, <2>3
<1>8. ASSUME NEW b \in Broadcasts, NEW u \in Users, SendNext(b, u)
      PROVE  SessionTypeOK'
  BY <1>8 DEF SendNext, Entries
<1> QED BY <1>1, <1>2, <1>3, <1>4, <1>5, <1>6, <1>7, <1>8 DEF SessionNext

(* No socket is waiting any more when its message loop runs.               *)
LEMMA SocketsStayFresh ==
    ASSUME SessionTypeOK, FreshSockets, [SessionNext]_sessionsVars
    PROVE  FreshSockets'
<1> USE DEF SessionTypeOK, FreshSockets, SocketGoes, HandlerGoes
<1>1. CASE UNCHANGED <<sock, handler>>
  BY <1>1
<1>2. ASSUME NEW s \in Sockets, Connect(s) \/ Drop(s) \/ Accept(s) \/ AcceptThrows(s)
      PROVE  FreshSockets'
  BY <1>2 DEF Connect, Drop, Accept, AcceptThrows
<1>3. ASSUME NEW s \in Sockets, HandlerStep(s)
      PROVE  FreshSockets'
  BY <1>3 DEF HandlerStep, ReceiveClose, HandlerThrows, LoginRefused, LoggedIn,
              LoggedOut, Leaves, Returns
<1>4. ASSUME NEW s \in Sockets, ReqLogout(s) \/ \E u \in Users \cup {NoUser} : ReqLogin(s, u)
      PROVE  FreshSockets'
  BY <1>4 DEF ReqLogout, ReqLogin
<1> QED BY <1>1, <1>2, <1>3, <1>4
        DEF SessionNext, sessionsVars, sessionVars, Request, BroadcastMessage,
            SendNext, BroadcastThrows, BroadcastEnds

(* What the steps of a message loop, of its client or of the accept loop   *)
(* do not touch.                                                           *)
LEMMA SameBroadcasts ==
    ASSUME SessionInv, UNCHANGED broadcastVars, SessionTypeOK',
           \A s \in Sockets : Survives(s) => Survives(s)',
           \A s \in Sockets : Survives(s) /\ LoggedInOn(s)' => LoggedInOn(s),
           \A s \in Sockets : LoggedInOn(s) /\ LoggedInOn(s)' =>
               \A u \in Users : map[u] = s => map'[u] = s
    PROVE  AudienceInv'
  BY DEF SessionInv, AudienceInv, broadcastVars, SessionTypeOK

(* A message loop that is left takes its session with it.                  *)
LEMMA LeaveKeepsInv ==
    ASSUME SessionInv, SessionTypeOK', FreshSockets', NEW s \in Sockets,
           Leaves(s, "receiving") \/ Leaves(s, "answering") \/ Leaves(s, "closing"),
           UNCHANGED <<map, answers, broadcastVars>>
    PROVE  SessionInv'
<1> USE DEF SessionInv, SessionTypeOK, Leaves, HandlerGoes
<1>1. Active(s) /\ ~Active(s)' /\ info'[s] = NoUser
  BY DEF Active
<1>2. \A r \in Sockets : r # s => handler'[r] = handler[r] /\ info'[r] = info[r]
  OBVIOUS
<1>3. \A r \in Sockets : ~Active(r)'
  BY <1>1, <1>2 DEF OneAtATime, Active
<1>4. OneAtATime'
  BY <1>3 DEF OneAtATime
<1>5. OwnEntry'
  BY <1>1, <1>2 DEF OwnEntry, LoggedInOn, Active
<1>6. \A r \in Sockets :
         (Survives(r) => Survives(r)') /\ (LoggedInOn(r)' => LoggedInOn(r))
  BY <1>1, <1>2 DEF LoggedInOn, Survives
<1>7. AudienceInv'
  BY <1>6, SameBroadcasts
<1> QED BY <1>4, <1>5, <1>7 DEF AnswersReachTheRequester

(* Every step keeps SessionInv.                                            *)
LEMMA SessionInvInductive == SessionInv /\ [SessionNext]_sessionsVars => SessionInv'
<1> SUFFICES ASSUME SessionInv, [SessionNext]_sessionsVars
             PROVE  SessionInv'
  OBVIOUS
<1>0. SessionTypeOK' /\ FreshSockets'
  BY SessionTypes, SocketsStayFresh DEF SessionInv
<1> USE DEF SessionInv
<1>1. CASE UNCHANGED sessionsVars
  BY <1>1, <1>0, SameBroadcasts
  DEF sessionsVars, acceptVars, sessionVars, OneAtATime, OwnEntry, Active, LoggedInOn, Survives,
      AnswersReachTheRequester
<1>2. ASSUME NEW s \in Sockets, Connect(s) \/ Drop(s) \/ AcceptThrows(s)
      PROVE  SessionInv'
  <2>1. UNCHANGED <<handler, info, map, answers, broadcastVars>>
    BY <1>2 DEF Connect, Drop, AcceptThrows
  <2>2. server' = server \/ server = "accepting"
    BY <1>2 DEF Connect, Drop, AcceptThrows, acceptVars
  <2> QED BY <1>0, <2>1, <2>2, SameBroadcasts
          DEF OneAtATime, OwnEntry, Active, LoggedInOn, Survives,
              AnswersReachTheRequester
<1>3. ASSUME NEW s \in Sockets, Accept(s)
      PROVE  SessionInv'
  <2>1. \A r \in Sockets : ~Active(r)
    BY <1>3 DEF Accept, OneAtATime
  <2>2. /\ server' = "serving" /\ UNCHANGED <<info, map, answers, broadcastVars>>
        /\ handler' = [handler EXCEPT ![s] = "receiving"]
    BY <1>3 DEF Accept
  <2>3. \A r \in Sockets : info[r] = NoUser
    BY <2>1 DEF OwnEntry
  <2>4. OneAtATime' /\ OwnEntry'
    BY <2>1, <2>2, <2>3 DEF OneAtATime, OwnEntry, Active, LoggedInOn, SessionTypeOK
  <2>5. \A r \in Sockets : ~LoggedInOn(r)' /\ (Survives(r) => Survives(r)')
    <3>1. handler[s] # "ended"
      BY <1>3 DEF Accept, SocketGoes, FreshSockets
    <3> QED BY <2>2, <2>3, <3>1 DEF LoggedInOn, Survives, SessionTypeOK
  <2> QED BY <1>0, <2>2, <2>4, <2>5, SameBroadcasts DEF AnswersReachTheRequester
<1>4. ASSUME NEW s \in Sockets,
             ReceiveClose(s) \/ HandlerThrows(s) \/ LoginRefused(s) \/ LoggedOut(s)
      PROVE  SessionInv'
  <2>1. Leaves(s, "receiving") \/ Leaves(s, "answering") \/ Leaves(s, "closing")
    BY <1>4 DEF ReceiveClose, HandlerThrows, LoginRefused, LoggedOut, Returns
  <2>2. UNCHANGED <<map, answers, broadcastVars>>
    BY <1>4 DEF ReceiveClose, HandlerThrows, LoginRefused, LoggedOut
  <2> QED BY <1>0, <2>1, <2>2, LeaveKeepsInv
<1>5. ASSUME NEW s \in Sockets, LoggedIn(s)
      PROVE  SessionInv'
  <2> DEFINE u == candidate[s]
  <2>1. /\ u \in Users
        /\ Active(s) /\ server = "serving" /\ server' = server
        /\ handler' = [handler EXCEPT ![s] = "receiving"]
        /\ map' = [map EXCEPT ![u] = s]
        /\ info' = [info EXCEPT ![s] = u]
        /\ UNCHANGED <<answers, casting, visited, sent, audience>>
    BY <1>5 DEF LoggedIn, HandlerGoes, SessionTypeOK, Active, OneAtATime, acceptVars
  <2>2. \A r \in Sockets : r # s => ~Active(r) /\ ~Active(r)' /\ info'[r] = NoUser
    BY <2>1 DEF OneAtATime, OwnEntry, Active, SessionTypeOK
  <2>3. OneAtATime' /\ OwnEntry'
    <3>1. \A r \in Sockets : Active(r)' => r = s
      BY <2>2
    <3>2. info'[s] = u /\ map'[u] = s /\ Active(s)'
      BY <2>1 DEF SessionTypeOK, Active
    <3>3. OneAtATime'
      BY <2>1, <3>1 DEF OneAtATime
    <3>4. \A r \in Sockets : info'[r] # NoUser => r = s
      BY <2>2
    <3> QED BY <3>2, <3>3, <3>4 DEF OwnEntry, LoggedInOn
  <2>4. \A r \in Sockets : Survives(r) => Survives(r)'
    <3>1. info'[s] # NoUser
      BY <2>1, SessionAssumption DEF SessionTypeOK
    <3>2. \A r \in Sockets : r # s /\ Survives(r) => handler[r] = "ended"
      BY <2>2 DEF Survives, OwnEntry
    <3>3. \A r \in Sockets : r # s => handler'[r] = handler[r]
      BY <2>1 DEF SessionTypeOK
    <3> QED BY <3>1, <3>2, <3>3 DEF Survives
  <2>5. \A r \in Sockets : Survives(r) /\ LoggedInOn(r)' => LoggedInOn(r)
    BY <2>1, <2>2, <1>5 DEF LoggedInOn, LoggedIn, HandlerGoes, Survives, SessionTypeOK
  <2>6. \A r \in Sockets : LoggedInOn(r)' =>
            \A v \in Users : map[v] = r => map'[v] = r
    BY <2>1, <2>2 DEF LoggedInOn, SessionTypeOK
  <2>7. AudienceInv'
    BY <2>1, <2>4, <2>5, <2>6, <1>0 DEF AudienceInv, SessionTypeOK
  <2> QED BY <1>0, <2>1, <2>3, <2>7 DEF AnswersReachTheRequester
<1>6. ASSUME NEW s \in Sockets, ReqLogout(s)
      PROVE  SessionInv'
  <2>1. /\ Active(s) /\ UNCHANGED <<server, info, answers, broadcastVars>>
        /\ handler' = [handler EXCEPT ![s] = "closing"]
    BY <1>6 DEF ReqLogout, HandlerGoes, Active, acceptVars
  <2>2. \A r \in Sockets : ~LoggedInOn(r)'
    BY <2>1 DEF LoggedInOn, OneAtATime, OwnEntry, Active, SessionTypeOK
  <2>3. OneAtATime' /\ OwnEntry'
    BY <2>1, <2>2 DEF OneAtATime, OwnEntry, Active, SessionTypeOK
  <2>4. \A r \in Sockets : Survives(r) => Survives(r)'
    BY <2>1 DEF Survives, OwnEntry, Active, SessionTypeOK
  <2>5. AudienceInv'
    BY <1>0, <2>1, <2>2, <2>4, SameBroadcasts
  <2> QED BY <1>0, <2>1, <2>3, <2>5 DEF AnswersReachTheRequester
<1>7. ASSUME NEW s \in Sockets, Request(s)
      PROVE  SessionInv'
  <2>1. LoggedInOn(s) /\ map[info[s]] = s
    BY <1>7 DEF Request, OwnEntry, LoggedInOn
  <2>2. /\ UNCHANGED <<server, handler, info, map, broadcastVars>>
        /\ answers' = [answers EXCEPT ![s] = @ \cup {s}]
    BY <1>7, <2>1 DEF Request, acceptVars, sessionVars
  <2>3. OneAtATime' /\ OwnEntry'
    BY <2>2 DEF OneAtATime, OwnEntry, Active, LoggedInOn
  <2>4. AudienceInv'
    BY <1>0, <2>2, SameBroadcasts DEF LoggedInOn, Survives
  <2>5. AnswersReachTheRequester'
    BY <2>2 DEF AnswersReachTheRequester, SessionTypeOK
  <2> QED BY <1>0, <2>3, <2>4, <2>5
<1>8. ASSUME NEW s \in Sockets, NEW u \in Users \cup {NoUser}, ReqLogin(s, u)
      PROVE  SessionInv'
  <2>1. /\ Active(s) /\ UNCHANGED <<server, info, map, answers, broadcastVars>>
        /\ handler' = [handler EXCEPT ![s] = "answering"]
        /\ handler[s] = "receiving"
    BY <1>8 DEF ReqLogin, HandlerGoes, Active, acceptVars
  <2>2. OneAtATime' /\ OwnEntry'
    BY <2>1 DEF OneAtATime, OwnEntry, Active, LoggedInOn, SessionTypeOK
  <2>3. \A r \in Sockets : (Survives(r) => Survives(r)') /\ (LoggedInOn(r)' => LoggedInOn(r))
    BY <2>1 DEF Survives, LoggedInOn, SessionTypeOK
  <2>4. AudienceInv'
    BY <1>0, <2>1, <2>3, SameBroadcasts
  <2> QED BY <1>0, <2>1, <2>2, <2>4 DEF AnswersReachTheRequester
<1>9. ASSUME NEW b \in Broadcasts,
             BroadcastMessage(b) \/ BroadcastThrows(b) \/ BroadcastEnds(b)
             \/ \E u \in Users : SendNext(b, u)
      PROVE  SessionInv'
  <2>1. UNCHANGED <<server, handler, info, map, answers>>
    BY <1>9 DEF BroadcastMessage, BroadcastThrows, BroadcastEnds, SendNext, acceptVars,
                sessionVars
  <2>2. OneAtATime' /\ OwnEntry' /\ AnswersReachTheRequester'
    BY <2>1 DEF OneAtATime, OwnEntry, Active, LoggedInOn, AnswersReachTheRequester
  <2>3. AudienceInv'
    <3>1. CASE BroadcastMessage(b)
      <4>1. \A s \in audience'[b] : LoggedInOn(s) /\ map[info[s]] = s /\ info[s] \in Users
        BY <3>1 DEF BroadcastMessage, OwnEntry, LoggedInOn, SessionTypeOK
      <4>2. visited[b] = {}
        BY <3>1 DEF BroadcastMessage, AudienceInv
      <4>3. /\ casting' = casting \cup {b} /\ UNCHANGED <<visited, sent>>
            /\ \A c \in Broadcasts : c # b => audience'[c] = audience[c]
        BY <3>1 DEF BroadcastMessage, SessionTypeOK
      <4> QED BY <2>1, <4>1, <4>2, <4>3 DEF AudienceInv, LoggedInOn, Survives
    <3>2. CASE BroadcastThrows(b)
      BY <2>1, <3>2 DEF BroadcastThrows, broadcastVars, AudienceInv, LoggedInOn, Survives
    <3>3. CASE BroadcastEnds(b)
      BY <2>1, <3>3 DEF BroadcastEnds, AudienceInv, LoggedInOn, Survives, SessionTypeOK
    <3>4. ASSUME NEW u \in Users, SendNext(b, u)
          PROVE  AudienceInv'
      <4>1. /\ visited' = [visited EXCEPT ![b] = @ \cup {u}]
            /\ sent' = [sent EXCEPT ![b] = @ \cup {map[u]}]
            /\ b \in casting /\ UNCHANGED <<casting, audience>>
        BY <3>4 DEF SendNext
      <4> QED BY <2>1, <4>1 DEF AudienceInv, LoggedInOn, Survives, SessionTypeOK
    <3> QED BY <1>9, <3>1, <3>2, <3>3, <3>4
  <2> QED BY <1>0, <2>2, <2>3
<1> QED BY <1>1, <1>2, <1>3, <1>4, <1>5, <1>6, <1>7, <1>8, <1>9
        DEF SessionNext, HandlerStep

(* The invariant of the sessions.                                          *)
THEOREM SessionInvariant == SessionSpec => []SessionInv
  BY SessionInvInit, SessionInvInductive, PTL DEF SessionSpec

(* Every variable of the sessions keeps its type.                          *)
THEOREM SessionTypesHold == SessionSpec => []SessionTypeOK
<1>1. SessionInv => SessionTypeOK
  BY DEF SessionInv
<1> QED BY <1>1, SessionInvariant, PTL

(* For any number of users and sockets, an answer goes to the client that  *)
(* asked, though it is sent by user id through the shared map.             *)
THEOREM AnswersArrive == SessionSpec => []AnswersReachTheRequester
<1>1. SessionInv => AnswersReachTheRequester
  BY DEF SessionInv
<1> QED BY <1>1, SessionInvariant, PTL

(* Whatever logs in and out between its sends, a broadcast that comes to   *)
(* its end was sent to the client that has been logged in all the time.    *)
THEOREM BroadcastsArrive == SessionSpec => BroadcastReachesTheServed
<1>1. SessionInv /\ [SessionNext]_sessionsVars =>
          [\A b \in casting \ casting' :
              \A s \in audience[b] : LoggedInOn(s) => s \in sent[b]]_sessionsVars
  <2> SUFFICES ASSUME SessionInv, SessionNext, NEW b \in casting \ casting',
                      NEW s \in audience[b], LoggedInOn(s)
               PROVE  s \in sent[b]
    OBVIOUS
  <2>1. b \in Broadcasts /\ s \in Sockets
    BY DEF SessionInv, SessionTypeOK
  <2>2. BroadcastEnds(b)
    BY DEF SessionNext, acceptVars, sessionVars, broadcastVars, Connect, Drop, Accept,
           AcceptThrows, HandlerStep, ReceiveClose, HandlerThrows, LoginRefused,
           LoggedIn, LoggedOut, ReqLogout, Request, ReqLogin, BroadcastMessage,
           BroadcastThrows, BroadcastEnds, SendNext
  <2>3. \A u \in Users : map[u] = s => u \in visited[b]
    BY <2>1, <2>2, SessionAssumption DEF BroadcastEnds, Entries
  <2> QED BY <2>1, <2>3 DEF SessionInv, AudienceInv
<1> QED BY <1>1, SessionInvariant, PTL DEF SessionSpec, BroadcastReachesTheServed

-----------------------------------------------------------------------------
(* What the entry that a logout leaves in the map does to broadcasts.      *)

(* An entry with a closed socket that broadcast b, under way or not yet    *)
(* started, has not been through.                                          *)
ClosedAhead(b, u, s) == map[u] = s /\ sock[s] = "closed" /\ u \notin visited[b]

(* A broadcast with such an entry ahead never comes to its end, and the    *)
(* entry stays ahead of this call and of all to come, until the user logs  *)
(* in again or the entry goes by accident: what is left is the exception   *)
(* that ends the process.                                                  *)
ClosedEntryStopsBroadcasts ==
    [][\A b \in Broadcasts, u \in Users, s \in Sockets :
          ClosedAhead(b, u, s) /\ map'[u] = s =>
              ClosedAhead(b, u, s)' /\ (b \in casting => b \in casting')]_sessionsVars

(* No socket that is closed is opened again. *)
LEMMA ClosedStaysClosed ==
    ASSUME SessionTypeOK, [SessionNext]_sessionsVars, NEW s \in Sockets,
           sock[s] = "closed"
    PROVE  sock'[s] = "closed"
<1> USE DEF SessionTypeOK, SocketGoes
<1>1. CASE UNCHANGED sock
  BY <1>1
<1>2. ASSUME NEW r \in Sockets,
             \/ Connect(r) \/ Drop(r) \/ Accept(r) \/ AcceptThrows(r)
             \/ ReceiveClose(r) \/ ReqLogout(r)
      PROVE  sock'[s] = "closed"
  BY <1>2 DEF Connect, Drop, Accept, AcceptThrows, ReceiveClose, ReqLogout
<1> QED
  BY <1>1, <1>2
     DEF SessionNext, sessionsVars, sessionVars, HandlerStep, HandlerThrows,
         LoginRefused, LoggedIn, LoggedOut, ReqLogin, Request, BroadcastMessage,
         SendNext, BroadcastThrows, BroadcastEnds

(* No broadcast gets past a socket that a logout has closed.               *)
THEOREM ClosedEntriesStop == SessionSpec => ClosedEntryStopsBroadcasts
<1>1. ASSUME SessionInv, SessionNext, NEW b \in Broadcasts, NEW u \in Users,
             NEW s \in Sockets, ClosedAhead(b, u, s), map'[u] = s
      PROVE  ClosedAhead(b, u, s)' /\ (b \in casting => b \in casting')
  <2>1. sock'[s] = "closed"
    BY <1>1, ClosedStaysClosed DEF ClosedAhead, SessionInv
  <2>2. u \in Entries /\ visited \in [Broadcasts -> SUBSET Users]
    BY <1>1, SessionAssumption DEF ClosedAhead, Entries, SessionInv, SessionTypeOK
  <2>3. ASSUME NEW c \in Broadcasts, BroadcastEnds(c)
        PROVE  visited'[b] = visited[b] /\ (b \in casting => b \in casting')
    BY <1>1, <2>2, <2>3 DEF BroadcastEnds, ClosedAhead
  <2>4. ASSUME NEW c \in Broadcasts, NEW v \in Users, SendNext(c, v)
        PROVE  u \notin visited'[b] /\ casting' = casting
    BY <1>1, <2>2, <2>4 DEF SendNext, ClosedAhead
  <2>5. ASSUME NEW c \in Broadcasts, BroadcastMessage(c)
        PROVE  visited' = visited /\ casting \subseteq casting'
    BY <2>5 DEF BroadcastMessage
  <2>7. ASSUME NEW r \in Sockets,
               \/ Connect(r) \/ Drop(r) \/ Accept(r) \/ AcceptThrows(r)
               \/ HandlerStep(r) \/ ReqLogout(r) \/ Request(r)
               \/ \E v \in Users \cup {NoUser} : ReqLogin(r, v)
        PROVE  UNCHANGED <<casting, visited>>
    BY <2>7 DEF Connect, Drop, Accept, AcceptThrows, HandlerStep, ReceiveClose,
       HandlerThrows, LoginRefused, LoggedIn, LoggedOut, ReqLogout, Request,
       ReqLogin, broadcastVars
  <2>8. ASSUME NEW c \in Broadcasts, BroadcastThrows(c)
        PROVE  UNCHANGED <<casting, visited>>
    BY <2>8 DEF BroadcastThrows, broadcastVars
  <2>9. u \notin visited'[b] /\ (b \in casting => b \in casting')
    BY <1>1, <2>3, <2>4, <2>5, <2>7, <2>8 DEF SessionNext, ClosedAhead
  <2> QED BY <1>1, <2>1, <2>9 DEF ClosedAhead
<1>2. ASSUME SessionInv, [SessionNext]_sessionsVars
      PROVE  [\A b \in Broadcasts, u \in Users, s \in Sockets :
                ClosedAhead(b, u, s) /\ map'[u] = s =>
                    ClosedAhead(b, u, s)' /\ (b \in casting => b \in casting')]_sessionsVars
  BY <1>1, <1>2
<1> QED BY <1>2, SessionInvariant, PTL DEF SessionSpec, ClosedEntryStopsBroadcasts
=============================================================================
