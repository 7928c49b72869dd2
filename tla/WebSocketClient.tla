---------------------------- MODULE WebSocketClient ----------------------------
(***************************************************************************)
(* The client program's WebSocketClient: one QWebSocket, a retry timer     *)
(* that fires again and again until it is stopped, a heartbeat timer and   *)
(* a count of retries.  Qt runs the slots on one thread, and a slot runs   *)
(* to its end.                                                             *)
(*                                                                         *)
(* open() of a QWebSocket that has a connection drops it without a signal; *)
(* an attempt that fails is signalled as a disconnect, like the loss of a  *)
(* connection.                                                             *)
(***************************************************************************)
EXTENDS Naturals

CONSTANTS
    Clients,     \* the running client programs
    MaxRetries   \* m_maxRetries

ASSUME RetryAssumption == MaxRetries \in Nat \ {0}

VARIABLES
    started,     \* connectUrl has been called: m_url is set
    socket,      \* state of m_webSocket
    retryCount,  \* m_retryCount, counted up to MaxRetries
    retryTimer,  \* m_retryTimer is active
    heartbeatTimer

timers     == <<retryTimer, heartbeatTimer>>
clientVars == <<started, socket, retryCount, timers>>

ClientInit ==
    /\ started        = [c \in Clients |-> FALSE]
    /\ socket         = [c \in Clients |-> "unconnected"]
    /\ retryCount     = [c \in Clients |-> 0]
    /\ retryTimer     = [c \in Clients |-> FALSE]
    /\ heartbeatTimer = [c \in Clients |-> FALSE]

open(c) == socket' = [socket EXCEPT ![c] = "connecting"]

(* The timers are left as they are. *)
connectUrl(c) ==
    /\ started' = [started EXCEPT ![c] = TRUE]
    /\ retryCount' = [retryCount EXCEPT ![c] = 0]
    /\ open(c)
    /\ UNCHANGED timers

(* Mutant of onConnected: the retry timer goes on. *)
onConnectedRetrying(c) ==
    /\ socket[c] = "connecting"
    /\ socket' = [socket EXCEPT ![c] = "connected"]
    /\ retryCount' = [retryCount EXCEPT ![c] = 0]
    /\ heartbeatTimer' = [heartbeatTimer EXCEPT ![c] = TRUE]
    /\ UNCHANGED <<started, retryTimer>>

onConnected(c) ==
    /\ socket[c] = "connecting"
    /\ socket' = [socket EXCEPT ![c] = "connected"]
    /\ retryTimer' = [retryTimer EXCEPT ![c] = FALSE]
    /\ retryCount' = [retryCount EXCEPT ![c] = 0]
    /\ heartbeatTimer' = [heartbeatTimer EXCEPT ![c] = TRUE]
    /\ UNCHANGED started

(* Mutant of onDisconnected: giving up stops the retry timer. *)
onDisconnectedStops(c) ==
    /\ socket[c] # "unconnected"
    /\ socket' = [socket EXCEPT ![c] = "unconnected"]
    /\ heartbeatTimer' = [heartbeatTimer EXCEPT ![c] = FALSE]
    /\ retryTimer' = [retryTimer EXCEPT ![c] = retryCount[c] < MaxRetries]
    /\ UNCHANGED <<started, retryCount>>

(* Mutant of onDisconnected: the heartbeat goes on. *)
onDisconnectedBeating(c) ==
    /\ socket[c] # "unconnected"
    /\ socket' = [socket EXCEPT ![c] = "unconnected"]
    /\ retryTimer' = [retryTimer EXCEPT ![c] = @ \/ retryCount[c] < MaxRetries]
    /\ UNCHANGED <<started, retryCount, heartbeatTimer>>

(* "Max retry attempts reached. Giving up." is only logged: a retry timer  *)
(* that is active stays so.                                                *)
onDisconnected(c) ==
    /\ socket[c] # "unconnected"
    /\ socket' = [socket EXCEPT ![c] = "unconnected"]
    /\ heartbeatTimer' = [heartbeatTimer EXCEPT ![c] = FALSE]
    /\ retryTimer' = [retryTimer EXCEPT ![c] = @ \/ retryCount[c] < MaxRetries]
    /\ UNCHANGED <<started, retryCount>>

onRetryConnection(c) ==
    /\ retryTimer[c]
    /\ retryCount' = [retryCount EXCEPT ![c] = IF @ < MaxRetries THEN @ + 1 ELSE @]
    /\ open(c)
    /\ UNCHANGED <<started, timers>>

(* The program ends and may be started again. *)
Quit(c) ==
    /\ started[c]
    /\ started' = [started EXCEPT ![c] = FALSE]
    /\ socket' = [socket EXCEPT ![c] = "unconnected"]
    /\ retryCount' = [retryCount EXCEPT ![c] = 0]
    /\ retryTimer' = [retryTimer EXCEPT ![c] = FALSE]
    /\ heartbeatTimer' = [heartbeatTimer EXCEPT ![c] = FALSE]

-----------------------------------------------------------------------------
ClientTypeOK ==
    /\ started        \in [Clients -> BOOLEAN]
    /\ socket         \in [Clients -> {"unconnected", "connecting", "connected"}]
    /\ retryCount     \in [Clients -> 0..MaxRetries]
    /\ retryTimer     \in [Clients -> BOOLEAN]
    /\ heartbeatTimer \in [Clients -> BOOLEAN]

(* Through every order of connects, failures, retries and repeated calls   *)
(* of connectUrl: while a client is connected no retry is pending that     *)
(* would tear the connection down, and no heartbeat runs without a socket  *)
(* that has been opened.                                                   *)
TimersFollowTheSocket ==
    \A c \in Clients :
        /\ socket[c] = "connected" =>
             heartbeatTimer[c] /\ ~retryTimer[c] /\ retryCount[c] = 0
        /\ heartbeatTimer[c] => socket[c] # "unconnected"

(* A client whose connection is lost or refused, however often, has a      *)
(* retry coming: it never gives up, whatever it logs.                      *)
RetryArmed ==
    \A c \in Clients :
        started[c] /\ socket[c] = "unconnected" => retryTimer[c]
=============================================================================
