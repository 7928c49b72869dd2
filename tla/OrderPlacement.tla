---------------------------- MODULE OrderPlacement ----------------------------
(***************************************************************************)
(* Placing an order: TradingFacadeService.ReqPlaceOrder gives it an id,    *)
(* AbstractTradingService.PlaceOrder sends it once for every connected     *)
(* sub-account through TradingService.PlaceOrderImpl and then starts a     *)
(* background task that stores the order and its status.                   *)
(*                                                                         *)
(* No lock is held, so the calls for several orders overlap, except inside *)
(* UniqueIdGenerator.  The exchange may refuse an order, or accept it and  *)
(* lose the answer; the trade database may fail an insert.                 *)
(*                                                                         *)
(* PlaceOrderImpl looks the socket client up by the id of the client user, *)
(* among the sub-accounts.  User ids and account ids are both integers, so *)
(* Users and Accounts may overlap.                                         *)
(***************************************************************************)
EXTENDS UniqueIdGenerator, FiniteSets, Functions

CONSTANTS
    Orders,    \* the ReqPlaceOrder requests; each runs on a thread of its own
    Users,     \* client user ids
    Accounts   \* ids of the sub-accounts in the account database

ASSUME OrderAssumption ==
    /\ IsFiniteSet(Orders) /\ IsFiniteSet(Accounts)
    /\ Callers = Orders

VARIABLES
    loaded,     \* sub-accounts LoadAccounts entered in the map
    connected,  \* those of them whose Connectivity is set
    user,       \* order.ClientUserId
    step,       \* how far the request, then its background task, has come
    orderId,    \* order.OrderId
    statusId,   \* orderStatusInfo.OrderId
    visited,    \* the accounts ForeachSubAccount has been through
    accepted,   \* how often the exchange has accepted the order at an account
    orderRows,  \* table "order": which order was stored under which id
    statusRows  \* table "order_status"

accountVars == <<loaded, connected>>
callVars    == <<user, step, orderId, statusId, visited>>
storeVars   == <<orderRows, statusRows>>
orderVars   == <<idVars, accountVars, callVars, accepted, storeVars>>

Steps == {"idle", "orderId", "statusId", "placing", "storeOrder", "storeStatus",
          "stored", "failed", "lost"}

NoId   == -1
NoUser == -1

(* The accounts are loaded, before the first client connects: an account   *)
(* without a listen key is skipped, one that does not answer the ping is   *)
(* loaded but not connected.                                               *)
OrderInit ==
    /\ IdInit
    /\ loaded    \in SUBSET Accounts
    /\ connected \in SUBSET loaded
    /\ user      = [o \in Orders |-> NoUser]
    /\ step      = [o \in Orders |-> "idle"]
    /\ orderId   = [o \in Orders |-> NoId]
    /\ statusId  = [o \in Orders |-> NoId]
    /\ visited   = [o \in Orders |-> {}]
    /\ accepted  = [o \in Orders |-> [a \in Accounts |-> 0]]
    /\ orderRows = {}
    /\ statusRows = {}

Goes(o, from, to) ==
    /\ step[o] = from
    /\ step' = [step EXCEPT ![o] = to]

ReqPlaceOrder(o, u) ==
    /\ Goes(o, "idle", "orderId")
    /\ user' = [user EXCEPT ![o] = u]
    /\ UNCHANGED <<idVars, accountVars, orderId, statusId, visited, accepted,
                   storeVars>>

(* One UniqueIdGenerator.Get of the thread of order o; it may have to wait. *)
Get(o) == GetAtOnce \/ WaitForNextTimestamp(o)

Returned == issued'[Len(issued')]

GetWaits(o) ==
    /\ step[o] \in {"orderId", "statusId"}
    /\ GetOverflows(o)
    /\ UNCHANGED <<accountVars, callVars, accepted, storeVars>>

AssignOrderId(o) ==
    /\ Goes(o, "orderId", "statusId")
    /\ Get(o)
    /\ orderId' = [orderId EXCEPT ![o] = Returned]
    /\ UNCHANGED <<accountVars, user, statusId, visited, accepted, storeVars>>

(* Mutant of AssignStatusId: a Get that waits never returns. *)
AssignStatusIdAtOnce(o) ==
    /\ Goes(o, "statusId", "placing")
    /\ GetAtOnce
    /\ statusId' = [statusId EXCEPT ![o] = Returned]
    /\ UNCHANGED <<accountVars, user, orderId, visited, accepted, storeVars>>

(* A symbol that is not tradable is only logged. *)
AssignStatusId(o) ==
    /\ Goes(o, "statusId", "placing")
    /\ Get(o)
    /\ statusId' = [statusId EXCEPT ![o] = Returned]
    /\ UNCHANGED <<accountVars, user, orderId, visited, accepted, storeVars>>

(* GetWebSocketClient(clientUserId) is null: PlaceOrderImpl throws. *)
NoSocketClient(o) ==
    /\ visited[o] # connected
    /\ user[o] \notin loaded
    /\ Goes(o, "placing", "failed")
    /\ UNCHANGED <<idVars, accountVars, user, orderId, statusId, visited, accepted,
                   storeVars>>

Accept(o) == accepted' = [accepted EXCEPT ![o][user[o]] = @ + 1]

(* Mutant of PlaceOrderImpl: the loop goes on to the next account without  *)
(* waiting for the result of this one.                                     *)
PlaceOrderUnanswered(o, account) ==
    /\ step[o] = "placing"
    /\ account \in connected \ visited[o]
    /\ user[o] \in loaded
    /\ visited' = [visited EXCEPT ![o] = @ \cup {account}]
    /\ UNCHANGED accepted \/ Accept(o)
    /\ UNCHANGED <<idVars, accountVars, user, step, orderId, statusId, storeVars>>

(* Mutant of PlaceOrderImpl: it is called for every account in the map,    *)
(* connected or not.                                                       *)
PlaceOrderUnconnected(o, account) ==
    /\ step[o] = "placing"
    /\ account \in loaded \ visited[o]
    /\ user[o] \in loaded
    /\ visited' = [visited EXCEPT ![o] = @ \cup {account}]
    /\ Accept(o)
    /\ UNCHANGED <<idVars, accountVars, user, step, orderId, statusId, storeVars>>

PlaceOrderImpl(o, account) ==
    /\ step[o] = "placing"
    /\ account \in connected \ visited[o]
    /\ user[o] \in loaded
    /\ visited' = [visited EXCEPT ![o] = @ \cup {account}]
    /\ Accept(o)
    /\ UNCHANGED <<idVars, accountVars, user, step, orderId, statusId, storeVars>>

(* Mutant of PlaceOrderFails: it tries again. *)
PlaceOrderRetries(o) ==
    /\ visited[o] # connected
    /\ user[o] \in loaded
    /\ step[o] = "placing"
    /\ accepted[o][user[o]] <= Cardinality(connected)
    /\ UNCHANGED accepted \/ Accept(o)
    /\ UNCHANGED <<idVars, accountVars, callVars, storeVars>>

(* The answer is not a success, although the exchange may have accepted    *)
(* the order: the exception ends ForeachSubAccount and PlaceOrder.         *)
PlaceOrderFails(o) ==
    /\ visited[o] # connected
    /\ user[o] \in loaded
    /\ Goes(o, "placing", "failed")
    /\ UNCHANGED accepted \/ Accept(o)
    /\ UNCHANGED <<idVars, accountVars, user, orderId, statusId, visited, storeVars>>

(* Every account has been visited: Task.Run starts the background task. *)
StartStoring(o) ==
    /\ visited[o] = connected
    /\ Goes(o, "placing", "storeOrder")
    /\ UNCHANGED <<idVars, accountVars, user, orderId, statusId, visited, accepted,
                   storeVars>>

(* An INSERT needs a primary key that is new: the id and the user in table *)
(* "order", the id in "order_status".                                      *)
StoreOrder(o) ==
    /\ \A row \in orderRows : row.id # orderId[o] \/ user[row.order] # user[o]
    /\ orderRows' = orderRows \cup {[id |-> orderId[o], order |-> o]}
    /\ UNCHANGED statusRows

StoreStatus(o) ==
    /\ \A row \in statusRows : row.id # statusId[o]
    /\ statusRows' = statusRows \cup {[id |-> statusId[o], order |-> o]}
    /\ UNCHANGED orderRows

(* The background task moves on; nothing else changes. *)
Stores(o, from, to) ==
    /\ Goes(o, from, to)
    /\ UNCHANGED <<idVars, accountVars, user, orderId, statusId, visited, accepted>>

InsertOrder(o)  == Stores(o, "storeOrder", "storeStatus") /\ StoreOrder(o)
InsertStatus(o) == Stores(o, "storeStatus", "stored") /\ StoreStatus(o)

(* Mutant of InsertThrows: each insert catches its own exception. *)
InsertThrowsCaught(o) ==
    /\ Stores(o, "storeOrder", "storeStatus") \/ Stores(o, "storeStatus", "lost")
    /\ UNCHANGED storeVars

(* GetTable returned null (no code creates the two tables) or threw, or    *)
(* the insert did, perhaps after it was carried out.  Nobody awaits the    *)
(* task, so its exception is lost.                                         *)
InsertThrows(o) ==
    \/ /\ Stores(o, "storeOrder", "lost")
       /\ UNCHANGED storeVars \/ StoreOrder(o)
    \/ /\ Stores(o, "storeStatus", "lost")
       /\ UNCHANGED storeVars \/ StoreStatus(o)

Place(o) ==
    \/ GetWaits(o) \/ AssignOrderId(o) \/ AssignStatusId(o)
    \/ NoSocketClient(o) \/ PlaceOrderFails(o)
    \/ \E account \in Accounts : PlaceOrderImpl(o, account)
    \/ StartStoring(o) \/ InsertOrder(o) \/ InsertStatus(o) \/ InsertThrows(o)

Clock ==
    /\ Tick \/ StepBack
    /\ UNCHANGED <<accountVars, callVars, accepted, storeVars>>

OrderNext ==
    \/ Clock
    \/ \E o \in Orders : Place(o) \/ \E u \in Users : ReqPlaceOrder(o, u)

(* Threads are scheduled, REST calls return, and time goes on. *)
OrderFairness ==
    /\ \A o \in Orders : WF_orderVars(Place(o))
    /\ WF_orderVars(Clock /\ Tick)

OrderSpec == OrderInit /\ [][OrderNext]_orderVars /\ OrderFairness

-----------------------------------------------------------------------------
OrderTypeOK ==
    /\ loaded \subseteq Accounts /\ connected \subseteq loaded
    /\ user     \in [Orders -> Users \cup {NoUser}]
    /\ step     \in [Orders -> Steps]
    /\ orderId  \in [Orders -> Nat \cup {NoId}]
    /\ statusId \in [Orders -> Nat \cup {NoId}]
    /\ visited  \in [Orders -> SUBSET connected]
    /\ accepted \in [Orders -> [Accounts -> Nat]]
    /\ orderRows \cup statusRows \subseteq [id : Nat, order : Orders]

Total(o) == FoldFunction(LAMBDA m, n : m + n, 0, accepted[o])

(* What the database says was ordered is on the market: an order that is   *)
(* stored was accepted by the exchange exactly once for each connected     *)
(* sub-account, refused and unanswered placements included.                *)
StoredMeansPlaced ==
    \A row \in orderRows : Total(row.order) = Cardinality(connected)

(* Whatever fails, PlaceOrder never buys more than one order for each      *)
(* connected sub-account: a placement whose answer was lost is not         *)
(* repeated.                                                               *)
NeverPlacedTwice ==
    \A o \in Orders : Total(o) <= Cardinality(connected)

(* The two inserts of the background tasks of several orders interleave,   *)
(* and each may fail: yet there is no status of an order that is missing.  *)
StatusAfterOrder ==
    \A row \in statusRows : \E r \in orderRows : r.order = row.order

(* As long as the clock is not set back, no insert meets its own id in its *)
(* table: each was given to one order only, across the requests' threads.  *)
PrimaryKeysAreNew ==
    ~setBack =>
        \A o \in Orders :
            /\ step[o] = "storeOrder" => \A row \in orderRows : row.id # orderId[o]
            /\ step[o] = "storeStatus" => \A row \in statusRows : row.id # statusId[o]

(* Every request ends: it is stored, or one of its steps threw.            *)
RequestsEnd ==
    \A o \in Orders :
        step[o] = "orderId" ~> step[o] \in {"stored", "failed", "lost"}

(* "并对每个子账号产生一个实际的订单": a placed order is one actual order of    *)
(* every sub-account.                                                      *)
OneOrderPerAccount ==
    \A o \in Orders :
        step[o] = "storeOrder" => \A a \in connected : accepted[o][a] = 1

(* The column order_id of "order_status" is an id of the table "order".    *)
StatusNamesItsOrder ==
    \A row \in statusRows : \E r \in orderRows : r.id = row.id
=============================================================================
