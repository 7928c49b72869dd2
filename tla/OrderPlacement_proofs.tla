------------------------- MODULE OrderPlacement_proofs -------------------------
(***************************************************************************)
(* Theorems about placing orders, for any number of overlapping requests,  *)
(* users and sub-accounts.                                                 *)
(*                                                                         *)
(* The ids of an order are local variables of its request, and the rows    *)
(* are written much later; OrderInv connects them: an id that was assigned *)
(* is not above Highest of the generator, no two orders have the same, and *)
(* a row carries the id of its order, which is past the insert.            *)
(***************************************************************************)
EXTENDS OrderPlacement, UniqueIdGenerator_proofs, FiniteSetTheorems,
        WellFoundedInduction

(* Every order step is a step of the generator or leaves it alone. *)
LEMMA OrderStepIsIdStep == [OrderNext]_orderVars => [IdNext]_idVars
  BY OrderAssumption
     DEF OrderNext, orderVars, Clock, Place, ReqPlaceOrder, GetWaits, AssignOrderId,
         AssignStatusId, Get, NoSocketClient, PlaceOrderFails, PlaceOrderImpl,
         StartStoring, InsertOrder, InsertStatus, InsertThrows, Stores, IdNext

(* The ids of all the requests, overlapping or not, come out increasing.   *)
THEOREM OrdersIncrease == OrderSpec => []IdsIncrease
<1>1. OrderSpec => IdSpec
  BY OrderStepIsIdStep, PTL DEF OrderSpec, OrderInit, IdSpec
<1> QED BY <1>1, Increasing, PTL

(* IdInv is an invariant of the orders as well. *)
LEMMA OrderIdInv == OrderSpec => []IdInv
<1>1. OrderSpec => IdSpec
  BY OrderStepIsIdStep, PTL DEF OrderSpec, OrderInit, IdSpec
<1> QED BY <1>1, IdInvariant, PTL

-----------------------------------------------------------------------------
HasOrderId(o)  == step[o] \notin {"idle", "orderId"}
HasStatusId(o) == step[o] \notin {"idle", "orderId", "statusId"}

(* What step a request is at says which of its variables are set. *)
ProgressInv ==
    \A o \in Orders :
        /\ HasOrderId(o)  <=> orderId[o]  # NoId
        /\ HasStatusId(o) <=> statusId[o] # NoId

OrderIdsInv ==
    ~setBack =>
        /\ \A o \in Orders : orderId[o] <= Highest
        /\ \A o, p \in Orders :
              o # p /\ orderId[o] # NoId => orderId[o] # orderId[p]

StatusIdsInv ==
    ~setBack =>
        /\ \A o \in Orders : statusId[o] <= Highest
        /\ \A o, p \in Orders :
              o # p /\ statusId[o] # NoId => statusId[o] # statusId[p]

RowsInv ==
    /\ \A row \in orderRows :
          /\ row.id = orderId[row.order]
          /\ step[row.order] \in {"storeStatus", "stored", "lost"}
    /\ \A row \in statusRows :
          /\ row.id = statusId[row.order]
          /\ step[row.order] \in {"stored", "lost"}
          /\ \E r \in orderRows : r.order = row.order
    /\ \A o \in Orders :
          step[o] = "storeStatus" => \E r \in orderRows : r.order = o

OrderInv == OrderTypeOK /\ ProgressInv /\ OrderIdsInv /\ StatusIdsInv /\ RowsInv

-----------------------------------------------------------------------------
(* The types, one step per action. *)
LEMMA OrderTypesInductive ==
    ASSUME OrderTypeOK, ProgressInv, IdInv, [OrderNext]_orderVars
    PROVE  OrderTypeOK'
<1>1. CASE Clock \/ UNCHANGED orderVars
  BY <1>1 DEF Clock, orderVars, accountVars, callVars, storeVars, OrderTypeOK
<1>2. ASSUME NEW o \in Orders, NEW u \in Users, ReqPlaceOrder(o, u)
      PROVE  OrderTypeOK'
  BY <1>2 DEF ReqPlaceOrder, Goes, accountVars, storeVars, OrderTypeOK, Steps
<1>3. ASSUME NEW o \in Orders, GetWaits(o) PROVE OrderTypeOK'
  BY <1>3 DEF GetWaits, accountVars, callVars, storeVars, OrderTypeOK
<1>4. ASSUME NEW o \in Orders, AssignOrderId(o) \/ AssignStatusId(o)
      PROVE  OrderTypeOK'
  <2>1. Returned \in Nat
    BY <1>4, GetReturnsHighest, OrderAssumption
       DEF AssignOrderId, AssignStatusId, Get, Returned
  <2> QED BY <1>4, <2>1 DEF AssignOrderId, AssignStatusId, Goes, accountVars,
             storeVars, OrderTypeOK, Steps
<1>5. ASSUME NEW o \in Orders, NoSocketClient(o) \/ StartStoring(o)
      PROVE  OrderTypeOK'
  BY <1>5 DEF NoSocketClient, StartStoring, Goes, accountVars, storeVars,
     OrderTypeOK, Steps
<1>6. ASSUME NEW o \in Orders, user[o] \in loaded, UNCHANGED accepted \/ Accept(o)
      PROVE  accepted' \in [Orders -> [Accounts -> Nat]]
  BY <1>6 DEF Accept, OrderTypeOK
<1>7. ASSUME NEW o \in Orders, PlaceOrderFails(o) PROVE OrderTypeOK'
  BY <1>6, <1>7 DEF PlaceOrderFails, Goes, accountVars, storeVars, OrderTypeOK, Steps
<1>8. ASSUME NEW o \in Orders, NEW a \in Accounts, PlaceOrderImpl(o, a)
      PROVE  OrderTypeOK'
  BY <1>6, <1>8 DEF PlaceOrderImpl, accountVars, storeVars, OrderTypeOK
<1>9. ASSUME NEW o \in Orders, InsertOrder(o) \/ InsertStatus(o) \/ InsertThrows(o)
      PROVE  OrderTypeOK'
  <2>1. orderId[o] \in Nat /\ statusId[o] \in Nat
    BY <1>9 DEF InsertOrder, InsertStatus, InsertThrows, Stores, Goes, OrderTypeOK,
       ProgressInv, HasOrderId, HasStatusId
  <2>2. orderRows' \cup statusRows' \subseteq [id : Nat, order : Orders]
    BY <1>9, <2>1 DEF InsertOrder, InsertStatus, InsertThrows, StoreOrder,
       StoreStatus, storeVars, OrderTypeOK
  <2> QED BY <1>9, <2>2 DEF InsertOrder, InsertStatus, InsertThrows, Stores, Goes,
             accountVars, OrderTypeOK, Steps
<1> QED BY <1>1, <1>2, <1>3, <1>4, <1>5, <1>7, <1>8, <1>9 DEF OrderNext, Place

(* A step that keeps the ids and the generator's time keeps them distinct  *)
(* and below Highest.                                                      *)
LEMMA SameIds ==
    ASSUME OrderTypeOK, OrderIdsInv, StatusIdsInv, IdInv,
           UNCHANGED <<orderId, statusId>>,
           \/ \E c \in Callers : GetOverflows(c)
           \/ Tick \/ StepBack \/ UNCHANGED idVars
    PROVE  OrderIdsInv' /\ StatusIdsInv'
<1>1. /\ Highest \in Int /\ Highest' \in Int /\ Highest <= Highest'
      /\ ~setBack' => ~setBack
  BY HighestGrows
<1>2. \A o \in Orders : orderId[o] \in Int /\ statusId[o] \in Int
  BY DEF OrderTypeOK, NoId
<1> QED BY <1>1, <1>2 DEF OrderIdsInv, StatusIdsInv

(* A Get gives the request an id that no other has. *)
LEMMA NewIds ==
    ASSUME OrderTypeOK, OrderIdsInv, StatusIdsInv, IdInv,
           NEW o \in Orders, AssignOrderId(o) \/ AssignStatusId(o)
    PROVE  OrderIdsInv' /\ StatusIdsInv'
<1>1. /\ Returned = Highest' /\ Highest' \in Nat
      /\ ~setBack => Highest' > Highest
      /\ setBack' = setBack
  BY GetReturnsHighest, OrderAssumption DEF AssignOrderId, AssignStatusId, Get, Returned
<1>2. Highest \in Int
  BY IdAssumption DEF IdInv, IdTypeOK, Highest
<1>3. \A p \in Orders : orderId[p] \in Int /\ statusId[p] \in Int
  BY DEF OrderTypeOK, NoId
<1>4. CASE AssignOrderId(o)
  BY <1>1, <1>2, <1>3, <1>4 DEF AssignOrderId, OrderIdsInv, StatusIdsInv, OrderTypeOK
<1>5. CASE AssignStatusId(o)
  BY <1>1, <1>2, <1>3, <1>5 DEF AssignStatusId, OrderIdsInv, StatusIdsInv, OrderTypeOK
<1> QED BY <1>4, <1>5

(* Progress, ids and rows, one step per action. *)
LEMMA OrderInvInductive ==
    ASSUME OrderInv, IdInv, [OrderNext]_orderVars
    PROVE  OrderInv'
<1>0. OrderTypeOK'
  BY OrderTypesInductive DEF OrderInv
<1>1. CASE Clock \/ UNCHANGED orderVars
  <2>1. /\ UNCHANGED <<accountVars, callVars, accepted, storeVars>>
        /\ Tick \/ StepBack \/ UNCHANGED idVars
    BY <1>1 DEF Clock, orderVars
  <2>2. OrderIdsInv' /\ StatusIdsInv'
    BY <2>1, SameIds DEF OrderInv, callVars
  <2>3. ProgressInv' /\ RowsInv'
    BY <2>1 DEF OrderInv, callVars, storeVars, ProgressInv, RowsInv, HasOrderId,
       HasStatusId
  <2> QED BY <1>0, <2>2, <2>3 DEF OrderInv
<1>2. ASSUME NEW o \in Orders, NEW u \in Users, ReqPlaceOrder(o, u)
      PROVE  OrderInv'
  <2>1. OrderIdsInv' /\ StatusIdsInv'
    BY <1>2, SameIds DEF OrderInv, ReqPlaceOrder
  <2>2. ProgressInv' /\ RowsInv'
    BY <1>2 DEF OrderInv, ReqPlaceOrder, Goes, storeVars, ProgressInv, RowsInv,
       HasOrderId, HasStatusId, OrderTypeOK
  <2> QED BY <1>0, <2>1, <2>2 DEF OrderInv
<1>3. ASSUME NEW o \in Orders, GetWaits(o) PROVE OrderInv'
  <2>1. OrderIdsInv' /\ StatusIdsInv'
    BY <1>3, SameIds, OrderAssumption DEF OrderInv, GetWaits, callVars
  <2>2. ProgressInv' /\ RowsInv'
    BY <1>3 DEF OrderInv, GetWaits, callVars, storeVars, ProgressInv, RowsInv,
       HasOrderId, HasStatusId
  <2> QED BY <1>0, <2>1, <2>2 DEF OrderInv
<1>4. ASSUME NEW o \in Orders, AssignOrderId(o) \/ AssignStatusId(o)
      PROVE  OrderInv'
  <2>1. OrderIdsInv' /\ StatusIdsInv'
    BY <1>4, NewIds DEF OrderInv
  <2>2. Returned \in Nat /\ NoId \notin Nat
    BY <1>4, GetReturnsHighest, OrderAssumption
       DEF AssignOrderId, AssignStatusId, Get, Returned, NoId
  <2>3. ProgressInv'
    <3>1. CASE AssignOrderId(o)
      BY <2>2, <3>1 DEF OrderInv, AssignOrderId, Goes, ProgressInv, HasOrderId,
         HasStatusId, OrderTypeOK
    <3>2. CASE AssignStatusId(o)
      BY <2>2, <3>2 DEF OrderInv, AssignStatusId, Goes, ProgressInv, HasOrderId,
         HasStatusId, OrderTypeOK
    <3> QED BY <1>4, <3>1, <3>2
  <2>4. /\ UNCHANGED storeVars
        /\ step[o] \in {"orderId", "statusId"}
        /\ step'[o] \in {"statusId", "placing"}
        /\ \A p \in Orders : p # o => /\ step'[p] = step[p]
                                      /\ orderId'[p] = orderId[p]
                                      /\ statusId'[p] = statusId[p]
    BY <1>4 DEF OrderInv, AssignOrderId, AssignStatusId, Goes, OrderTypeOK
  <2>5. \A row \in orderRows \cup statusRows : row.order \in Orders /\ row.order # o
    BY <2>4 DEF OrderInv, OrderTypeOK, RowsInv
  <2>6. RowsInv'
    BY <2>4, <2>5 DEF OrderInv, RowsInv, storeVars
  <2> QED BY <1>0, <2>1, <2>3, <2>6 DEF OrderInv
<1>5. ASSUME NEW o \in Orders,
             \/ NoSocketClient(o) \/ PlaceOrderFails(o) \/ StartStoring(o)
             \/ \E a \in Accounts : PlaceOrderImpl(o, a)
      PROVE  OrderInv'
  <2>1. /\ UNCHANGED <<idVars, orderId, statusId, storeVars>>
        /\ step[o] = "placing"
        /\ step' = step \/ \E s \in {"failed", "storeOrder"} :
                              step' = [step EXCEPT ![o] = s]
    BY <1>5 DEF NoSocketClient, PlaceOrderFails, StartStoring, PlaceOrderImpl, Goes
  <2>2. OrderIdsInv' /\ StatusIdsInv'
    BY <2>1, SameIds DEF OrderInv
  <2>3. ProgressInv' /\ RowsInv'
    BY <2>1 DEF OrderInv, storeVars, ProgressInv, RowsInv, HasOrderId, HasStatusId,
       OrderTypeOK
  <2> QED BY <1>0, <2>2, <2>3 DEF OrderInv
<1>6. ASSUME NEW o \in Orders, InsertOrder(o) \/ InsertStatus(o) \/ InsertThrows(o)
      PROVE  OrderInv'
  <2>1. UNCHANGED <<idVars, orderId, statusId>>
    BY <1>6 DEF InsertOrder, InsertStatus, InsertThrows, Stores
  <2>2. OrderIdsInv' /\ StatusIdsInv'
    BY <2>1, SameIds DEF OrderInv
  <2>3. PICK s \in {"storeStatus", "stored", "lost"} : step' = [step EXCEPT ![o] = s]
    BY <1>6 DEF InsertOrder, InsertStatus, InsertThrows, Stores, Goes
  <2>4. step[o] \in {"storeOrder", "storeStatus"}
    BY <1>6 DEF InsertOrder, InsertStatus, InsertThrows, Stores, Goes
  <2>5. ProgressInv'
    BY <2>1, <2>3, <2>4 DEF OrderInv, ProgressInv, HasOrderId, HasStatusId, OrderTypeOK
  <2>6. ASSUME step[o] = "storeOrder" PROVE RowsInv'
    <3>1. /\ statusRows' = statusRows /\ s \in {"storeStatus", "lost"}
          /\ \/ orderRows' = orderRows \cup {[id |-> orderId[o], order |-> o]}
             \/ orderRows' = orderRows /\ s = "lost"
      BY <1>6, <2>3, <2>6 DEF InsertOrder, InsertStatus, InsertThrows, Stores, Goes,
         StoreOrder, storeVars, OrderInv, OrderTypeOK
    <3>2. \A row \in orderRows \cup statusRows : row.order \in Orders /\ row.order # o
      BY <2>6 DEF OrderInv, OrderTypeOK, RowsInv
    <3>3. \A p \in Orders : step'[p] = IF p = o THEN s ELSE step[p]
      BY <2>3 DEF OrderInv, OrderTypeOK
    <3>4. \A row \in orderRows' :
             /\ row.id = orderId[row.order]
             /\ step'[row.order] \in {"storeStatus", "stored", "lost"}
      BY <3>1, <3>2, <3>3 DEF OrderInv, RowsInv
    <3>5. \A row \in statusRows :
             /\ row.id = statusId[row.order]
             /\ step'[row.order] \in {"stored", "lost"}
             /\ \E r \in orderRows' : r.order = row.order
      BY <3>1, <3>2, <3>3 DEF OrderInv, RowsInv
    <3>6. \A p \in Orders :
             step'[p] = "storeStatus" => \E r \in orderRows' : r.order = p
      <4> SUFFICES ASSUME NEW p \in Orders, step'[p] = "storeStatus"
                   PROVE  \E r \in orderRows' : r.order = p
        OBVIOUS
      <4>1. CASE p = o
        <5>1. [id |-> orderId[o], order |-> o] \in orderRows'
          BY <3>1, <3>3, <4>1
        <5> QED BY <4>1, <5>1
      <4>2. CASE p # o
        BY <3>1, <3>3, <4>2 DEF OrderInv, RowsInv
      <4> QED BY <4>1, <4>2
    <3> QED BY <2>1, <3>1, <3>4, <3>5, <3>6 DEF RowsInv
  <2>7. ASSUME step[o] = "storeStatus" PROVE RowsInv'
    <3>1. /\ orderRows' = orderRows /\ s \in {"stored", "lost"}
          /\ \/ statusRows' = statusRows \cup {[id |-> statusId[o], order |-> o]}
             \/ statusRows' = statusRows
      BY <1>6, <2>3, <2>7 DEF InsertOrder, InsertStatus, InsertThrows, Stores, Goes,
         StoreStatus, storeVars, OrderInv, OrderTypeOK
    <3>2. \E r \in orderRows : r.order = o
      BY <2>7 DEF OrderInv, RowsInv
    <3>3. /\ \A row \in orderRows : row.order \in Orders
          /\ \A row \in statusRows : row.order \in Orders /\ row.order # o
      BY <2>7 DEF OrderInv, OrderTypeOK, RowsInv
    <3>4. \A p \in Orders : step'[p] = IF p = o THEN s ELSE step[p]
      BY <2>3 DEF OrderInv, OrderTypeOK
    <3>5. \A row \in orderRows :
             /\ row.id = orderId[row.order]
             /\ step'[row.order] \in {"storeStatus", "stored", "lost"}
      BY <3>1, <3>3, <3>4 DEF OrderInv, RowsInv
    <3>6. \A row \in statusRows' :
             /\ row.id = statusId[row.order]
             /\ step'[row.order] \in {"stored", "lost"}
             /\ \E r \in orderRows : r.order = row.order
      BY <3>1, <3>2, <3>3, <3>4 DEF OrderInv, RowsInv
    <3>7. \A p \in Orders :
             step'[p] = "storeStatus" => \E r \in orderRows : r.order = p
      BY <3>1, <3>4 DEF OrderInv, RowsInv
    <3> QED BY <2>1, <3>1, <3>5, <3>6, <3>7 DEF RowsInv
  <2> QED BY <1>0, <2>2, <2>4, <2>5, <2>6, <2>7 DEF OrderInv
<1> QED BY <1>1, <1>2, <1>3, <1>4, <1>5, <1>6 DEF OrderNext, Place

(* Before the first request OrderInv holds. *)
LEMMA OrderInvInit == OrderInit => OrderInv
<1> SUFFICES ASSUME OrderInit PROVE OrderInv
  OBVIOUS
<1>1. IdInv
  BY IdInvInit DEF OrderInit
<1>2. Highest \in Nat
  BY IdAssumption DEF OrderInit, IdInit, Highest
<1>3. OrderTypeOK
  BY DEF OrderInit, OrderTypeOK, Steps
<1>4. ProgressInv /\ RowsInv
  BY DEF OrderInit, ProgressInv, RowsInv, HasOrderId, HasStatusId
<1>5. OrderIdsInv /\ StatusIdsInv
  BY <1>2 DEF OrderInit, OrderIdsInv, StatusIdsInv, NoId
<1> QED BY <1>3, <1>4, <1>5 DEF OrderInv

(* OrderInv holds whatever the requests, the exchange, the database and    *)
(* the clock do.                                                           *)
THEOREM OrderInvariant == OrderSpec => []OrderInv
<1> QED BY OrderInvInit, OrderInvInductive, OrderIdInv, PTL DEF OrderSpec

(* Every variable of the order requests keeps its type.                    *)
THEOREM OrderTypes == OrderSpec => []OrderTypeOK
<1>1. OrderInv => OrderTypeOK
  BY DEF OrderInv
<1> QED BY <1>1, OrderInvariant, PTL

(* No status of an order that is missing, whichever inserts fail.          *)
THEOREM StatusHasOrder == OrderSpec => []StatusAfterOrder
<1>1. OrderInv => StatusAfterOrder
  BY DEF OrderInv, RowsInv, StatusAfterOrder
<1> QED BY <1>1, OrderInvariant, PTL

(* While the clock is not set back, no insert meets a row with its own id. *)
THEOREM KeysAreNew == OrderSpec => []PrimaryKeysAreNew
<1>1. ASSUME OrderInv, ~setBack, NEW o \in Orders, step[o] = "storeOrder",
             NEW row \in orderRows
      PROVE  row.id # orderId[o]
  <2>1. row.order \in Orders /\ row.order # o /\ row.id = orderId[row.order]
    BY <1>1 DEF OrderInv, OrderTypeOK, RowsInv
  <2>2. orderId[o] # NoId
    BY <1>1 DEF OrderInv, ProgressInv, HasOrderId
  <2> QED BY <1>1, <2>1, <2>2 DEF OrderInv, OrderIdsInv
<1>2. ASSUME OrderInv, ~setBack, NEW o \in Orders, step[o] = "storeStatus",
             NEW row \in statusRows
      PROVE  row.id # statusId[o]
  <2>1. row.order \in Orders /\ row.order # o /\ row.id = statusId[row.order]
    BY <1>2 DEF OrderInv, OrderTypeOK, RowsInv
  <2>2. statusId[o] # NoId
    BY <1>2 DEF OrderInv, ProgressInv, HasStatusId
  <2> QED BY <1>2, <2>1, <2>2 DEF OrderInv, StatusIdsInv
<1>3. OrderInv => PrimaryKeysAreNew
  BY <1>1, <1>2 DEF PrimaryKeysAreNew
<1> QED BY <1>3, OrderInvariant, PTL

-----------------------------------------------------------------------------
(* What the exchange has accepted.  All of it is at the account that has   *)
(* the user's id, where it is counted by the accounts that were visited.   *)
Counted(o, n) == \A a \in Accounts : a = user[o] => accepted[o][a] = n

PlacedOf(o) ==
    /\ \A a \in Accounts : a # user[o] => accepted[o][a] = 0
    /\ visited[o] # {} => user[o] \in loaded
    /\ step[o] \in {"idle", "orderId", "statusId"} => visited[o] = {} /\ Counted(o, 0)
    /\ step[o] = "placing" => Counted(o, Cardinality(visited[o]))
    /\ step[o] = "failed" =>
          \A a \in Accounts : accepted[o][a] <= Cardinality(connected)
    /\ step[o] \in {"storeOrder", "storeStatus", "stored", "lost"} =>
          visited[o] = connected /\ Counted(o, Cardinality(connected))

PlacedInv == \A o \in Orders : PlacedOf(o)

(* Visiting an account counts one more; there is room for it as long as    *)
(* not all were visited.                                                   *)
LEMMA VisitedFacts ==
    ASSUME OrderTypeOK, NEW o \in Orders
    PROVE  /\ IsFiniteSet(connected) /\ Cardinality(connected) \in Nat
           /\ Cardinality(visited[o]) \in Nat
           /\ visited[o] # connected => Cardinality(visited[o]) + 1 <= Cardinality(connected)
           /\ \A a \in connected \ visited[o] :
                 Cardinality(visited[o] \cup {a}) = Cardinality(visited[o]) + 1
<1>1. IsFiniteSet(connected) /\ visited[o] \subseteq connected
  BY OrderAssumption, FS_Subset DEF OrderTypeOK
<1>2. IsFiniteSet(visited[o]) /\ Cardinality(visited[o]) <= Cardinality(connected)
  BY <1>1, FS_Subset
<1>3. Cardinality(connected) \in Nat /\ Cardinality(visited[o]) \in Nat
  BY <1>1, <1>2, FS_CardinalityType
<1>4. visited[o] # connected => Cardinality(visited[o]) # Cardinality(connected)
  BY <1>1, FS_Subset
<1>5. \A a \in connected \ visited[o] :
         Cardinality(visited[o] \cup {a}) = Cardinality(visited[o]) + 1
  BY <1>2, FS_AddElement
<1> QED BY <1>1, <1>2, <1>3, <1>4, <1>5

(* Every step of a request keeps the counts of all requests. *)
LEMMA PlacedInductive ==
    ASSUME OrderTypeOK, PlacedInv, [OrderNext]_orderVars
    PROVE  PlacedInv'
<1> SUFFICES ASSUME NEW p \in Orders PROVE PlacedOf(p)'
  BY DEF PlacedInv
<1>0. PlacedOf(p)
  BY DEF PlacedInv
<1>1. ASSUME UNCHANGED accountVars, user'[p] = user[p], visited'[p] = visited[p],
             accepted'[p] = accepted[p], step'[p] = step[p]
      PROVE  PlacedOf(p)'
  BY <1>0, <1>1 DEF PlacedOf, Counted, accountVars
<1>2. CASE Clock \/ UNCHANGED orderVars \/ \E o \in Orders : GetWaits(o)
  BY <1>1, <1>2 DEF Clock, GetWaits, orderVars, callVars
<1>3. ASSUME NEW o \in Orders, NEW u \in Users, ReqPlaceOrder(o, u)
      PROVE  PlacedOf(p)'
  <2>1. CASE p # o
    BY <1>1, <1>3, <2>1 DEF ReqPlaceOrder, Goes, OrderTypeOK
  <2>2. CASE p = o
    <3>1. /\ step[p] = "idle" /\ step'[p] = "orderId" /\ visited' = visited
          /\ accepted' = accepted
      BY <1>3, <2>2 DEF ReqPlaceOrder, Goes, OrderTypeOK
    <3>2. visited[p] = {} /\ \A a \in Accounts : accepted[p][a] = 0
      BY <1>0, <3>1 DEF PlacedOf, Counted
    <3> QED BY <3>1, <3>2 DEF PlacedOf, Counted
  <2> QED BY <2>1, <2>2
<1>4. ASSUME NEW o \in Orders, AssignOrderId(o) \/ AssignStatusId(o)
      PROVE  PlacedOf(p)'
  <2>1. /\ UNCHANGED <<accountVars, user, visited, accepted>>
        /\ step[o] \in {"orderId", "statusId"} /\ step'[o] \in {"statusId", "placing"}
        /\ p # o => step'[p] = step[p]
    BY <1>4 DEF AssignOrderId, AssignStatusId, Goes, OrderTypeOK
  <2>2. CASE p # o
    BY <1>1, <2>1, <2>2
  <2>3. CASE p = o
    BY <1>0, <2>1, <2>3, FS_EmptySet DEF PlacedOf, Counted, accountVars
  <2> QED BY <2>2, <2>3
<1>5. ASSUME NEW o \in Orders, PlaceOrderFails(o) \/ NoSocketClient(o)
      PROVE  PlacedOf(p)'
  <2>1. /\ UNCHANGED <<accountVars, user, visited>> /\ visited[o] # connected
        /\ step[o] = "placing" /\ step'[o] = "failed"
        /\ p # o => step'[p] = step[p]
        /\ accepted' = accepted \/ (user[o] \in loaded /\ Accept(o))
    BY <1>5 DEF PlaceOrderFails, NoSocketClient, Goes, OrderTypeOK
  <2>2. CASE p # o
    BY <1>1, <2>1, <2>2 DEF Accept, OrderTypeOK
  <2>3. CASE p = o
    <3>1. /\ \A a \in Accounts : a # user[o] => accepted[o][a] = 0
          /\ \A a \in Accounts : a = user[o] => accepted[o][a] = Cardinality(visited[o])
      BY <1>0, <2>1, <2>3 DEF PlacedOf, Counted
    <3>2. \A a \in Accounts :
             \/ accepted'[o][a] = accepted[o][a]
             \/ a = user[o] /\ accepted'[o][a] = accepted[o][a] + 1
      BY <2>1 DEF Accept, OrderTypeOK
    <3>3. /\ \A a \in Accounts : a # user[o] => accepted'[o][a] = 0
          /\ \A a \in Accounts : accepted'[o][a] <= Cardinality(connected)
      BY <2>1, <3>1, <3>2, VisitedFacts
    <3> QED BY <1>0, <2>1, <2>3, <3>3 DEF PlacedOf, accountVars
  <2> QED BY <2>2, <2>3
<1>6. ASSUME NEW o \in Orders, NEW c \in Accounts, PlaceOrderImpl(o, c)
      PROVE  PlacedOf(p)'
  <2>1. /\ UNCHANGED <<accountVars, user, step>> /\ step[o] = "placing"
        /\ c \in connected \ visited[o] /\ user[o] \in loaded
        /\ visited' = [visited EXCEPT ![o] = visited[o] \cup {c}] /\ Accept(o)
    BY <1>6 DEF PlaceOrderImpl
  <2>2. CASE p # o
    BY <1>1, <2>1, <2>2 DEF Accept, OrderTypeOK
  <2>3. CASE p = o
    <3>1. /\ \A a \in Accounts : a # user[o] => accepted[o][a] = 0
          /\ \A a \in Accounts : a = user[o] => accepted[o][a] = Cardinality(visited[o])
      BY <1>0, <2>1, <2>3 DEF PlacedOf, Counted
    <3>2. /\ \A a \in Accounts : a # user[o] => accepted'[o][a] = accepted[o][a]
          /\ \A a \in Accounts : a = user[o] => accepted'[o][a] = accepted[o][a] + 1
      BY <2>1 DEF Accept, OrderTypeOK
    <3>3. visited'[o] = visited[o] \cup {c}
      BY <2>1 DEF OrderTypeOK
    <3>4. Cardinality(visited'[o]) = Cardinality(visited[o]) + 1
      BY <2>1, <3>3, VisitedFacts
    <3>5. Counted(o, Cardinality(visited[o]))'
      BY <2>1, <3>1, <3>2, <3>4 DEF Counted
    <3> QED BY <2>1, <2>3, <3>1, <3>2, <3>5 DEF PlacedOf, accountVars
  <2> QED BY <2>2, <2>3
<1>7. ASSUME NEW o \in Orders, StartStoring(o) PROVE PlacedOf(p)'
  BY <1>0, <1>7 DEF StartStoring, Goes, OrderTypeOK, PlacedOf, Counted, accountVars
<1>8. ASSUME NEW o \in Orders, InsertOrder(o) \/ InsertStatus(o) \/ InsertThrows(o)
      PROVE  PlacedOf(p)'
  <2>1. /\ UNCHANGED <<accountVars, user, visited, accepted>>
        /\ step[o] \in {"storeOrder", "storeStatus"}
        /\ step'[o] \in {"storeStatus", "stored", "lost"}
        /\ p # o => step'[p] = step[p]
    BY <1>8 DEF InsertOrder, InsertStatus, InsertThrows, Stores, Goes, OrderTypeOK
  <2> QED BY <1>0, <2>1 DEF PlacedOf, Counted, accountVars
<1> QED BY <1>2, <1>3, <1>4, <1>5, <1>6, <1>7, <1>8 DEF OrderNext, Place

(* The counts hold for all requests, however they overlap. *)
LEMMA PlacedInvariant == OrderSpec => []PlacedInv
<1>1. OrderInit => PlacedInv
  BY FS_EmptySet DEF OrderInit, PlacedInv, PlacedOf, Counted
<1>2. OrderInv /\ PlacedInv /\ [OrderNext]_orderVars => PlacedInv'
  BY PlacedInductive DEF OrderInv
<1> QED BY <1>1, <1>2, OrderInvariant, PTL DEF OrderSpec

(* NeverPlacedTwice and StoredMeansPlaced, account by account: nothing is  *)
(* accepted but at the account with the user's id, there never more often  *)
(* than there are connected sub-accounts, and for a stored order exactly   *)
(* that often, whatever is refused or left unanswered in between.          *)
PlacementsCounted ==
    /\ \A o \in Orders, a \in Accounts :
          accepted[o][a] <= IF a = user[o] THEN Cardinality(connected) ELSE 0
    /\ \A row \in orderRows : connected # {} =>
          /\ user[row.order] \in Accounts
          /\ accepted[row.order][user[row.order]] = Cardinality(connected)

(* The counts above hold for all requests, however they overlap. *)
THEOREM CountsOfPlacements == OrderSpec => []PlacementsCounted
<1>3. ASSUME OrderInv, PlacedInv, NEW o \in Orders, NEW a \in Accounts
      PROVE  accepted[o][a] <= IF a = user[o] THEN Cardinality(connected) ELSE 0
  <2>1. PlacedOf(o) /\ OrderTypeOK /\ step[o] \in Steps
    BY <1>3 DEF OrderInv, OrderTypeOK, PlacedInv
  <2>2. Cardinality(visited[o]) <= Cardinality(connected) /\ Cardinality(connected) \in Nat
    BY <2>1, VisitedFacts
  <2>3. a # user[o] => accepted[o][a] = 0
    BY <2>1 DEF PlacedOf
  <2>4. a = user[o] => accepted[o][a] <= Cardinality(connected)
    BY <2>1, <2>2 DEF PlacedOf, Counted, Steps
  <2> QED BY <2>3, <2>4
<1>4. ASSUME OrderInv, PlacedInv, NEW row \in orderRows, connected # {}
      PROVE  /\ user[row.order] \in Accounts
             /\ accepted[row.order][user[row.order]] = Cardinality(connected)
  <2>1. /\ row.order \in Orders /\ loaded \subseteq Accounts
        /\ step[row.order] \in {"storeStatus", "stored", "lost"}
    BY <1>4 DEF OrderInv, OrderTypeOK, RowsInv
  <2>2. PlacedOf(row.order)
    BY <1>4, <2>1 DEF PlacedInv
  <2> QED BY <1>4, <2>1, <2>2 DEF PlacedOf, Counted
<1>5. OrderInv /\ PlacedInv => PlacementsCounted
  BY <1>3, <1>4 DEF PlacementsCounted
<1> QED BY <1>5, PlacedInvariant, OrderInvariant, PTL
-----------------------------------------------------------------------------
(* Total(o) is a fold over the accounts.  The library defines a fold by a  *)
(* recursive function on the subsets of its domain; Sums is that function. *)
(* The facts about it are proved by the least cardinality at which one of  *)
(* them could fail.                                                        *)
Pick(s) == CHOOSE x \in s : TRUE

SumStep(f, g, s) == IF s = {} THEN 0 ELSE f[Pick(s)] + g[s \ {Pick(s)}]

Sums(f, S) == CHOOSE g : g = [s \in SUBSET S |-> SumStep(f, g, s)]

(* The total of an order is the sum over all accounts. *)
LEMMA TotalIsSum ==
    ASSUME OrderTypeOK, NEW o \in Orders
    PROVE  Total(o) = Sums(accepted[o], Accounts)[Accounts]
<1>1. Total(o) = Sums(accepted[o], DOMAIN accepted[o])[DOMAIN accepted[o]]
  BY DEF Total, FoldFunction, FoldFunctionOnSet, MapThenFoldSet, Sums, Pick, SumStep
<1>2. DOMAIN accepted[o] = Accounts
  BY DEF OrderTypeOK
<1> QED BY <1>1, <1>2

(* A set of natural numbers that is not empty has a least element. *)
LEMMA LeastElement ==
    ASSUME NEW T, T \subseteq Nat, T # {}
    PROVE  \E n \in T : \A m \in T : n <= m
<1>1. PICK n \in T : \A m \in T : ~ (<<m, n>> \in OpToRel(<, Nat))
  BY WFMin, NatLessThanWellFounded, Zenon
<1>2. \A m \in T : ~ (m < n)
  BY <1>1 DEF OpToRel
<1> QED BY <1>2

(* Taking an element out of a finite set leaves a smaller one. *)
LEMMA PickFacts ==
    ASSUME NEW S, IsFiniteSet(S), NEW s \in SUBSET S
    PROVE  /\ IsFiniteSet(s) /\ Cardinality(s) \in Nat /\ Cardinality(s) <= Cardinality(S)
           /\ Cardinality(s) = 0 <=> s = {}
           /\ s # {} => /\ Pick(s) \in s /\ s \ {Pick(s)} \in SUBSET S
                        /\ Cardinality(s \ {Pick(s)}) = Cardinality(s) - 1
<1>1. IsFiniteSet(s) /\ Cardinality(s) \in Nat /\ Cardinality(s) <= Cardinality(S)
  BY FS_Subset, FS_CardinalityType
<1>2. Cardinality(s) = 0 <=> s = {}
  BY <1>1, FS_EmptySet
<1>3. s # {} => Pick(s) \in s
  BY DEF Pick
<1> QED BY <1>1, <1>2, <1>3, FS_RemoveElement

(* There is a function that adds up the values of f on every subset. *)
LEMMA SumsExist ==
    ASSUME NEW S, IsFiniteSet(S), NEW f
    PROVE  \E g : g = [s \in SUBSET S |-> SumStep(f, g, s)]
<1> DEFINE UpTo(g, n) ==
               \A s \in SUBSET S : Cardinality(s) <= n => g[s] = SumStep(f, g, s)
           Bad == {n \in Nat : ~ \E g : UpTo(g, n)}
<1>1. Bad = {}
  <2> SUFFICES ASSUME Bad # {} PROVE FALSE
    OBVIOUS
  <2>1. PICK n \in Bad : \A m \in Bad : n <= m
    BY LeastElement
  <2>2. n # 0
    <3>1. ASSUME NEW s \in SUBSET S, Cardinality(s) <= 0
          PROVE  [t \in SUBSET S |-> 0][s] = SumStep(f, [t \in SUBSET S |-> 0], s)
      <4>1. s = {}
        <5>1. Cardinality(s) \in Nat /\ (Cardinality(s) = 0 <=> s = {})
          BY PickFacts
        <5> QED BY <3>1, <5>1
      <4> QED BY <4>1 DEF SumStep
    <3>2. UpTo([s \in SUBSET S |-> 0], 0)
      BY <3>1
    <3> QED BY <2>1, <3>2
  <2>3. n - 1 \in Nat /\ n - 1 \notin Bad
    BY <2>1, <2>2
  <2>4. PICK g : UpTo(g, n - 1)
    BY <2>3
  <2> DEFINE h == [s \in SUBSET S |->
                      IF Cardinality(s) <= n - 1 THEN g[s] ELSE SumStep(f, g, s)]
  <2>5. UpTo(h, n)
    <3> SUFFICES ASSUME NEW s \in SUBSET S, Cardinality(s) <= n
                 PROVE  h[s] = SumStep(f, h, s)
      OBVIOUS
    <3>1. h[s] = SumStep(f, g, s)
      BY <2>4
    <3>2. s # {} => h[s \ {Pick(s)}] = g[s \ {Pick(s)}]
      BY PickFacts, <2>3
    <3> HIDE DEF h
    <3> QED BY <3>1, <3>2 DEF SumStep
  <2> QED BY <2>1, <2>5
<1>2. PICK g : UpTo(g, Cardinality(S))
  BY <1>1, FS_CardinalityType
<1> DEFINE h == [s \in SUBSET S |-> g[s]]
<1>3. ASSUME NEW s \in SUBSET S PROVE h[s] = SumStep(f, h, s)
  <2>1. h[s] = SumStep(f, g, s)
    BY <1>2, PickFacts
  <2>2. s # {} => h[s \ {Pick(s)}] = g[s \ {Pick(s)}]
    BY PickFacts
  <2> HIDE DEF h
  <2> QED BY <2>1, <2>2 DEF SumStep
<1>4. h = [s \in SUBSET S |-> SumStep(f, h, s)]
  BY <1>3
<1> QED BY <1>4

(* So Sums is one: it satisfies its recursion. *)
LEMMA SumsDef ==
    ASSUME NEW S, IsFiniteSet(S), NEW f, NEW s \in SUBSET S
    PROVE  Sums(f, S)[s] = SumStep(f, Sums(f, S), s)
<1>1. Sums(f, S) = [t \in SUBSET S |-> SumStep(f, Sums(f, S), t)]
  BY SumsExist DEF Sums
<1> QED BY <1>1

(* A function that is 0 except perhaps at c adds up to its value there. *)
LEMMA SumAtOne ==
    ASSUME NEW S, IsFiniteSet(S), NEW f \in [S -> Nat], NEW c,
           \A a \in S : a # c => f[a] = 0
    PROVE  Sums(f, S)[S] = IF c \in S THEN f[c] ELSE 0
<1> DEFINE At(s) == IF c \in s THEN f[c] ELSE 0
           Bad == {n \in Nat :
                     \E s \in SUBSET S : Cardinality(s) = n /\ Sums(f, S)[s] # At(s)}
<1>1. Bad = {}
  <2> SUFFICES ASSUME Bad # {} PROVE FALSE
    OBVIOUS
  <2>1. PICK n \in Bad : \A m \in Bad : n <= m
    BY LeastElement
  <2>2. PICK s \in SUBSET S : Cardinality(s) = n /\ Sums(f, S)[s] # At(s)
    BY <2>1
  <2>3. Sums(f, S)[s] = SumStep(f, Sums(f, S), s)
    BY SumsDef
  <2>4. s # {}
    BY <2>2, <2>3 DEF SumStep
  <2> DEFINE t == s \ {Pick(s)}
  <2>5. t \in SUBSET S /\ Cardinality(t) = n - 1 /\ n - 1 \in Nat /\ Pick(s) \in s
    BY <2>2, <2>4, PickFacts
  <2>6. Sums(f, S)[t] = At(t)
    <3>1. n - 1 \notin Bad
      BY <2>1, <2>5
    <3> QED BY <2>5, <3>1
  <2>7. Sums(f, S)[s] = f[Pick(s)] + At(t)
    BY <2>3, <2>4, <2>6 DEF SumStep
  <2>8. f[Pick(s)] + At(t) = At(s)
    BY <2>5
  <2> QED BY <2>2, <2>7, <2>8
<1>2. Sums(f, S)[S] = At(S)
  BY <1>1, FS_CardinalityType
<1> QED BY <1>2

(* What the exchange accepted of an order adds up to what it accepted at   *)
(* the account that has the user's id.                                     *)
LEMMA TotalOfPlaced ==
    ASSUME OrderTypeOK, NEW o \in Orders, PlacedOf(o)
    PROVE  Total(o) = IF user[o] \in Accounts THEN accepted[o][user[o]] ELSE 0
<1>1. accepted[o] \in [Accounts -> Nat] /\ IsFiniteSet(Accounts)
  BY OrderAssumption DEF OrderTypeOK
<1>2. \A a \in Accounts : a # user[o] => accepted[o][a] = 0
  BY DEF PlacedOf
<1>3. Sums(accepted[o], Accounts)[Accounts] =
         IF user[o] \in Accounts THEN accepted[o][user[o]] ELSE 0
  BY <1>1, <1>2, SumAtOne
<1> QED BY <1>3, TotalIsSum

(* Whatever fails, the exchange never accepts more of an order than one    *)
(* for each connected sub-account.                                         *)
THEOREM NeverTwice == OrderSpec => []NeverPlacedTwice
<1>1. ASSUME OrderInv, PlacedInv, NEW o \in Orders
      PROVE  Total(o) <= Cardinality(connected)
  <2>1. OrderTypeOK /\ PlacedOf(o)
    BY <1>1 DEF OrderInv, PlacedInv
  <2>2. Cardinality(visited[o]) <= Cardinality(connected) /\ Cardinality(connected) \in Nat
    BY <2>1, VisitedFacts
  <2>3. user[o] \in Accounts => accepted[o][user[o]] <= Cardinality(connected)
    BY <2>1, <2>2 DEF PlacedOf, Counted, Steps, OrderTypeOK
  <2> QED BY <2>1, <2>2, <2>3, TotalOfPlaced
<1>2. OrderInv /\ PlacedInv => NeverPlacedTwice
  BY <1>1 DEF NeverPlacedTwice
<1> QED BY <1>2, PlacedInvariant, OrderInvariant, PTL

(* A stored order was accepted exactly once for each connected             *)
(* sub-account.                                                            *)
THEOREM StoredIsPlaced == OrderSpec => []StoredMeansPlaced
<1>1. ASSUME OrderInv, PlacedInv, NEW row \in orderRows
      PROVE  Total(row.order) = Cardinality(connected)
  <2> DEFINE o == row.order
  <2>1. /\ OrderTypeOK /\ o \in Orders /\ loaded \subseteq Accounts
        /\ step[o] \in {"storeStatus", "stored", "lost"}
    BY <1>1 DEF OrderInv, OrderTypeOK, RowsInv
  <2>2. PlacedOf(o)
    BY <1>1, <2>1 DEF PlacedInv
  <2>3. /\ connected # {} => user[o] \in Accounts
        /\ user[o] \in Accounts => accepted[o][user[o]] = Cardinality(connected)
    BY <2>1, <2>2 DEF PlacedOf, Counted
  <2>4. connected = {} => Cardinality(connected) = 0
    BY FS_EmptySet
  <2>5. Total(o) = IF user[o] \in Accounts THEN accepted[o][user[o]] ELSE 0
    BY <2>1, <2>2, TotalOfPlaced
  <2> QED BY <2>3, <2>4, <2>5
<1>2. OrderInv /\ PlacedInv => StoredMeansPlaced
  BY <1>1 DEF StoredMeansPlaced
<1> QED BY <1>2, PlacedInvariant, OrderInvariant, PTL
-----------------------------------------------------------------------------
(* How far the two findings about orders reach.                            *)
(*                                                                         *)
(* Table "order_status" is never a key into "order": as long as the clock  *)
(* is not set back, no status of any order carries an id of table "order", *)
(* neither its own order's nor, by accident, that of another one.          *)
NoStatusNamesAnOrder ==
    ~setBack => \A row \in statusRows, r \in orderRows : r.id # row.id

(* Order ids and status ids come from one generator. *)
IdsApart ==
    ~setBack =>
        \A o, p \in Orders : orderId[o] # NoId => orderId[o] # statusId[p]

(* The new id, for an order or for a status, is above all the others. *)
LEMMA IdsApartInductive ==
    ASSUME OrderInv, IdInv, IdsApart, [OrderNext]_orderVars
    PROVE  IdsApart'
<1>1. ASSUME UNCHANGED <<orderId, statusId>>, ~setBack' => ~setBack
      PROVE  IdsApart'
  BY <1>1 DEF IdsApart
<1>2. CASE Clock \/ UNCHANGED orderVars \/ \E o \in Orders : GetWaits(o)
  <2>1. /\ UNCHANGED callVars
        /\ \/ \E c \in Callers : GetOverflows(c)
           \/ Tick \/ StepBack \/ UNCHANGED idVars
    BY <1>2, OrderAssumption DEF Clock, GetWaits, orderVars
  <2>2. ~setBack' => ~setBack
    BY <2>1, HighestGrows
  <2> QED BY <1>1, <2>1, <2>2 DEF callVars
<1>3. ASSUME NEW o \in Orders, AssignOrderId(o) \/ AssignStatusId(o)
      PROVE  IdsApart'
  <2>1. /\ Returned = Highest' /\ Highest' \in Nat
        /\ ~setBack => Highest' > Highest
        /\ setBack' = setBack
    BY <1>3, GetReturnsHighest, OrderAssumption
       DEF AssignOrderId, AssignStatusId, Get, Returned
  <2>2. Highest \in Int
    BY IdAssumption DEF IdInv, IdTypeOK, Highest
  <2>3. \A p \in Orders : orderId[p] \in Int /\ statusId[p] \in Int
    BY DEF OrderInv, OrderTypeOK, NoId
  <2>4. ~setBack =>
           \A p \in Orders : orderId[p] < Highest' /\ statusId[p] < Highest'
    BY <2>1, <2>2, <2>3 DEF OrderInv, OrderIdsInv, StatusIdsInv
  <2>5. Highest' # NoId
    BY <2>1 DEF NoId
  <2>6. CASE AssignOrderId(o)
    <3>1. /\ statusId' = statusId
          /\ \A p \in Orders : orderId'[p] = IF p = o THEN Highest' ELSE orderId[p]
      BY <2>1, <2>6 DEF AssignOrderId, OrderInv, OrderTypeOK
    <3> QED BY <2>1, <2>3, <2>4, <3>1 DEF IdsApart
  <2>7. CASE AssignStatusId(o)
    <3>1. /\ orderId' = orderId
          /\ \A p \in Orders : statusId'[p] = IF p = o THEN Highest' ELSE statusId[p]
      BY <2>1, <2>7 DEF AssignStatusId, OrderInv, OrderTypeOK
    <3> QED BY <2>1, <2>3, <2>4, <3>1 DEF IdsApart
  <2> QED BY <1>3, <2>6, <2>7
<1>4. CASE \E o \in Orders :
             \/ NoSocketClient(o) \/ PlaceOrderFails(o) \/ StartStoring(o)
             \/ \E a \in Accounts : PlaceOrderImpl(o, a)
             \/ \E u \in Users : ReqPlaceOrder(o, u)
             \/ InsertOrder(o) \/ InsertStatus(o) \/ InsertThrows(o)
  <2>1. UNCHANGED <<idVars, orderId, statusId>>
    BY <1>4 DEF NoSocketClient, PlaceOrderFails, StartStoring, PlaceOrderImpl,
       ReqPlaceOrder, InsertOrder, InsertStatus, InsertThrows, Stores
  <2> QED BY <1>1, <2>1 DEF idVars, clockVars
<1> QED BY <1>2, <1>3, <1>4 DEF OrderNext, Place

(* No join of the two tables over the id finds anything. *)
THEOREM StatusNamesNoOrder == OrderSpec => []NoStatusNamesAnOrder
<1>1. OrderInit => IdsApart
  BY DEF OrderInit, IdsApart
<1>2. OrderInv /\ IdInv /\ IdsApart /\ [OrderNext]_orderVars => IdsApart'
  BY IdsApartInductive
<1>3. ASSUME OrderInv, IdsApart, ~setBack, NEW row \in statusRows, NEW r \in orderRows
      PROVE  r.id # row.id
  <2>1. /\ row.order \in Orders /\ row.id = statusId[row.order]
        /\ r.order \in Orders /\ r.id = orderId[r.order] /\ r.id \in Nat
    BY <1>3 DEF OrderInv, OrderTypeOK, RowsInv
  <2>2. orderId[r.order] # NoId
    BY <2>1 DEF NoId
  <2> QED BY <1>3, <2>1, <2>2 DEF IdsApart
<1>4. OrderInv /\ IdsApart => NoStatusNamesAnOrder
  BY <1>3 DEF NoStatusNamesAnOrder
<1> QED BY <1>1, <1>2, <1>4, OrderInvariant, OrderIdInv, PTL DEF OrderSpec

(* An order that went through PlaceOrder is "one actual order of every     *)
(* sub-account" in two cases only: none is connected, or the only one is   *)
(* the account that happens to have the user's id.                         *)
PlacedOnlyAtOwnAccount ==
    \A o \in Orders :
        step[o] = "storeOrder" =>
            (\A a \in connected : accepted[o][a] = 1) <=> connected \subseteq {user[o]}

(* However many sub-accounts there are and whatever is refused. *)
THEOREM PlacedAtOwnAccount == OrderSpec => []PlacedOnlyAtOwnAccount
<1>1. ASSUME OrderInv, PlacedInv, NEW o \in Orders, step[o] = "storeOrder"
      PROVE  (\A a \in connected : accepted[o][a] = 1) <=> connected \subseteq {user[o]}
  <2>1. /\ connected \subseteq Accounts
        /\ \A a \in Accounts : a # user[o] => accepted[o][a] = 0
        /\ \A a \in Accounts : a = user[o] => accepted[o][a] = Cardinality(connected)
    BY <1>1 DEF OrderInv, OrderTypeOK, PlacedInv, PlacedOf, Counted
  <2>2. ASSUME \A a \in connected : accepted[o][a] = 1
        PROVE  connected \subseteq {user[o]}
    BY <2>1, <2>2
  <2>3. ASSUME connected \subseteq {user[o]}, NEW a \in connected
        PROVE  accepted[o][a] = 1
    <3>1. connected = {user[o]} /\ a = user[o]
      BY <2>3
    <3>2. Cardinality(connected) = 1
      BY <3>1, FS_Singleton
    <3> QED BY <2>1, <2>3, <3>1, <3>2
  <2> QED BY <2>2, <2>3
<1>2. OrderInv /\ PlacedInv => PlacedOnlyAtOwnAccount
  BY <1>1 DEF PlacedOnlyAtOwnAccount
<1> QED BY <1>2, PlacedInvariant, OrderInvariant, PTL
=============================================================================
