---------------------------- MODULE MCDBService ----------------------------
(* DBService on two threads, two connections, one table and one key: the   *)
(* threads and the connections are each interchangeable.                   *)
EXTENDS DBService, TLC

Symmetry == Permutations(Threads) \cup Permutations(Connections)

(* OnStart sizes the pool by the greatest number of tasks that run at      *)
(* once, so with no more threads than connections, and a server that never *)
(* fails, GetConnection should always find one.                            *)
PoolServesEveryTask ==
    service = "started" /\ (\E c \in Connections : state[c] # "unopened")
        => \A t \in Threads : phase[t] = "get" => ~PoolIsEmpty
=============================================================================
