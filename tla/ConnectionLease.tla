--------------------------- MODULE ConnectionLease ---------------------------
(***************************************************************************)
(* What a database connection pool promises, without saying how: every     *)
(* connection it opened is at any time in one place only, either free or   *)
(* with one borrower; a borrower gives it back or loses it for good; and   *)
(* what was taken out of service is never lent again.                      *)
(*                                                                         *)
(* That a connection works is not promised.  It may break in the hands of  *)
(* its borrower, stays broken, and is given back and lent on like any      *)
(* other; only the shutdown makes a difference, and closes what works.     *)
(***************************************************************************)
CONSTANTS Connections, Borrowers

Unopened  == "unopened"
Free      == "free"
Lost      == "lost"
Closed    == "closed"
Discarded == "discarded"

VARIABLES
    place,  \* place[c] is a borrower or one of the five words above
    broken  \* the connections whose link has failed

leaseVars == <<place, broken>>

Init ==
    /\ place  = [c \in Connections |-> Unopened]
    /\ broken = {}

(* All connections are opened together when the pool starts. *)
OpenAll ==
    /\ \A c \in Connections : place[c] = Unopened
    /\ place' = [c \in Connections |-> Free]
    /\ UNCHANGED broken

Move(c, from, to) ==
    /\ place[c] = from
    /\ place' = [place EXCEPT ![c] = to]

Lend(c, b)   == Move(c, Free, b) /\ UNCHANGED broken
Return(c, b) == Move(c, b, Free) /\ UNCHANGED broken
Lose(c, b)   == Move(c, b, Lost) /\ UNCHANGED broken

(* A connection breaks only in use; its borrower keeps it or loses it. *)
Break(c, b) ==
    /\ Move(c, b, b) \/ Move(c, b, Lost)
    /\ broken' = broken \cup {c}

(* At the shutdown. *)
Retire(c) ==
    /\ Move(c, Free, IF c \in broken THEN Discarded ELSE Closed)
    /\ UNCHANGED broken

Next ==
    \/ OpenAll
    \/ \E c \in Connections : Retire(c)
    \/ \E c \in Connections, b \in Borrowers :
          Lend(c, b) \/ Return(c, b) \/ Lose(c, b) \/ Break(c, b)

Spec == Init /\ [][Next]_leaseVars
=============================================================================
