------------------------------ MODULE FifoLock ------------------------------
(***************************************************************************)
(* What the server relies on when it takes `tlock': a lock that is handed  *)
(* over in arrival order, whose waiters may give up as long as their turn  *)
(* has not come.  It is the abstract specification that TicketLock         *)
(* implements, and the lock that the server modules are composed with.     *)
(*                                                                         *)
(* The queue is the set `waiters' with the strict order `before' (a pair   *)
(* <<t, u>> says that t arrived before u).                                 *)
(***************************************************************************)
CONSTANTS Threads,   \* the server's request threads
          NoThread   \* "nobody holds the lock"

ASSUME NoThreadAssumption == NoThread \notin Threads

VARIABLES owner,     \* the thread that holds the lock, or NoThread
          waiters,   \* the threads queued for it
          before     \* their arrival order

fvars == <<owner, waiters, before>>

FInit ==
    /\ owner = NoThread
    /\ waiters = {}
    /\ before = {}

(* The queue without t. *)
Without(t) == {p \in before : p[1] # t /\ p[2] # t}

(* t is queued and nobody arrived earlier. *)
First(t) == t \in waiters /\ \A u \in waiters : <<u, t>> \notin before

(* A free lock with an empty queue is taken at once; otherwise t queues    *)
(* behind everybody, also when the lock is free but already granted to the *)
(* first waiter.                                                           *)
Enter(t) ==
    /\ owner # t
    /\ t \notin waiters
    /\ IF owner = NoThread /\ waiters = {}
       THEN owner' = t /\ UNCHANGED <<waiters, before>>
       ELSE /\ waiters' = waiters \cup {t}
            /\ before' = before \cup (waiters \X {t})
            /\ UNCHANGED owner

Grant(t) ==
    /\ owner = NoThread
    /\ First(t)
    /\ owner' = t
    /\ waiters' = waiters \ {t}
    /\ before' = Without(t)

(* A waiter gives up, never one whose turn has come.                       *)
GiveUp(t) ==
    /\ t \in waiters
    /\ ~(owner = NoThread /\ First(t))
    /\ waiters' = waiters \ {t}
    /\ before' = Without(t)
    /\ UNCHANGED owner

Leave(t) ==
    /\ owner = t
    /\ owner' = NoThread
    /\ UNCHANGED <<waiters, before>>

FNext == \E t \in Threads : Enter(t) \/ Grant(t) \/ GiveUp(t) \/ Leave(t)

FSpec == FInit /\ [][FNext]_fvars

=============================================================================
