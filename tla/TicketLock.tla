----------------------------- MODULE TicketLock -----------------------------
(***************************************************************************)
(* struct TicketLock of server/main.cpp: the FIFO lock in front of the     *)
(* runtime.  Every step below is one critical section of the internal      *)
(* mutex `m': from its acquisition to its release, or to the wait on `cv'  *)
(* that releases it.  `asleep' is the set of threads blocked in cv.wait;   *)
(* only notify_all, a time-out of wait_for or a spurious wake-up ends that *)
(* sleep, so a wake-up that is missed is a behaviour of this model.        *)
(***************************************************************************)
EXTENDS Naturals, FiniteSets

CONSTANTS Threads,     \* the server's request threads
          NoThread,
          MaxTicket    \* bound: tickets issued (a uint64_t in the code)

ASSUME TicketLockAssumption ==
    /\ IsFiniteSet(Threads)
    /\ NoThread \notin Threads
    /\ MaxTicket \in Nat

VARIABLES next, serving, waiting, dead,   \* the fields of the struct
          pc,       \* where each thread is: see Where
          ticket,   \* the local variable t of lock() / lock_for()
          asleep    \* threads blocked on cv

vars == <<next, serving, waiting, dead, pc, ticket, asleep>>

(* "out": not using the lock; "lock", "lock_for": inside that function's   *)
(* wait; "held": the function returned with the lock.                      *)
Where == {"out", "lock", "lock_for", "held"}

Waiting(t) == pc[t] \in {"lock", "lock_for"}

Init ==
    /\ next = 0
    /\ serving = 0
    /\ waiting = 0
    /\ dead = {}
    /\ pc = [t \in Threads |-> "out"]
    /\ ticket = [t \in Threads |-> 0]
    /\ asleep = {}

-----------------------------------------------------------------------------
(* Faulty variant of TakeTicket: a ticket that is served at once is        *)
(* discounted without having been counted.                                 *)
TakeTicketUncounted(t, f) ==
    /\ pc[t] = "out"
    /\ next < MaxTicket
    /\ next' = next + 1
    /\ ticket' = [ticket EXCEPT ![t] = next]
    /\ IF serving = next
       THEN pc' = [pc EXCEPT ![t] = "held"] /\ waiting' = waiting - 1 /\ UNCHANGED asleep
       ELSE /\ pc' = [pc EXCEPT ![t] = f]
            /\ waiting' = waiting + 1
            /\ asleep' = asleep \cup {t}
    /\ UNCHANGED <<serving, dead>>

(* Faulty variant of TakeTicket: a lock nobody waits for is taken for free.*)
TakeTicketBarges(t, f) ==
    /\ pc[t] = "out"
    /\ next < MaxTicket
    /\ next' = next + 1
    /\ ticket' = [ticket EXCEPT ![t] = next]
    /\ IF waiting = 0
       THEN pc' = [pc EXCEPT ![t] = "held"] /\ UNCHANGED <<waiting, asleep>>
       ELSE /\ pc' = [pc EXCEPT ![t] = f]
            /\ waiting' = waiting + 1
            /\ asleep' = asleep \cup {t}
    /\ UNCHANGED <<serving, dead>>

(* The common start of lock() and lock_for(): draw a ticket; the wait's    *)
(* predicate is tested before the first sleep, so a free lock is taken in  *)
(* the same critical section.                                              *)
TakeTicket(t, f) ==
    /\ pc[t] = "out"
    /\ next < MaxTicket
    /\ next' = next + 1
    /\ ticket' = [ticket EXCEPT ![t] = next]
    /\ IF serving = next
       THEN /\ pc' = [pc EXCEPT ![t] = "held"]
            /\ UNCHANGED <<waiting, asleep>>
       ELSE /\ pc' = [pc EXCEPT ![t] = f]
            /\ waiting' = waiting + 1
            /\ asleep' = asleep \cup {t}
    /\ UNCHANGED <<serving, dead>>

Lock(t) == TakeTicket(t, "lock")
LockFor(t) == TakeTicket(t, "lock_for")

(* A woken waiter whose ticket is served returns with the lock.  The       *)
(* time-out of wait_for tests the predicate too, and so may be what wakes  *)
(* the thread.                                                             *)
Acquire(t) ==
    /\ Waiting(t)
    /\ t \notin asleep \/ pc[t] = "lock_for"
    /\ serving = ticket[t]
    /\ pc' = [pc EXCEPT ![t] = "held"]
    /\ waiting' = waiting - 1
    /\ asleep' = asleep \ {t}
    /\ UNCHANGED <<next, serving, dead, ticket>>

(* A woken waiter whose ticket is not served sleeps again.                 *)
Resleep(t) ==
    /\ Waiting(t)
    /\ t \notin asleep
    /\ serving # ticket[t]
    /\ asleep' = asleep \cup {t}
    /\ UNCHANGED <<next, serving, waiting, dead, pc, ticket>>

Spurious(t) ==
    /\ t \in asleep
    /\ asleep' = asleep \ {t}
    /\ UNCHANGED <<next, serving, waiting, dead, pc, ticket>>

(* Faulty variant of Timeout: the abandoned ticket is not recorded. *)
TimeoutForgets(t) ==
    /\ pc[t] = "lock_for"
    /\ serving # ticket[t]
    /\ pc' = [pc EXCEPT ![t] = "out"]
    /\ waiting' = waiting - 1
    /\ asleep' = asleep \ {t}
    /\ UNCHANGED <<next, serving, ticket, dead>>

(* Faulty variant of Timeout: `waiting' is not decremented. *)
TimeoutMiscounts(t) ==
    /\ pc[t] = "lock_for"
    /\ serving # ticket[t]
    /\ dead' = dead \cup {ticket[t]}
    /\ pc' = [pc EXCEPT ![t] = "out"]
    /\ asleep' = asleep \ {t}
    /\ UNCHANGED <<next, serving, ticket, waiting>>

(* lock_for gives up: its ticket is abandoned to unlock().                 *)
Timeout(t) ==
    /\ pc[t] = "lock_for"
    /\ serving # ticket[t]
    /\ dead' = dead \cup {ticket[t]}
    /\ pc' = [pc EXCEPT ![t] = "out"]
    /\ waiting' = waiting - 1
    /\ asleep' = asleep \ {t}
    /\ UNCHANGED <<next, serving, ticket>>

(* Faulty variant of Unlock: one abandoned ticket is skipped, not a run.   *)
UnlockSkipsOne(t) ==
    /\ pc[t] = "held"
    /\ serving' = IF serving + 1 \in dead THEN serving + 2 ELSE serving + 1
    /\ dead' = dead \ {serving + 1}
    /\ asleep' = {}
    /\ pc' = [pc EXCEPT ![t] = "out"]
    /\ UNCHANGED <<next, waiting, ticket>>

(* Faulty variant of Unlock: a single waiter is notified, whoever it is.   *)
UnlockNotifiesOne(t) ==
    /\ pc[t] = "held"
    /\ \E s \in (serving + 1)..next :
          /\ s \notin dead
          /\ (serving + 1)..(s - 1) \subseteq dead
          /\ serving' = s
          /\ dead' = dead \ ((serving + 1)..(s - 1))
    /\ \E u \in asleep \cup {t} : asleep' = asleep \ {u}
    /\ pc' = [pc EXCEPT ![t] = "out"]
    /\ UNCHANGED <<next, waiting, ticket>>

(* Faulty variant of Unlock: the newest ticket is served.                  *)
UnlockLifo(t) ==
    /\ pc[t] = "held"
    /\ LET live == ((serving + 1)..(next - 1)) \ dead
           s == IF live = {} THEN next ELSE CHOOSE n \in live : \A k \in live : k <= n
       IN  serving' = s /\ dead' = dead \ (0..s)
    /\ asleep' = {}
    /\ pc' = [pc EXCEPT ![t] = "out"]
    /\ UNCHANGED <<next, waiting, ticket>>

(* unlock() serves the first ticket after the current one that is not      *)
(* abandoned, forgets the abandoned ones it skips, and wakes everybody.    *)
Unlock(t) ==
    /\ pc[t] = "held"
    /\ \E s \in (serving + 1)..next :
          /\ s \notin dead
          /\ (serving + 1)..(s - 1) \subseteq dead
          /\ serving' = s
          /\ dead' = dead \ ((serving + 1)..(s - 1))
    /\ asleep' = {}
    /\ pc' = [pc EXCEPT ![t] = "out"]
    /\ UNCHANGED <<next, waiting, ticket>>

contended == waiting > 0
busy == next > serving

Step(t) ==
    \/ Lock(t) \/ LockFor(t)
    \/ Acquire(t) \/ Resleep(t) \/ Spurious(t) \/ Timeout(t)
    \/ Unlock(t)

Next == \E t \in Threads : Step(t)

Spec == Init /\ [][Next]_vars

(* The scheduler runs a runnable thread, and a request that holds the      *)
(* runtime finishes or yields (its loops are bounded by the context).      *)
Fairness == \A t \in Threads : WF_vars(Acquire(t)) /\ WF_vars(Unlock(t))

FairSpec == Spec /\ Fairness

-----------------------------------------------------------------------------
TypeOK ==
    /\ next \in Nat
    /\ serving \in Nat
    /\ waiting \in Nat
    /\ dead \subseteq Nat
    /\ pc \in [Threads -> Where]
    /\ ticket \in [Threads -> Nat]
    /\ asleep \subseteq Threads

(* The runtime behind the lock is single-threaded: lock() and lock_for()   *)
(* never let two threads in, however time-outs and hand-overs interleave.  *)
MutualExclusion ==
    \A t, u \in Threads : pc[t] = "held" /\ pc[u] = "held" => t = u

(* busy() is exact: a ticket is outstanding only if a live thread has it,  *)
(* so unlock() never serves a ticket that its thread abandoned (which      *)
(* would leave the runtime unreachable for ever).                          *)
BusyExact == busy <=> \E t \in Threads : pc[t] # "out"

(* contended() is exact: `waiting' counts the threads inside a wait, which *)
(* is what a generating request decides to yield on.                       *)
ContendedExact == waiting = Cardinality({t \in Threads : Waiting(t)})

(* No lost wake-up: a thread whose ticket is being served is not asleep.   *)
NoLostWakeup ==
    \A t \in Threads : Waiting(t) /\ ticket[t] = serving => t \notin asleep

(* A thread blocked in lock() gets the lock, whatever the others do.       *)
LockServed == \A t \in Threads : pc[t] = "lock" ~> pc[t] = "held"

-----------------------------------------------------------------------------
(* The inductive invariant behind these properties.  A thread is live from *)
(* drawing its ticket to unlock() or to the time-out.                      *)
Live(t) == pc[t] # "out"

(* The outstanding tickets serving .. next-1 are each abandoned or in the  *)
(* hands of exactly one live thread, and the served one is not abandoned.  *)
TicketInv ==
    /\ serving <= next
    /\ \A n \in dead : serving < n /\ n < next
    /\ \A t \in Threads : Live(t) => /\ serving <= ticket[t]
                                    /\ ticket[t] < next
                                    /\ ticket[t] \notin dead
    /\ \A t, u \in Threads :
          Live(t) /\ Live(u) /\ ticket[t] = ticket[u] => t = u
    /\ \A n \in Nat : serving <= n /\ n < next =>
          n \in dead \/ \E t \in Threads : Live(t) /\ ticket[t] = n
    /\ \A t \in Threads : pc[t] = "held" => ticket[t] = serving

IInv == TypeOK /\ TicketInv /\ ContendedExact /\ NoLostWakeup

-----------------------------------------------------------------------------
(* The lock implements FifoLock: it hands over in arrival order.           *)
Holder == IF \E t \in Threads : pc[t] = "held"
          THEN CHOOSE t \in Threads : pc[t] = "held"
          ELSE NoThread
Queue == {t \in Threads : Waiting(t)}
Order == {p \in Queue \X Queue : ticket[p[1]] < ticket[p[2]]}

Fifo == INSTANCE FifoLock
          WITH owner <- Holder, waiters <- Queue, before <- Order

(* lock(), lock_for() and unlock() are a FIFO hand-over: what the comment  *)
(* on struct TicketLock promises and what time slicing depends on.         *)
ImplementsFifo == Fifo!FSpec

=============================================================================
