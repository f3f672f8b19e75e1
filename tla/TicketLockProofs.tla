-------------------------- MODULE TicketLockProofs --------------------------
(***************************************************************************)
(* Proofs about TicketLock for every set of threads and every bound on the *)
(* tickets: the inductive invariant, the properties that follow from it,   *)
(* and that the lock implements FifoLock.                                  *)
(***************************************************************************)
EXTENDS TicketLock, FiniteSetTheorems, TLAPS

(* The set of waiting threads is finite, so its cardinality is a number.   *)
LEMMA QueueFinite == IsFiniteSet(Queue) /\ Cardinality(Queue) \in Nat
<1>1. Queue \subseteq Threads
  BY DEF Queue
<1>2. IsFiniteSet(Queue)
  BY <1>1, FS_Subset, TicketLockAssumption
<1> QED
  BY <1>2, FS_CardinalityType

(* The invariant of TicketLock holds initially: no ticket is out.          *)
LEMMA InitIInv == Init => IInv
<1> SUFFICES ASSUME Init PROVE IInv
  OBVIOUS
<1> USE DEF Init
<1>1. TypeOK
  BY DEF TypeOK, Where
<1>2. TicketInv
  BY DEF TicketInv, Live
<1>3. ContendedExact
  <2>1. {t \in Threads : Waiting(t)} = {}
    BY DEF Waiting
  <2> QED
    BY <2>1, FS_EmptySet DEF ContendedExact
<1>4. NoLostWakeup
  BY DEF NoLostWakeup, Waiting
<1> QED
  BY <1>1, <1>2, <1>3, <1>4 DEF IInv

-----------------------------------------------------------------------------
(* lock() and lock_for() keep the invariant: the ticket drawn is new.      *)
LEMMA TakeTicketIInv ==
  ASSUME NEW t \in Threads, NEW f \in {"lock", "lock_for"}, IInv, TakeTicket(t, f)
  PROVE  IInv'
<1> USE DEF IInv, TypeOK, TakeTicket
<1>1. TypeOK'
  BY DEF Where
<1>2. TicketInv'
  <2>1. pc'[t] # "out" /\ ticket'[t] = next
    OBVIOUS
  <2>2. \A u \in Threads : u # t => pc'[u] = pc[u] /\ ticket'[u] = ticket[u]
    OBVIOUS
  <2>3. \A n \in Nat : serving <= n /\ n < next' =>
          n \in dead \/ \E u \in Threads : Live(u)' /\ ticket'[u] = n
    <3> SUFFICES ASSUME NEW n \in Nat, serving <= n, n < next', n \notin dead
                 PROVE  \E u \in Threads : Live(u)' /\ ticket'[u] = n
      OBVIOUS
    <3>1. CASE n = next
      BY <3>1, <2>1 DEF Live
    <3>2. CASE n < next
      <4>1. PICK u \in Threads : Live(u) /\ ticket[u] = n
        BY <3>2 DEF TicketInv
      <4>2. u # t
        BY <4>1 DEF Live
      <4> QED
        BY <4>1, <4>2, <2>2 DEF Live
    <3> QED
      BY <3>1, <3>2
  <2>4. \A u \in Threads : pc'[u] = "held" => ticket'[u] = serving'
    BY <2>1, <2>2 DEF TicketInv
  <2> QED
    BY <2>1, <2>2, <2>3, <2>4 DEF TicketInv, Live
<1>3. ContendedExact'
  <2>1. CASE serving = next
    <3>1. Queue' = Queue
      BY <2>1 DEF Queue, Waiting
    <3> QED
      BY <3>1, <2>1 DEF ContendedExact, Queue
  <2>2. CASE serving # next
    <3>1. Queue' = Queue \cup {t} /\ t \notin Queue
      BY <2>2 DEF Queue, Waiting
    <3>2. Cardinality(Queue') = Cardinality(Queue) + 1
      BY <3>1, QueueFinite, FS_AddElement
    <3> QED
      BY <3>2, <2>2 DEF ContendedExact, Queue
  <2> QED
    BY <2>1, <2>2
<1>4. NoLostWakeup'
  BY DEF NoLostWakeup, Waiting
<1> QED
  BY <1>1, <1>2, <1>3, <1>4

(* Leaving the wait takes one thread off the count.                        *)
LEMMA StopWaiting ==
  ASSUME NEW t \in Threads, IInv, Waiting(t), waiting' = waiting - 1,
         Queue' = Queue \ {t}
  PROVE  waiting' \in Nat /\ ContendedExact'
<1>1. t \in Queue
  BY DEF Queue
<1>2. Cardinality(Queue') = Cardinality(Queue) - 1
  BY <1>1, QueueFinite, FS_RemoveElement
<1>3. waiting = Cardinality(Queue)
  BY DEF IInv, ContendedExact, Queue
<1>4. waiting' = Cardinality(Queue')
  BY <1>2, <1>3
<1>5. IsFiniteSet(Queue')
  BY QueueFinite, FS_RemoveElement
<1>6. waiting' \in Nat
  BY <1>4, <1>5, FS_CardinalityType
<1> QED
  BY <1>4, <1>6 DEF ContendedExact, Queue

(* A waiter that takes the lock keeps the invariant.                       *)
LEMMA AcquireIInv ==
  ASSUME NEW t \in Threads, IInv, Acquire(t)
  PROVE  IInv'
<1> USE DEF IInv, TypeOK, Acquire
<1>1. Queue' = Queue \ {t}
  BY DEF Queue, Waiting
<1>2. waiting' \in Nat /\ ContendedExact'
  BY <1>1, StopWaiting
<1>3. TypeOK'
  BY <1>2 DEF Where
<1>4. TicketInv'
  BY DEF TicketInv, Live, Waiting
<1>5. NoLostWakeup'
  BY DEF NoLostWakeup, Waiting
<1> QED
  BY <1>2, <1>3, <1>4, <1>5

(* A time-out keeps the invariant: the ticket is recorded as abandoned and *)
(* is not the served one.                                                  *)
LEMMA TimeoutIInv ==
  ASSUME NEW t \in Threads, IInv, Timeout(t)
  PROVE  IInv'
<1> USE DEF IInv, TypeOK, Timeout
<1>1. Queue' = Queue \ {t} /\ Waiting(t)
  BY DEF Queue, Waiting
<1>2. waiting' \in Nat /\ ContendedExact'
  BY <1>1, StopWaiting
<1>3. TypeOK'
  BY <1>2 DEF Where
<1>4. TicketInv'
  <2>1. Live(t) /\ ~Live(t)'
    BY DEF Live
  <2>2. \A u \in Threads : u # t => (Live(u)' <=> Live(u)) /\ ticket'[u] = ticket[u]
    BY DEF Live
  <2>3. \A n \in Nat : serving <= n /\ n < next =>
          n \in dead' \/ \E u \in Threads : Live(u)' /\ ticket'[u] = n
    BY <2>1, <2>2 DEF TicketInv
  <2> QED
    BY <2>1, <2>2, <2>3 DEF TicketInv, Live
<1>5. NoLostWakeup'
  BY DEF NoLostWakeup, Waiting
<1> QED
  BY <1>2, <1>3, <1>4, <1>5

(* unlock() keeps the invariant: the ticket it serves next is not          *)
(* abandoned, and only abandoned ones are skipped.                         *)
LEMMA UnlockIInv ==
  ASSUME NEW t \in Threads, IInv, Unlock(t)
  PROVE  IInv'
<1> USE DEF IInv, TypeOK, Unlock
<1>0. PICK s \in (serving + 1)..next :
         /\ s \notin dead
         /\ (serving + 1)..(s - 1) \subseteq dead
         /\ serving' = s
         /\ dead' = dead \ ((serving + 1)..(s - 1))
  OBVIOUS
<1>1. Queue' = Queue
  BY DEF Queue, Waiting
<1>2. ContendedExact'
  BY <1>1 DEF ContendedExact, Queue
<1>3. TypeOK'
  BY <1>0 DEF Where
<1>4. TicketInv'
  <2>1. ~Live(t)' /\ ticket[t] = serving
    BY DEF Live, TicketInv
  <2>2. \A u \in Threads : Live(u)' => Live(u) /\ u # t
    BY DEF Live
  <2>3. \A u \in Threads : u # t => (Live(u)' <=> Live(u))
    BY DEF Live
  <2>4. ASSUME NEW u \in Threads, Live(u)'
        PROVE  s <= ticket[u] /\ ticket[u] < next /\ ticket[u] \notin dead
    <3>1. Live(u) /\ u # t
      BY <2>4, <2>2
    <3>2. ticket[u] # serving
      BY <3>1, <2>1 DEF TicketInv, Live
    <3>3. serving <= ticket[u] /\ ticket[u] < next /\ ticket[u] \notin dead
      BY <3>1 DEF TicketInv
    <3> QED
      BY <3>2, <3>3, <1>0
  <2>5. \A n \in dead' : s < n /\ n < next
    BY <1>0 DEF TicketInv
  <2>6. ASSUME NEW n \in Nat, s <= n, n < next, n \notin dead'
        PROVE  \E u \in Threads : Live(u)' /\ ticket'[u] = n
    <3>1. n \notin dead
      BY <2>6, <1>0
    <3>2. PICK u \in Threads : Live(u) /\ ticket[u] = n
      BY <2>6, <3>1, <1>0 DEF TicketInv
    <3>3. u # t
      BY <3>2, <2>1, <2>6, <1>0
    <3> QED
      BY <3>2, <3>3, <2>3
  <2>7. \A u \in Threads : pc'[u] # "held"
    BY <2>1, <2>3 DEF TicketInv, Live
  <2> QED
    BY <1>0, <2>2, <2>4, <2>5, <2>6, <2>7 DEF TicketInv
<1>5. NoLostWakeup'
  BY DEF NoLostWakeup
<1> QED
  BY <1>2, <1>3, <1>4, <1>5

(* Sleeping again or waking for no reason keeps the invariant.             *)
LEMMA SleepIInv ==
  ASSUME NEW t \in Threads, IInv, Resleep(t) \/ Spurious(t)
  PROVE  IInv'
<1>0. UNCHANGED <<next, serving, waiting, dead, pc, ticket>>
  BY DEF Resleep, Spurious
<1>1. TypeOK'
  BY DEF IInv, TypeOK, Resleep, Spurious
<1>2. TicketInv'
  BY <1>0 DEF IInv, TicketInv, Live
<1>3. ContendedExact'
  BY <1>0 DEF IInv, ContendedExact, Waiting
<1>4. NoLostWakeup'
  BY DEF IInv, NoLostWakeup, Waiting, Resleep, Spurious
<1> QED
  BY <1>1, <1>2, <1>3, <1>4 DEF IInv

(* Every step of TicketLock keeps the invariant, one case per operation.   *)
LEMMA NextIInv == IInv /\ [Next]_vars => IInv'
<1> SUFFICES ASSUME IInv, [Next]_vars PROVE IInv'
  OBVIOUS
<1>1. ASSUME NEW t \in Threads, Lock(t) PROVE IInv'
  BY <1>1, TakeTicketIInv DEF Lock
<1>2. ASSUME NEW t \in Threads, LockFor(t) PROVE IInv'
  BY <1>2, TakeTicketIInv DEF LockFor
<1>3. ASSUME NEW t \in Threads, Acquire(t) PROVE IInv'
  BY <1>3, AcquireIInv
<1>4. ASSUME NEW t \in Threads, Resleep(t) \/ Spurious(t) PROVE IInv'
  BY <1>4, SleepIInv
<1>5. ASSUME NEW t \in Threads, Timeout(t) PROVE IInv'
  BY <1>5, TimeoutIInv
<1>6. ASSUME NEW t \in Threads, Unlock(t) PROVE IInv'
  BY <1>6, UnlockIInv
<1>7. CASE UNCHANGED vars
  BY <1>7 DEF vars, IInv, TypeOK, TicketInv, Live, ContendedExact,
              NoLostWakeup, Waiting
<1> QED
  BY <1>1, <1>2, <1>3, <1>4, <1>5, <1>6, <1>7 DEF Next, Step

(* The inductive invariant of the ticket lock holds in every reachable     *)
(* state.                                                                  *)
THEOREM Invariance == Spec => []IInv
<1> QED
  BY InitIInv, NextIInv, PTL DEF Spec

(* The fields of the ticket lock keep their types; in particular           *)
(* `waiting' never goes below zero.                                        *)
THEOREM TypeCorrect == Spec => []TypeOK
<1>1. IInv => TypeOK
  BY DEF IInv
<1> QED
  BY <1>1, Invariance, PTL

(* At most one thread is between a successful lock() or lock_for() and its *)
(* unlock(): the runtime is used by one request at a time.                 *)
THEOREM Exclusion == Spec => []MutualExclusion
<1>1. IInv => MutualExclusion
  BY DEF IInv, TicketInv, Live, MutualExclusion
<1> QED
  BY <1>1, Invariance, PTL

(* busy() tells exactly whether some thread holds or waits for the lock.   *)
THEOREM BusyIsExact == Spec => []BusyExact
<1>1. ASSUME IInv PROVE BusyExact
  <2> USE <1>1 DEF IInv, TypeOK, TicketInv
  <2>1. ASSUME busy PROVE \E t \in Threads : pc[t] # "out"
    <3>1. serving \notin dead
      OBVIOUS
    <3> QED
      BY <2>1, <3>1 DEF busy, Live
  <2>2. ASSUME NEW t \in Threads, pc[t] # "out" PROVE busy
    BY <2>2 DEF busy, Live
  <2> QED
    BY <2>1, <2>2 DEF BusyExact
<1> QED
  BY <1>1, Invariance, PTL

(* contended() tells exactly whether some thread waits.                    *)
THEOREM ContendedIsExact == Spec => []ContendedExact
<1>1. IInv => ContendedExact
  BY DEF IInv
<1> QED
  BY <1>1, Invariance, PTL

(* The thread whose ticket unlock() serves is never left asleep.           *)
THEOREM WakeupNotLost == Spec => []NoLostWakeup
<1>1. IInv => NoLostWakeup
  BY DEF IInv
<1> QED
  BY <1>1, Invariance, PTL

-----------------------------------------------------------------------------
(* The refinement.  Holder names the one thread that holds the lock.       *)
LEMMA HolderIs ==
  ASSUME IInv
  PROVE  /\ \A t \in Threads : pc[t] = "held" <=> Holder = t
         /\ (\A t \in Threads : pc[t] # "held") => Holder = NoThread
<1>1. \A t, u \in Threads : pc[t] = "held" /\ pc[u] = "held" => t = u
  BY DEF IInv, TicketInv, Live
<1> QED
  BY <1>1, TicketLockAssumption DEF Holder

(* A thread is first in the abstract queue, with the lock free, exactly    *)
(* when its ticket is the one being served.                                *)
LEMMA ServedIsFirst ==
  ASSUME IInv, NEW t \in Threads, Waiting(t)
  PROVE  (Holder = NoThread /\ Fifo!First(t)) <=> serving = ticket[t]
<1> USE DEF IInv, TypeOK, TicketInv
<1>0. Live(t)
  BY DEF Waiting, Live
<1>1. ASSUME serving = ticket[t]
      PROVE  Holder = NoThread /\ Fifo!First(t)
  <2>1. \A u \in Threads : pc[u] # "held"
    BY <1>0, <1>1 DEF Waiting, Live
  <2>2. Holder = NoThread
    BY <2>1, HolderIs
  <2>3. \A u \in Queue : <<u, t>> \notin Order
    BY <1>1 DEF Queue, Order, Waiting, Live
  <2> QED
    BY <2>2, <2>3 DEF Fifo!First, Queue
<1>2. ASSUME serving # ticket[t], Holder = NoThread, Fifo!First(t)
      PROVE  FALSE
  <2>1. \A u \in Threads : pc[u] # "held"
    BY <1>2, HolderIs, TicketLockAssumption
  <2>2. serving < ticket[t] /\ serving < next
    BY <1>0, <1>2
  <2>3. PICK u \in Threads : Live(u) /\ ticket[u] = serving
    BY <2>2
  <2>4. Waiting(u)
    BY <2>1, <2>3 DEF Live, Waiting, Where
  <2>5. <<u, t>> \in Order
    BY <2>2, <2>3, <2>4 DEF Order, Queue
  <2> QED
    BY <2>4, <2>5, <1>2 DEF Fifo!First, Queue
<1> QED
  BY <1>1, <1>2

(* Drawing a ticket is an arrival at the end of the queue.                 *)
LEMMA TakeTicketIsEnter ==
  ASSUME IInv, IInv', NEW t \in Threads, NEW f \in {"lock", "lock_for"},
         TakeTicket(t, f)
  PROVE  Fifo!Enter(t)
<1> USE DEF TakeTicket
<1>0. pc[t] = "out" /\ ~Live(t) /\ t \notin Queue
  BY DEF Live, Queue, Waiting
<1>1. Holder # t
  BY <1>0, HolderIs
<1>2. \A u \in Threads : u # t => pc'[u] = pc[u] /\ ticket'[u] = ticket[u]
  BY DEF IInv, TypeOK
<1>3. (Holder = NoThread /\ Queue = {}) <=> serving = next
  <2>1. ASSUME serving = next PROVE Holder = NoThread /\ Queue = {}
    <3>1. \A u \in Threads : ~Live(u)
      BY <2>1 DEF IInv, TypeOK, TicketInv
    <3> QED
      BY <3>1, HolderIs DEF Live, Queue, Waiting
  <2>2. ASSUME serving # next, Holder = NoThread, Queue = {} PROVE FALSE
    <3>1. PICK u \in Threads : Live(u)
      BY <2>2 DEF IInv, TypeOK, TicketInv
    <3>2. pc[u] # "held"
      BY <2>2, HolderIs, TicketLockAssumption
    <3> QED
      BY <3>1, <3>2, <2>2 DEF Live, Queue, Waiting, IInv, TypeOK, Where
  <2> QED
    BY <2>1, <2>2
<1>4. CASE serving = next
  <2>1. pc'[t] = "held"
    BY <1>4 DEF IInv, TypeOK
  <2>2. Holder' = t
    <3>1. \A u \in Threads : pc'[u] = "held" => u = t
      BY <2>1 DEF IInv, TicketInv, Live
    <3> QED
      BY <3>1, <2>1 DEF Holder
  <2>3. Queue' = {} /\ Order' = {} /\ Queue = {} /\ Order = {}
    BY <1>2, <1>3, <1>4, <2>1 DEF Queue, Order, Waiting
  <2> QED
    BY <1>0, <1>1, <1>3, <1>4, <2>2, <2>3 DEF Fifo!Enter
<1>5. CASE serving # next
  <2>1. pc'[t] = f /\ ticket'[t] = next
    BY <1>5 DEF IInv, TypeOK
  <2>2. Holder' = Holder
    <3>1. \A u \in Threads : pc'[u] = "held" <=> pc[u] = "held"
      BY <1>0, <1>2, <2>1
    <3> QED
      BY <3>1 DEF Holder
  <2>3. Queue' = Queue \cup {t}
    BY <1>2, <2>1 DEF Queue, Waiting
  <2>4. \A u \in Queue : ticket[u] < next /\ ticket'[u] = ticket[u] /\ u # t
    BY <1>0, <1>2 DEF Queue, Waiting, IInv, TicketInv, Live
  <2>5. Order' = Order \cup (Queue \X {t})
    <3>1. ticket'[t] = next /\ next \in Nat
      BY <2>1 DEF IInv, TypeOK
    <3>2. \A u \in Queue : ticket[u] \in Nat
      BY DEF Queue, IInv, TypeOK
    <3>3. Order' \subseteq Order \cup (Queue \X {t})
      BY <2>3, <2>4, <3>1, <3>2 DEF Order
    <3>4. Order \cup (Queue \X {t}) \subseteq Order'
      BY <2>3, <2>4, <3>1, <3>2 DEF Order
    <3> QED
      BY <3>3, <3>4
  <2> QED
    BY <1>0, <1>1, <1>3, <1>5, <2>2, <2>3, <2>5 DEF Fifo!Enter
<1> QED
  BY <1>4, <1>5

(* When one thread stops waiting, the abstract queue loses that thread.    *)
LEMMA QueueWithout ==
  ASSUME NEW t \in Threads, Queue' = Queue \ {t}, ticket' = ticket
  PROVE  Order' = Fifo!Without(t)
<1>1. Order' \subseteq Fifo!Without(t)
  BY DEF Order, Fifo!Without
<1>2. Fifo!Without(t) \subseteq Order'
  BY DEF Order, Fifo!Without
<1> QED
  BY <1>1, <1>2

(* Returning from the wait with the lock is the grant to the first waiter. *)
LEMMA AcquireIsGrant ==
  ASSUME IInv, IInv', NEW t \in Threads, Acquire(t)
  PROVE  Fifo!Grant(t)
<1> USE DEF Acquire
<1>1. Holder = NoThread /\ Fifo!First(t)
  BY ServedIsFirst
<1>2. pc'[t] = "held"
  BY DEF IInv, TypeOK
<1>3. Holder' = t
  <2>1. \A u \in Threads : pc'[u] = "held" => u = t
    BY <1>2 DEF IInv, TicketInv, Live
  <2> QED
    BY <2>1, <1>2 DEF Holder
<1>4. Queue' = Queue \ {t}
  BY DEF Queue, Waiting, IInv, TypeOK
<1>5. Order' = Fifo!Without(t)
  BY <1>4, QueueWithout
<1> QED
  BY <1>1, <1>3, <1>4, <1>5 DEF Fifo!Grant

(* The time-out of lock_for is giving up before one's turn has come.       *)
LEMMA TimeoutIsGiveUp ==
  ASSUME IInv, NEW t \in Threads, Timeout(t)
  PROVE  Fifo!GiveUp(t)
<1> USE DEF Timeout
<1>0. Waiting(t) /\ t \in Queue
  BY DEF Waiting, Queue
<1>1. ~(Holder = NoThread /\ Fifo!First(t))
  BY <1>0, ServedIsFirst
<1>2. Holder' = Holder
  <2>1. \A u \in Threads : pc'[u] = "held" <=> pc[u] = "held"
    BY DEF IInv, TypeOK
  <2> QED
    BY <2>1 DEF Holder
<1>3. Queue' = Queue \ {t}
  BY DEF Queue, Waiting, IInv, TypeOK
<1>4. Order' = Fifo!Without(t)
  BY <1>3, QueueWithout
<1> QED
  BY <1>0, <1>1, <1>2, <1>3, <1>4 DEF Fifo!GiveUp

(* unlock() frees the lock and leaves the queue as it is.                  *)
LEMMA UnlockIsLeave ==
  ASSUME IInv, IInv', NEW t \in Threads, Unlock(t)
  PROVE  Fifo!Leave(t)
<1> USE DEF Unlock
<1>1. Holder = t
  BY HolderIs
<1>2. \A u \in Threads : pc'[u] # "held"
  <2>1. \A u \in Threads : pc[u] = "held" => u = t
    BY DEF IInv, TicketInv, Live
  <2> QED
    BY <2>1 DEF IInv, TypeOK
<1>3. Holder' = NoThread
  BY <1>2 DEF Holder
<1>4. Queue' = Queue /\ Order' = Order
  BY DEF Queue, Order, Waiting, IInv, TypeOK
<1> QED
  BY <1>1, <1>3, <1>4 DEF Fifo!Leave

(* Every step of the ticket lock is a step of the FIFO lock or changes     *)
(* nothing a client can see.                                               *)
LEMMA StepRefines ==
  ASSUME IInv, IInv', [Next]_vars
  PROVE  [Fifo!FNext]_(Fifo!fvars)
<1>1. ASSUME NEW t \in Threads, Lock(t) \/ LockFor(t) PROVE Fifo!FNext
  BY <1>1, TakeTicketIsEnter DEF Lock, LockFor, Fifo!FNext
<1>2. ASSUME NEW t \in Threads, Acquire(t) PROVE Fifo!FNext
  BY <1>2, AcquireIsGrant DEF Fifo!FNext
<1>3. ASSUME NEW t \in Threads, Timeout(t) PROVE Fifo!FNext
  BY <1>3, TimeoutIsGiveUp DEF Fifo!FNext
<1>4. ASSUME NEW t \in Threads, Unlock(t) PROVE Fifo!FNext
  BY <1>4, UnlockIsLeave DEF Fifo!FNext
<1>5. ASSUME UNCHANGED <<pc, ticket>> PROVE UNCHANGED Fifo!fvars
  <2>1. Holder' = Holder /\ Queue' = Queue
    BY <1>5 DEF Holder, Queue, Waiting
  <2>2. Order' = Order
    BY <1>5, <2>1 DEF Order
  <2> QED
    BY <2>1, <2>2 DEF Fifo!fvars
<1>6. ASSUME NEW t \in Threads, Resleep(t) \/ Spurious(t)
      PROVE  UNCHANGED Fifo!fvars
  BY <1>6, <1>5 DEF Resleep, Spurious
<1>7. CASE UNCHANGED vars
  BY <1>7, <1>5 DEF vars
<1> QED
  BY <1>1, <1>2, <1>3, <1>4, <1>6, <1>7 DEF Next, Step

(* TicketLock hands the runtime over in arrival order: it implements       *)
(* FifoLock, for any number of threads and any pattern of time-outs.       *)
THEOREM Refinement == Spec => ImplementsFifo
<1>1. Init => Fifo!FInit
  <2> SUFFICES ASSUME Init PROVE Fifo!FInit
    OBVIOUS
  <2>1. Queue = {} /\ Holder = NoThread
    BY DEF Init, Queue, Waiting, Holder
  <2>2. Order = {}
    BY <2>1 DEF Order
  <2> QED
    BY <2>1, <2>2 DEF Fifo!FInit
<1>2. IInv /\ IInv' /\ [Next]_vars => [Fifo!FNext]_(Fifo!fvars)
  BY StepRefines
<1> QED
  BY <1>1, <1>2, Invariance, PTL DEF Spec, ImplementsFifo, Fifo!FSpec

=============================================================================
