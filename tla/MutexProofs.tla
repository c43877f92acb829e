---------------------------- MODULE MutexProofs ----------------------------
(***************************************************************************)
(* Theorems about Mutex, for any finite set of threads and any condvars:   *)
(* first its invariants, then that it implements Monitor, every step of    *)
(* mutex.c and wait_queue.c being a step of the monitor or changing        *)
(* nothing in it.                                                          *)
(***************************************************************************)
EXTENDS Mutex, FiniteSetTheorems, WellFoundedInduction, TLAPS

\* A sequence that loses one position stays a sequence over the same set.
LEMMA RemoveAtType ==
  ASSUME NEW S, NEW s \in Seq(S), NEW i \in DOMAIN s
  PROVE  RemoveAt(s, i) \in Seq(S)
  BY DEF RemoveAt

\* Every variable keeps its type.
THEOREM TypeCorrect == Spec => []TypeOK
<1>1. Init => TypeOK
  BY MutexAssumption DEF Init, TypeOK, Modes, Locations
<1>2. TypeOK /\ [Next]_vars => TypeOK'
  <2> SUFFICES ASSUME TypeOK, [Next]_vars PROVE TypeOK'
    OBVIOUS
  <2> USE MutexAssumption DEF TypeOK, wqeVars, wakeVars, Goto, Modes, Locations
  <2>1. ASSUME NEW t \in Threads, NEW md \in Modes, Lock(t, md) PROVE TypeOK'
    BY <2>1 DEF Lock
  <2>2. ASSUME NEW t \in Threads, Acquire(t) PROVE TypeOK'
    BY <2>2 DEF Acquire, Take
  <2>3. ASSUME NEW t \in Threads, Enqueue(t) PROVE TypeOK'
    BY <2>3 DEF Enqueue, WaitInit
  <2>4. ASSUME NEW t \in Threads, NEW md \in Modes, TryLock(t, md) PROVE TypeOK'
    BY <2>4 DEF TryLock, Take
  <2>5. ASSUME NEW t \in Threads, Unlock(t) \/ ReadUnlock(t) PROVE TypeOK'
    BY <2>5 DEF Unlock, ReadUnlock
  <2>6. ASSUME NEW t \in Threads, WakeFirst(t) PROVE TypeOK'
    BY <2>6 DEF WakeFirst, Wakeable
  <2>7. ASSUME NEW t \in Threads, WakeNone(t) PROVE TypeOK'
    BY <2>7 DEF WakeNone, AfterWake
  <2>8. ASSUME NEW t \in Threads, SendSync(t) PROVE TypeOK'
    BY <2>8 DEF SendSync, AfterWake
  <2>9. ASSUME NEW t \in Threads, NotifWait(t) \/ SpuriousWait(t) \/ WaitAgain(t)
        PROVE  TypeOK'
    BY <2>9 DEF NotifWait, SpuriousWait, WaitAgain
  <2>10. ASSUME NEW t \in Threads, WaitDone(t) PROVE TypeOK'
    BY <2>10, RemoveAtType DEF WaitDone
  <2>11. ASSUME NEW t \in Threads, NEW c \in Condvars, CondvarLink(t, c)
         PROVE  TypeOK'
    BY <2>11 DEF CondvarLink
  <2>16. ASSUME NEW t \in Threads, NEW c \in Condvars, Signal(t, c)
         PROVE  TypeOK'
    BY <2>16 DEF Signal
  <2>12. ASSUME NEW t \in Threads, CondvarEnqueue(t) PROVE TypeOK'
    BY <2>12 DEF CondvarEnqueue, WaitInit
  <2>13. ASSUME NEW t \in Threads, SignalRead(t) PROVE TypeOK'
    BY <2>13 DEF SignalRead
  <2>14. ASSUME NEW t \in Threads, NEW only_one \in BOOLEAN, Promote(t, only_one)
         PROVE  TypeOK'
    BY <2>14 DEF Promote
  <2>15. CASE UNCHANGED vars
    BY <2>15 DEF vars
  <2> QED
    BY <2>1, <2>2, <2>3, <2>4, <2>5, <2>6, <2>7, <2>8, <2>9, <2>10, <2>11,
       <2>12, <2>13, <2>14, <2>15, <2>16 DEF Next, Progress, Call
<1> QED
  BY <1>1, <1>2, PTL DEF Spec

-----------------------------------------------------------------------------
(* Mutual exclusion *)

\* A step that changes neither who holds the mutex nor for what.
HoldersSame ==
  /\ state' = state
  /\ \A u \in Threads : /\ Holds(u)' <=> Holds(u)
                        /\ Holds(u) => mode'[u] = mode[u]

\* A step that changes neither m->state nor who holds the mutex.
LEMMA HoldersSameKeeps ==
  ASSUME StateCountsHolders, HoldersSame
  PROVE  StateCountsHolders'
<1>1. Readers' = Readers /\ Writers' = Writers
  BY DEF HoldersSame, Readers, Writers
<1> QED
  BY <1>1 DEF StateCountsHolders, HoldersSame

\* Readers can be counted: they are some of finitely many threads.
LEMMA ReadersFinite ==
  /\ IsFiniteSet(Readers)
  /\ Cardinality(Readers) \in Nat
  /\ Cardinality(Readers) = 0 <=> Readers = {}
<1>1. IsFiniteSet(Readers)
  BY MutexAssumption, FS_Subset DEF Readers
<1> QED
  BY <1>1, FS_CardinalityType, FS_EmptySet

\* A free or compatible mutex is taken by t.
LEMMA TakeKeeps ==
  ASSUME TypeOK, StateCountsHolders, NEW t \in Threads, NEW md \in Modes,
         ~Holds(t), CanLock(md), Take(md), Goto(t, "hold"),
         mode' = [mode EXCEPT ![t] = md]
  PROVE  StateCountsHolders'
<1>1. \A u \in Threads : /\ Holds(u)' <=> Holds(u) \/ u = t
                         /\ Holds(u) => mode'[u] = mode[u]
  BY DEF Holds, Goto, TypeOK
<1>2. mode'[t] = md
  BY DEF TypeOK
<1>3. t \notin Readers
  BY DEF Readers
<1>4. CASE md = "write"
  <2>1. state = 0 /\ state' = -1
    BY <1>4 DEF CanLock, Take
  <2>2. Readers = {} /\ Writers = {}
    BY <2>1, ReadersFinite DEF StateCountsHolders
  <2>3. Readers' = {} /\ Writers' = {t}
    BY <2>2, <1>1, <1>2, <1>4 DEF Readers, Writers
  <2> QED
    BY <2>1, <2>3 DEF StateCountsHolders
<1>5. CASE md = "read"
  <2>1. state # -1 /\ state' = state + 1
    BY <1>5 DEF CanLock, Take
  <2>2. state = Cardinality(Readers) /\ Writers = {}
    BY <2>1 DEF StateCountsHolders
  <2>3. Readers' = Readers \cup {t} /\ Writers' = {}
    BY <2>2, <1>1, <1>2, <1>5 DEF Readers, Writers
  <2>4. Cardinality(Readers') = Cardinality(Readers) + 1
    BY <2>3, <1>3, ReadersFinite, FS_AddElement
  <2> QED
    BY <2>1, <2>2, <2>3, <2>4 DEF StateCountsHolders
<1> QED
  BY <1>4, <1>5 DEF Modes

\* A holder gives the mutex up: a writer by the state 0, a reader by one off
\* the count, as the unlock functions and condvar_wait() do.
LEMMA GiveUpKeeps ==
  ASSUME TypeOK, StateCountsHolders, NEW t \in Threads, Holds(t), ~Holds(t)',
         \A u \in Threads \ {t} : /\ Holds(u)' <=> Holds(u)
                                  /\ mode'[u] = mode[u],
         state' = IF mode[t] = "read" THEN state - 1 ELSE 0
  PROVE  StateCountsHolders'
<1>1. CASE mode[t] = "write"
  <2>1. Readers = {} /\ Writers = {t}
    BY <1>1 DEF StateCountsHolders, Writers
  <2>2. Readers' = {} /\ Writers' = {}
    BY <2>1 DEF Readers, Writers
  <2>3. state' = 0
    BY <1>1
  <2>4. Cardinality(Readers') = 0
    BY <2>2, FS_EmptySet
  <2> QED
    BY <2>2, <2>3, <2>4 DEF StateCountsHolders
<1>2. CASE mode[t] = "read"
  <2>1. t \in Readers
    BY <1>2 DEF Readers
  <2>2. state = Cardinality(Readers) /\ Writers = {}
    BY <2>1 DEF StateCountsHolders
  <2>3. Readers' = Readers \ {t} /\ Writers' = {}
    BY <2>2 DEF Readers, Writers
  <2>4. Cardinality(Readers') = Cardinality(Readers) - 1
    BY <2>1, <2>3, ReadersFinite, FS_RemoveElement
  <2> QED
    BY <1>2, <2>2, <2>3, <2>4 DEF StateCountsHolders
<1> QED
  BY <1>1, <1>2 DEF TypeOK, Modes

\* What a holder knows of m->state.
LEMMA HolderState ==
  ASSUME TypeOK, StateCountsHolders, NEW t \in Threads, Holds(t)
  PROVE  IF mode[t] = "read" THEN state > 0 ELSE state = -1
<1>1. CASE mode[t] = "read"
  <2>1. t \in Readers
    BY <1>1 DEF Readers
  <2>2. state = Cardinality(Readers) /\ Readers # {}
    BY <2>1 DEF StateCountsHolders
  <2> QED
    BY <1>1, <2>2, ReadersFinite
<1>2. CASE mode[t] = "write"
  <2>1. t \in Writers
    BY <1>2 DEF Writers
  <2> QED
    BY <1>2, <2>1 DEF StateCountsHolders
<1> QED
  BY <1>1, <1>2 DEF TypeOK, Modes

\* Every step of mutex.c and wait_queue.c keeps m->state equal to the holders.
LEMMA ExclusionStep ==
  ASSUME TypeOK, StateCountsHolders, [Next]_vars
  PROVE  StateCountsHolders'
<1>1. ASSUME NEW t \in Threads, NEW md \in Modes, Lock(t, md)
      PROVE  StateCountsHolders'
  <2>1. HoldersSame
    BY <1>1 DEF HoldersSame, Lock, Goto, Holds, TypeOK
  <2> QED
    BY <2>1, HoldersSameKeeps
<1>2. ASSUME NEW t \in Threads, Acquire(t)
      PROVE  StateCountsHolders'
  <2>1. ~Holds(t) /\ mode[t] \in Modes /\ mode' = [mode EXCEPT ![t] = mode[t]]
    BY <1>2 DEF Acquire, Holds, TypeOK
  <2> QED
    BY <1>2, <2>1, TakeKeeps DEF Acquire
<1>3. ASSUME NEW t \in Threads, NEW md \in Modes, TryLock(t, md)
      PROVE  StateCountsHolders'
  <2>1. ~Holds(t)
    BY <1>3 DEF TryLock, Holds
  <2> QED
    BY <1>3, <2>1, TakeKeeps DEF TryLock
<1>4. ASSUME NEW t \in Threads, Unlock(t) \/ ReadUnlock(t) \/ CondvarEnqueue(t)
      PROVE  StateCountsHolders'
  <2>1. Holds(t)
    BY <1>4 DEF Unlock, ReadUnlock, CondvarEnqueue, Holds
  <2>2. IF mode[t] = "read" THEN state > 0 ELSE state = -1
    BY <2>1, HolderState
  <2>3. state' = IF mode[t] = "read" THEN state - 1 ELSE 0
    BY <1>4, <2>2 DEF Unlock, ReadUnlock, CondvarEnqueue, TypeOK
  <2>4. \E loc \in {"idle", "wake", "sleep"} : Goto(t, loc)
    BY <1>4 DEF Unlock, ReadUnlock, CondvarEnqueue
  <2>5. ~Holds(t)'
    BY <2>4 DEF Goto, Holds, TypeOK
  <2>6. \A u \in Threads \ {t} : Holds(u)' <=> Holds(u)
    BY <2>4 DEF Goto, Holds, TypeOK
  <2>7. \A u \in Threads \ {t} : mode'[u] = mode[u]
    BY <1>4 DEF Unlock, ReadUnlock, CondvarEnqueue, TypeOK
  <2> QED
    BY <2>1, <2>3, <2>5, <2>6, <2>7, GiveUpKeeps
<1>5. ASSUME NEW t \in Threads,
             \/ Enqueue(t) \/ WakeFirst(t) \/ WakeNone(t) \/ SendSync(t)
             \/ NotifWait(t) \/ SpuriousWait(t) \/ WaitDone(t) \/ WaitAgain(t)
      PROVE  StateCountsHolders'
  <2>1. ~Holds(t)
    BY <1>5 DEF Enqueue, WakeFirst, WakeNone, SendSync, NotifWait,
                SpuriousWait, WaitDone, WaitAgain, Holds
  <2>2. \E loc \in {"idle", "lock", "wake", "send", "sleep", "check"} : Goto(t, loc)
    BY <1>5 DEF Enqueue, WakeFirst, WakeNone, SendSync, NotifWait,
                SpuriousWait, WaitDone, WaitAgain, AfterWake
  <2>3. state' = state /\ mode' = mode
    BY <1>5 DEF Enqueue, WakeFirst, WakeNone, SendSync, NotifWait,
                SpuriousWait, WaitDone, WaitAgain
  <2>4. HoldersSame
    BY <2>1, <2>2, <2>3 DEF HoldersSame, Goto, Holds, TypeOK
  <2> QED
    BY <2>4, HoldersSameKeeps
<1>6. ASSUME NEW t \in Threads,
             \/ \E c \in Condvars : CondvarLink(t, c) \/ Signal(t, c)
             \/ SignalRead(t)
             \/ \E only_one \in BOOLEAN : Promote(t, only_one)
      PROVE  StateCountsHolders'
  <2>1. Holds(t)
    BY <1>6 DEF CondvarLink, Signal, SignalRead, Promote, Holds
  <2>2. \E loc \in {"hold", "cvwait", "signal", "promote"} : Goto(t, loc)
    BY <1>6 DEF CondvarLink, Signal, SignalRead, Promote
  <2>3. state' = state /\ mode' = mode
    BY <1>6 DEF CondvarLink, Signal, SignalRead, Promote
  <2>4. HoldersSame
    BY <2>1, <2>2, <2>3 DEF HoldersSame, Goto, Holds, TypeOK
  <2> QED
    BY <2>4, HoldersSameKeeps
<1>7. CASE UNCHANGED vars
  <2>1. HoldersSame
    BY <1>7 DEF HoldersSame, Holds, vars
  <2> QED
    BY <2>1, HoldersSameKeeps
<1> QED
  BY <1>1, <1>2, <1>3, <1>4, <1>5, <1>6, <1>7 DEF Next, Progress, Call

\* One writer or only readers hold the mutex, and m->state says which and how
\* many, in every behaviour of any number of threads.
THEOREM Exclusion == Spec => []StateCountsHolders
<1>1. Init => StateCountsHolders
  <2> SUFFICES ASSUME Init PROVE StateCountsHolders
    OBVIOUS
  <2>1. Readers = {} /\ Writers = {}
    BY DEF Init, Readers, Writers, Holds
  <2> QED
    BY <2>1, FS_EmptySet DEF Init, StateCountsHolders
<1>2. TypeOK /\ StateCountsHolders /\ [Next]_vars => StateCountsHolders'
  BY ExclusionStep
<1> QED
  BY <1>1, <1>2, TypeCorrect, PTL DEF Spec

-----------------------------------------------------------------------------
(* The wait queue *)

\* Appending a thread queues it and no other.
LEMMA AppendQueued ==
  ASSUME wq \in Seq(Threads), NEW t \in Threads, wq' = Append(wq, t)
  PROVE  /\ \A u : Queued(u)' <=> Queued(u) \/ u = t
         /\ DOMAIN wq' = DOMAIN wq \cup {Len(wq) + 1}
         /\ \A i \in DOMAIN wq : wq'[i] = wq[i]
         /\ wq'[Len(wq) + 1] = t
<1>1. /\ DOMAIN wq' = DOMAIN wq \cup {Len(wq) + 1}
      /\ \A i \in DOMAIN wq : wq'[i] = wq[i]
      /\ wq'[Len(wq) + 1] = t
  OBVIOUS
<1> QED
  BY <1>1 DEF Queued

\* Removing the only wqe of a thread takes it, and no other, off the queue.
LEMMA RemoveQueued ==
  ASSUME wq \in Seq(Threads), NEW k \in DOMAIN wq, wq' = RemoveAt(wq, k),
         \A i, j \in DOMAIN wq : wq[i] = wq[j] => i = j
  PROVE  /\ \A u : Queued(u)' <=> Queued(u) /\ u # wq[k]
         /\ \A i, j \in DOMAIN wq' : wq'[i] = wq'[j] => i = j
<1>1. /\ k \in 1..Len(wq) /\ Len(wq) \in Nat
      /\ wq' \in Seq(Threads)
      /\ Len(wq') = Len(wq) - 1
      /\ \A i \in 1..Len(wq') : wq'[i] = wq[IF i < k THEN i ELSE i + 1]
  <2> DEFINE front == SubSeq(wq, 1, k - 1)
             back  == SubSeq(wq, k + 1, Len(wq))
  <2>1. k \in 1..Len(wq) /\ Len(wq) \in Nat
    OBVIOUS
  <2>2. /\ front \in Seq(Threads) /\ Len(front) = k - 1
        /\ \A i \in 1..(k - 1) : front[i] = wq[i]
    BY <2>1
  <2>3. /\ back \in Seq(Threads) /\ Len(back) = Len(wq) - k
        /\ \A i \in 1..(Len(wq) - k) : back[i] = wq[i + k]
    BY <2>1
  <2>4. wq' = front \o back
    BY DEF RemoveAt
  <2> HIDE DEF front, back
  <2>5. wq' \in Seq(Threads) /\ Len(wq') = Len(wq) - 1
    BY <2>1, <2>2, <2>3, <2>4
  <2>6. ASSUME NEW i \in 1..Len(wq')
        PROVE  wq'[i] = wq[IF i < k THEN i ELSE i + 1]
    <3>1. wq'[i] = IF i <= k - 1 THEN front[i] ELSE back[i - (k - 1)]
      BY <2>1, <2>2, <2>3, <2>4, <2>5
    <3>2. CASE i < k
      BY <2>1, <2>2, <3>1, <3>2
    <3>3. CASE i >= k
      <4>1. i - (k - 1) \in 1..(Len(wq) - k)
        BY <2>1, <2>5, <3>3
      <4>2. (i - (k - 1)) + k = i + 1
        BY <2>1
      <4> QED
        BY <2>1, <2>3, <3>1, <3>3, <4>1, <4>2
    <3> QED
      BY <2>1, <3>2, <3>3
  <2> QED
    BY <2>1, <2>5, <2>6
<1>2. ASSUME NEW u, Queued(u), u # wq[k] PROVE Queued(u)'
  <2>1. PICK i \in DOMAIN wq : wq[i] = u
    BY <1>2 DEF Queued
  <2>2. CASE i < k
    <3>1. i \in 1..Len(wq') /\ wq'[i] = wq[i]
      BY <1>1, <2>1, <2>2
    <3> QED
      BY <1>1, <2>1, <3>1 DEF Queued
  <2>3. CASE i > k
    <3>1. i - 1 \in 1..Len(wq')
      BY <1>1, <2>1, <2>3
    <3>2. ~(i - 1 < k) /\ (i - 1) + 1 = i
      BY <1>1, <2>1, <2>3
    <3>3. wq'[i - 1] = wq[i]
      BY <1>1, <3>1, <3>2
    <3> QED
      BY <1>1, <2>1, <3>1, <3>3 DEF Queued
  <2> QED
    BY <1>1, <1>2, <2>1, <2>2, <2>3
<1>3. ASSUME NEW u, Queued(u)' PROVE Queued(u) /\ u # wq[k]
  <2>1. PICK i \in DOMAIN wq' : wq'[i] = u
    BY <1>3 DEF Queued
  <2>2. \E j \in DOMAIN wq : j # k /\ wq[j] = u
    <3>1. wq[IF i < k THEN i ELSE i + 1] = u
      BY <1>1, <2>1
    <3>2. (IF i < k THEN i ELSE i + 1) \in DOMAIN wq \ {k}
      BY <1>1, <2>1
    <3> QED
      BY <3>1, <3>2
  <2> QED
    BY <2>2 DEF Queued
<1>4. ASSUME NEW i \in DOMAIN wq', NEW j \in DOMAIN wq', wq'[i] = wq'[j]
      PROVE  i = j
  <2> DEFINE at(n) == IF n < k THEN n ELSE n + 1
  <2>1. at(i) \in DOMAIN wq /\ at(j) \in DOMAIN wq
    BY <1>1
  <2>2. wq[at(i)] = wq[at(j)]
    BY <1>1, <1>4
  <2>3. at(i) = at(j)
    BY <2>1, <2>2
  <2> QED
    BY <1>1, <2>3
<1> QED
  BY <1>2, <1>3, <1>4

\* A step that leaves the queue alone.
LEMMA QueueSame ==
  ASSUME wq' = wq
  PROVE  \A u : Queued(u)' <=> Queued(u)
  BY DEF Queued

\* Every step keeps the queue in line with the threads that wait.
LEMMA QueueStep ==
  ASSUME TypeOK, QueueMatchesWaiters, [Next]_vars
  PROVE  QueueMatchesWaiters'
<1> USE DEF TypeOK, QueueMatchesWaiters, Goto
<1>1. ASSUME NEW t \in Threads, Enqueue(t) \/ CondvarEnqueue(t)
      PROVE  QueueMatchesWaiters'
  <2>1. wq' = Append(wq, t) /\ ~Queued(t)
    BY <1>1 DEF Enqueue, CondvarEnqueue, WaitInit
  <2>2. (\E loc \in {"sleep", "wake"} : Goto(t, loc)) /\ wake_type' = wake_type
    BY <1>1 DEF Enqueue, CondvarEnqueue, wakeVars
  <2>3. \A i, j \in DOMAIN wq' : wq'[i] = wq'[j] => i = j
    BY <2>1, AppendQueued DEF Queued
  <2> QED
    BY <1>1, <2>1, <2>2, <2>3, AppendQueued DEF Enqueue, CondvarEnqueue
<1>2. ASSUME NEW t \in Threads, WaitDone(t) PROVE QueueMatchesWaiters'
  <2>1. PICK k \in DOMAIN wq : wq[k] = t /\ wq' = RemoveAt(wq, k)
    BY <1>2 DEF WaitDone
  <2>2. /\ \A u : Queued(u)' <=> Queued(u) /\ u # t
        /\ \A i, j \in DOMAIN wq' : wq'[i] = wq'[j] => i = j
    BY <2>1, RemoveQueued
  <2> QED
    BY <1>2, <2>2 DEF WaitDone, wakeVars
<1>3. ASSUME NEW t \in Threads, WakeFirst(t) PROVE QueueMatchesWaiters'
  BY <1>3, QueueSame DEF WakeFirst
<1>4. ASSUME NEW t \in Threads, WakeNone(t) PROVE QueueMatchesWaiters'
  BY <1>4, QueueSame DEF WakeNone, AfterWake
<1>5. ASSUME NEW t \in Threads, SendSync(t) PROVE QueueMatchesWaiters'
  BY <1>5, QueueSame DEF SendSync, AfterWake
<1>6. ASSUME NEW t \in Threads, NotifWait(t) \/ SpuriousWait(t) \/ WaitAgain(t)
      PROVE  QueueMatchesWaiters'
  BY <1>6, QueueSame DEF NotifWait, SpuriousWait, WaitAgain, wakeVars
<1>7. ASSUME NEW t \in Threads,
             \/ \E md \in Modes : Lock(t, md) \/ TryLock(t, md)
             \/ Acquire(t) \/ Unlock(t) \/ ReadUnlock(t)
             \/ \E c \in Condvars : CondvarLink(t, c) \/ Signal(t, c)
             \/ SignalRead(t)
             \/ \E only_one \in BOOLEAN : Promote(t, only_one)
      PROVE  QueueMatchesWaiters'
  <2>1. pc[t] \in {"idle", "lock", "hold", "signal", "promote"}
    BY <1>7 DEF Lock, TryLock, Acquire, Unlock, ReadUnlock, CondvarLink, Signal,
                SignalRead, Promote
  <2>2. \E loc \in {"idle", "lock", "hold", "cvwait", "signal", "promote", "wake"} :
          Goto(t, loc)
    BY <1>7 DEF Lock, TryLock, Acquire, Unlock, ReadUnlock, CondvarLink, Signal,
                SignalRead, Promote
  <2>3. wq' = wq /\ wake_type' = wake_type
    BY <1>7 DEF Lock, TryLock, Acquire, Unlock, ReadUnlock, CondvarLink, Signal,
                SignalRead, Promote, wakeVars
  <2>4. ~Queued(t)
    BY <2>1
  <2> QED
    BY <2>1, <2>2, <2>3, <2>4, QueueSame
<1>8. CASE UNCHANGED vars
  BY <1>8, QueueSame DEF vars
<1> QED
  BY <1>1, <1>2, <1>3, <1>4, <1>5, <1>6, <1>7, <1>8 DEF Next, Progress, Call

\* Only wq_promote_condvar() makes a condvar waiter one that can be woken.
LEMMA CondvarStep ==
  ASSUME TypeOK, QueueMatchesWaiters, CondvarWaitsForSignal, [Next]_vars
  PROVE  CondvarWaitsForSignal'
<1> USE DEF TypeOK, CondvarWaitsForSignal
<1>1. ASSUME NEW t \in Threads, Enqueue(t) \/ CondvarEnqueue(t)
      PROVE  CondvarWaitsForSignal'
  <2>1. PICK c \in Condvars \cup {NoCv} :
          /\ wq' = Append(wq, t)
          /\ done' = [done EXCEPT ![t] = FALSE]
          /\ cv' = [cv EXCEPT ![t] = c]
    BY <1>1 DEF Enqueue, CondvarEnqueue, WaitInit
  <2> QED
    BY <2>1, AppendQueued
<1>2. ASSUME NEW t \in Threads, WaitDone(t) PROVE CondvarWaitsForSignal'
  <2>1. PICK k \in DOMAIN wq : wq[k] = t /\ wq' = RemoveAt(wq, k)
    BY <1>2 DEF WaitDone
  <2>2. \A u : Queued(u)' <=> Queued(u) /\ u # t
    BY <2>1, RemoveQueued DEF QueueMatchesWaiters
  <2> QED
    BY <1>2, <2>2 DEF WaitDone
<1>3. ASSUME NEW t \in Threads, WakeFirst(t) PROVE CondvarWaitsForSignal'
  <2>1. PICK i \in DOMAIN wq : cv[wq[i]] = NoCv /\ done' = [done EXCEPT ![wq[i]] = TRUE]
    BY <1>3 DEF WakeFirst, Wakeable
  <2>2. wq' = wq /\ cv' = cv
    BY <1>3 DEF WakeFirst
  <2> QED
    BY <2>1, <2>2, QueueSame
<1>4. ASSUME NEW t \in Threads, NEW only_one \in BOOLEAN, Promote(t, only_one)
      PROVE  CondvarWaitsForSignal'
  <2>1. /\ \A u \in Threads : cv'[u] \in {NoCv, cv[u]}
        /\ wq' = wq /\ done' = done
    BY <1>4 DEF Promote
  <2> QED
    BY <2>1, QueueSame
<1>5. ASSUME wq' = wq, done' = done, cv' = cv
      PROVE  CondvarWaitsForSignal'
  BY <1>5, QueueSame
<1>6. ASSUME NEW t \in Threads,
             \/ \E md \in Modes : Lock(t, md) \/ TryLock(t, md)
             \/ Acquire(t) \/ Unlock(t) \/ ReadUnlock(t)
             \/ \E c \in Condvars : CondvarLink(t, c) \/ Signal(t, c)
             \/ SignalRead(t) \/ WakeNone(t) \/ SendSync(t)
             \/ NotifWait(t) \/ SpuriousWait(t) \/ WaitAgain(t)
      PROVE  wq' = wq /\ done' = done /\ cv' = cv
  BY <1>6 DEF Lock, TryLock, Acquire, Unlock, ReadUnlock, CondvarLink, Signal,
              SignalRead, WakeNone, SendSync, NotifWait, SpuriousWait,
              WaitAgain, wqeVars
<1>7. CASE UNCHANGED vars
  BY <1>5, <1>7 DEF vars
<1> QED
  BY <1>1, <1>2, <1>3, <1>4, <1>5, <1>6, <1>7 DEF Next, Progress, Call

-----------------------------------------------------------------------------
(* No wake-up is lost *)

\* An active waiter nobody woke.
Unwoken == \E t \in Threads : Queued(t) /\ cv[t] = NoCv /\ ~done[t]

\* A thread that will wake the first waiter, or try the lock and unlock it.
Rescuer(u) ==
  \/ pc[u] = "wake" /\ wake_type[u] = "unset"
  \/ Queued(u) /\ done[u]
  \/ pc[u] = "lock"

\* A step after which the mutex is not free.
LEMMA NotFree ==
  ASSUME state' # 0 PROVE NoLostWakeup'
  BY DEF NoLostWakeup

\* A step after which some thread is a rescuer.
LEMMA Rescued ==
  ASSUME NEW u \in Threads, Rescuer(u)' PROVE NoLostWakeup'
  BY DEF NoLostWakeup, Rescuer

\* A step that adds no waiter and keeps every rescuer.
LEMMA RescuersKept ==
  ASSUME NoLostWakeup, state' = state, Unwoken' => Unwoken,
         \A u \in Threads : Rescuer(u) => Rescuer(u)'
  PROVE  NoLostWakeup'
  BY DEF NoLostWakeup, Unwoken, Rescuer

\* A mutex that was just taken is not free.
LEMMA TakenNotFree ==
  ASSUME TypeOK, StateCountsHolders, NEW md \in Modes
  PROVE  /\ CanLock(md) /\ Take(md) => state' # 0
         /\ ~CanLock(md) => state # 0
<1>1. state = -1 \/ state \in Nat
  BY ReadersFinite DEF StateCountsHolders
<1> QED
  BY <1>1 DEF CanLock, Take, Modes

\* Every step that leaves a waiter on a free mutex leaves a thread that will wake it.
LEMMA WakeupStep ==
  ASSUME IInv, [Next]_vars
  PROVE  NoLostWakeup'
<1> USE DEF TypeOK, Goto
<1>0. /\ TypeOK /\ StateCountsHolders /\ QueueMatchesWaiters
      /\ CondvarWaitsForSignal /\ NoLostWakeup
  BY DEF IInv
<1>1. ASSUME NEW t \in Threads, NEW md \in Modes, Lock(t, md)
      PROVE  NoLostWakeup'
  <2>1. Rescuer(t)'
    BY <1>0, <1>1 DEF Lock, Rescuer
  <2> QED
    BY <2>1, Rescued
<1>2. ASSUME NEW t \in Threads, Acquire(t) \/ \E md \in Modes : TryLock(t, md)
      PROVE  NoLostWakeup'
  <2>1. \E md \in Modes : CanLock(md) /\ Take(md)
    BY <1>0, <1>2 DEF Acquire, TryLock
  <2> QED
    BY <1>0, <2>1, TakenNotFree, NotFree
<1>3. ASSUME NEW t \in Threads, Enqueue(t) PROVE NoLostWakeup'
  <2>1. state' # 0
    BY <1>0, <1>3, TakenNotFree DEF Enqueue
  <2> QED
    BY <2>1, NotFree
<1>4. ASSUME NEW t \in Threads, Unlock(t) \/ ReadUnlock(t) \/ CondvarEnqueue(t)
      PROVE  NoLostWakeup'
  <2>1. state' = 0 => pc'[t] = "wake" /\ wake_type'[t] = "unset"
    BY <1>0, <1>4 DEF Unlock, ReadUnlock, CondvarEnqueue, QueueMatchesWaiters,
                      wakeVars
  <2> QED
    BY <2>1, NotFree, Rescued DEF Rescuer
<1>5. ASSUME NEW t \in Threads, WakeFirst(t) PROVE NoLostWakeup'
  <2>1. PICK i \in DOMAIN wq : done' = [done EXCEPT ![wq[i]] = TRUE]
    BY <1>5 DEF WakeFirst, Wakeable
  <2>2. PICK u \in Threads : u = wq[i]
    BY <1>0
  <2>3. done'[u]
    BY <1>0, <2>1, <2>2
  <2>4. wq' = wq
    BY <1>5 DEF WakeFirst
  <2>5. Queued(u)'
    BY <2>2, <2>4 DEF Queued
  <2> QED
    BY <2>3, <2>5, Rescued DEF Rescuer
<1>6. ASSUME NEW t \in Threads, WakeNone(t) PROVE NoLostWakeup'
  <2>1. state' = state /\ wq' = wq /\ done' = done /\ cv' = cv
    BY <1>6 DEF WakeNone, wqeVars
  <2>2. Unwoken' <=> Unwoken
    BY <2>1, QueueSame DEF Unwoken
  <2>3. CASE wake_type[t] = "unset"
    <3>1. ~Unwoken
      BY <1>6, <2>3 DEF WakeNone, Wakeable, Unwoken, Queued
    <3> QED
      BY <2>2, <3>1 DEF NoLostWakeup, Unwoken
  <2>4. CASE wake_type[t] # "unset"
    <3>1. \A u \in Threads : Rescuer(u) => Rescuer(u)'
      BY <1>0, <1>6, <2>1, <2>4, QueueSame DEF WakeNone, Rescuer
    <3> QED
      BY <1>0, <2>1, <2>2, <3>1, RescuersKept
  <2> QED
    BY <2>3, <2>4
<1>7. ASSUME NEW t \in Threads,
             SendSync(t) \/ NotifWait(t) \/ SpuriousWait(t) \/ WaitAgain(t)
      PROVE  NoLostWakeup'
  <2>1. state' = state /\ wq' = wq /\ done' = done /\ cv' = cv
    BY <1>7 DEF SendSync, NotifWait, SpuriousWait, WaitAgain, wqeVars
  <2>2. Unwoken' => Unwoken
    BY <2>1, QueueSame DEF Unwoken
  <2>3. pc[t] \notin {"wake", "lock"}
    BY <1>7 DEF SendSync, NotifWait, SpuriousWait, WaitAgain
  <2>4. \A u \in Threads \ {t} : pc'[u] = pc[u] /\ wake_type'[u] = wake_type[u]
    BY <1>0, <1>7 DEF SendSync, NotifWait, SpuriousWait, WaitAgain, wakeVars
  <2>5. \A u \in Threads : Rescuer(u) => Rescuer(u)'
    BY <2>1, <2>3, <2>4, QueueSame DEF Rescuer
  <2> QED
    BY <1>0, <2>1, <2>2, <2>5, RescuersKept
<1>8. ASSUME NEW t \in Threads, WaitDone(t) PROVE NoLostWakeup'
  <2>1. Rescuer(t)'
    BY <1>0, <1>8 DEF WaitDone, Rescuer
  <2> QED
    BY <2>1, Rescued
<1>9. ASSUME NEW t \in Threads,
             \/ \E c \in Condvars : CondvarLink(t, c) \/ Signal(t, c)
             \/ SignalRead(t)
             \/ \E only_one \in BOOLEAN : Promote(t, only_one)
      PROVE  NoLostWakeup'
  <2>1. Holds(t) /\ state' = state
    BY <1>9 DEF CondvarLink, Signal, SignalRead, Promote, Holds
  <2>2. state # 0
    BY <1>0, <2>1, HolderState
  <2> QED
    BY <2>1, <2>2, NotFree
<1>10. CASE UNCHANGED vars
  BY <1>0, <1>10, QueueSame DEF vars, NoLostWakeup
<1> QED
  BY <1>1, <1>2, <1>3, <1>4, <1>5, <1>6, <1>7, <1>8, <1>9, <1>10
     DEF Next, Progress, Call

\* The inductive invariant: with the exclusion comes the order of the wait
\* queue's life cycle, and from both that no wake-up is lost.
THEOREM Invariance == Spec => []IInv
<1>1. Init => QueueMatchesWaiters /\ CondvarWaitsForSignal /\ NoLostWakeup
  BY DEF Init, QueueMatchesWaiters, CondvarWaitsForSignal, NoLostWakeup, Queued
<1>2. IInv /\ TypeOK' /\ StateCountsHolders' /\ [Next]_vars => IInv'
  BY QueueStep, CondvarStep, WakeupStep DEF IInv
<1>3. Init /\ TypeOK /\ StateCountsHolders => IInv
  BY <1>1 DEF IInv
<1> QED
  BY <1>2, <1>3, TypeCorrect, Exclusion, PTL DEF Spec

\* No interleaving of lock, unlock, condvar and wake-up steps loses the
\* wake-up of an active waiter.
THEOREM LostWakeupFree == Spec => []NoLostWakeup
<1>1. IInv => NoLostWakeup
  BY DEF IInv
<1> QED
  BY <1>1, Invariance, PTL

\* The wait queue holds exactly the threads inside a wait, each once.
THEOREM QueueSound == Spec => []QueueMatchesWaiters
<1>1. IInv => QueueMatchesWaiters
  BY DEF IInv
<1> QED
  BY <1>1, Invariance, PTL

\* condvar_wait() returns only to a thread a signal promoted.
THEOREM CondvarSound == Spec => []CondvarWaitsForSignal
<1>1. IInv => CondvarWaitsForSignal
  BY DEF IInv
<1> QED
  BY <1>1, Invariance, PTL

(***************************************************************************)
(* Mutex implements Monitor.  On top of the invariant above this takes     *)
(* that a condvar somebody waits on is linked to the mutex: a signal that  *)
(* finds no mutex in the condvar has nobody to signal.                     *)
(***************************************************************************)

\* A set of positions has a first one: the smallest of its initial segments
\* ends there.
LEMMA FirstPosition ==
  ASSUME NEW W, W \subseteq Nat, W # {}
  PROVE  \E i \in W : \A j \in W : i <= j
<1> DEFINE upto(i) == W \cap (0..i)
           segments == {upto(i) : i \in W}
<1>1. segments \subseteq FiniteSubsetsOf(Nat)
  <2>1. ASSUME NEW i \in W PROVE IsFiniteSet(upto(i)) /\ upto(i) \subseteq Nat
    <3>1. IsFiniteSet(0..i)
      BY FS_Interval
    <3>2. upto(i) \subseteq 0..i
      OBVIOUS
    <3> QED
      BY <3>1, <3>2, FS_Subset
  <2> QED
    BY <2>1 DEF FiniteSubsetsOf
<1>2. segments # {}
  OBVIOUS
<1>3. PICK s \in segments :
        \A r \in segments : << r, s >> \notin StrictSubsetOrdering(Nat)
  <2> HIDE DEF segments
  <2> QED
    BY <1>1, <1>2, FS_StrictSubsetOrderingWellFounded, WFMin
<1>4. PICK i \in W : s = upto(i)
  OBVIOUS
<1>5. ASSUME NEW j \in W, j < i PROVE FALSE
  <2>1. upto(j) \in segments /\ upto(j) \subseteq upto(i) /\ upto(j) # upto(i)
    BY <1>5
  <2>2. upto(j) \subseteq Nat /\ s \subseteq Nat
    BY <1>4
  <2> QED
    BY <1>3, <1>4, <2>1, <2>2 DEF StrictSubsetOrdering
<1> QED
  BY <1>5

-----------------------------------------------------------------------------
(* A condvar somebody waits on is linked *)

\* Who waits on a condvar, or is about to, has linked it to the mutex.
CondvarLinked ==
  \A t \in Threads :
    /\ pc[t] \in {"cvwait", "signal", "promote"} => arg[t] \in Condvars
    /\ pc[t] = "cvwait" => linked[arg[t]]
    /\ (Queued(t) /\ cv[t] # NoCv) => (cv[t] \in Condvars /\ linked[cv[t]])

\* Nothing unlinks a condvar.
LEMMA LinkedStep ==
  ASSUME TypeOK, QueueMatchesWaiters, CondvarLinked, [Next]_vars
  PROVE  CondvarLinked'
<1> USE DEF TypeOK, CondvarLinked, Goto
<1>1. ASSUME NEW t \in Threads, CondvarEnqueue(t) PROVE CondvarLinked'
  <2>1. PICK c \in Condvars : c = arg[t] /\ linked[c]
    BY <1>1 DEF CondvarEnqueue
  <2>2. /\ wq' = Append(wq, t)
        /\ cv' = [cv EXCEPT ![t] = c]
        /\ linked' = linked /\ arg' = arg
        /\ \E loc \in {"sleep", "wake"} : pc' = [pc EXCEPT ![t] = loc]
    BY <1>1, <2>1 DEF CondvarEnqueue, WaitInit
  <2> QED
    BY <2>1, <2>2, AppendQueued
<1>2. ASSUME NEW t \in Threads, Enqueue(t) PROVE CondvarLinked'
  <2>1. /\ wq' = Append(wq, t)
        /\ cv' = [cv EXCEPT ![t] = NoCv]
        /\ linked' = linked /\ arg' = arg
        /\ pc' = [pc EXCEPT ![t] = "sleep"]
    BY <1>2 DEF Enqueue, WaitInit
  <2> QED
    BY <2>1, AppendQueued
<1>3. ASSUME NEW t \in Threads, WaitDone(t) PROVE CondvarLinked'
  <2>1. PICK k \in DOMAIN wq : wq[k] = t /\ wq' = RemoveAt(wq, k)
    BY <1>3 DEF WaitDone
  <2>2. \A u : Queued(u)' <=> (Queued(u) /\ u # t)
    BY <2>1, RemoveQueued DEF QueueMatchesWaiters
  <2>3. /\ cv' = cv /\ linked' = linked
        /\ arg' = [arg EXCEPT ![t] = NoCv]
        /\ pc' = [pc EXCEPT ![t] = "lock"]
    BY <1>3 DEF WaitDone
  <2> QED
    BY <2>2, <2>3
<1>4. ASSUME NEW t \in Threads, NEW only_one \in BOOLEAN, Promote(t, only_one)
      PROVE  CondvarLinked'
  <2>1. /\ \A u \in Threads : cv'[u] \in {NoCv, cv[u]}
        /\ wq' = wq /\ linked' = linked
        /\ arg' = [arg EXCEPT ![t] = NoCv]
        /\ pc' = [pc EXCEPT ![t] = "hold"]
    BY <1>4 DEF Promote
  <2> QED
    BY <2>1, QueueSame
<1>5. ASSUME NEW t \in Threads, NEW c \in Condvars, CondvarLink(t, c)
      PROVE  CondvarLinked'
  <2>1. /\ wq' = wq /\ cv' = cv
        /\ linked' = [linked EXCEPT ![c] = TRUE]
        /\ arg' = [arg EXCEPT ![t] = c]
        /\ pc' = [pc EXCEPT ![t] = "cvwait"]
    BY <1>5 DEF CondvarLink, wqeVars
  <2>2. linked'[c] /\ \A d \in Condvars : linked[d] => linked'[d]
    BY <2>1
  <2> QED
    BY <2>1, <2>2, QueueSame
<1>6. ASSUME NEW t \in Threads, NEW c \in Condvars, Signal(t, c)
      PROVE  CondvarLinked'
  <2>1. /\ wq' = wq /\ cv' = cv /\ linked' = linked
        /\ arg' = [arg EXCEPT ![t] = c]
        /\ pc' = [pc EXCEPT ![t] = "signal"]
    BY <1>6 DEF Signal, wqeVars
  <2> QED
    BY <2>1, QueueSame
<1>7. ASSUME NEW t \in Threads, SignalRead(t) PROVE CondvarLinked'
  <2>1. /\ wq' = wq /\ cv' = cv /\ linked' = linked
        /\ pc[t] = "signal"
        /\ \/ arg' = arg /\ pc' = [pc EXCEPT ![t] = "promote"]
           \/ /\ arg' = [arg EXCEPT ![t] = NoCv]
              /\ pc' = [pc EXCEPT ![t] = "hold"]
    BY <1>7 DEF SignalRead, wqeVars
  <2> QED
    BY <2>1, QueueSame
<1>8. ASSUME NEW t \in Threads,
             \/ \E md \in Modes : Lock(t, md) \/ TryLock(t, md)
             \/ Acquire(t) \/ Unlock(t) \/ ReadUnlock(t)
             \/ WakeFirst(t) \/ WakeNone(t) \/ SendSync(t)
             \/ NotifWait(t) \/ SpuriousWait(t) \/ WaitAgain(t)
      PROVE  CondvarLinked'
  <2>1. wq' = wq /\ cv' = cv /\ linked' = linked /\ arg' = arg
    BY <1>8 DEF Lock, TryLock, Acquire, Unlock, ReadUnlock, WakeFirst, WakeNone,
                SendSync, NotifWait, SpuriousWait, WaitAgain, wqeVars
  <2>2. \E loc \in {"idle", "lock", "hold", "wake", "send", "sleep", "check"} :
          pc' = [pc EXCEPT ![t] = loc]
    BY <1>8 DEF Lock, TryLock, Acquire, Unlock, ReadUnlock, WakeFirst, WakeNone,
                SendSync, NotifWait, SpuriousWait, WaitAgain, AfterWake
  <2> QED
    BY <2>1, <2>2, QueueSame
<1>9. CASE UNCHANGED vars
  BY <1>9, QueueSame DEF vars
<1> QED
  BY <1>1, <1>2, <1>3, <1>4, <1>5, <1>6, <1>7, <1>8, <1>9
     DEF Next, Progress, Call

\* In every behaviour, who waits on a condvar has linked it.
LEMMA LinkedAlways == Spec => []CondvarLinked
<1>1. Init => CondvarLinked
  BY DEF Init, CondvarLinked, Queued
<1>2. IInv /\ CondvarLinked /\ [Next]_vars => CondvarLinked'
  BY LinkedStep DEF IInv
<1> QED
  BY <1>1, <1>2, Invariance, PTL DEF Spec

-----------------------------------------------------------------------------
(* The refinement mapping, thread by thread *)

\* The locations of a thread that is outside the mutex or in a wait.
Away == {"idle", "wake", "send", "sleep", "check"}

\* What the mapping of a thread follows from.
Mapped ==
  /\ phase \in [Threads -> M!Phases]
  /\ cond \in [Threads -> Condvars \cup {NoCv}]
  /\ \A t \in Threads :
       /\ pc[t] \in {"hold", "cvwait"} => (phase[t] = "in" /\ cond[t] = NoCv)
       /\ pc[t] \in {"signal", "promote"} =>
            (phase[t] = "signal" /\ cond[t] = arg[t])
       /\ pc[t] = "lock" => (phase[t] = "want" /\ cond[t] = NoCv)
       /\ (pc[t] \in Away /\ Queued(t) /\ cv[t] = NoCv) =>
            (phase[t] = "want" /\ cond[t] = NoCv)
       /\ (pc[t] \in Away /\ Queued(t) /\ cv[t] # NoCv) =>
            (phase[t] = "blocked" /\ cond[t] = cv[t])
       /\ (pc[t] \in Away /\ ~Queued(t)) =>
            (phase[t] = "out" /\ cond[t] = NoCv)

LEMMA MappedHolds == TypeOK => Mapped
<1> SUFFICES ASSUME TypeOK PROVE Mapped
  OBVIOUS
<1>1. ASSUME NEW t \in Threads
      PROVE  /\ pc[t] \in {"hold", "cvwait"} => phase[t] = "in"
             /\ pc[t] \in {"signal", "promote"} => phase[t] = "signal"
             /\ pc[t] = "lock" => phase[t] = "want"
             /\ (pc[t] \in Away /\ Queued(t) /\ cv[t] = NoCv) => phase[t] = "want"
             /\ (pc[t] \in Away /\ Queued(t) /\ cv[t] # NoCv) =>
                  phase[t] = "blocked"
             /\ (pc[t] \in Away /\ ~Queued(t)) => phase[t] = "out"
  BY DEF phase, Away
<1>2. \A t \in Threads :
        pc[t] \in Away \cup {"hold", "cvwait", "signal", "promote", "lock"}
  BY DEF TypeOK, Locations, Away
<1>3. phase \in [Threads -> M!Phases]
  <2>1. \A t \in Threads : phase[t] \in M!Phases
    BY <1>1, <1>2 DEF M!Phases
  <2>2. phase = [t \in Threads |-> phase[t]]
    BY DEF phase
  <2> QED
    BY <2>1, <2>2
<1>4. ASSUME NEW t \in Threads
      PROVE  cond[t] = IF phase[t] = "blocked" THEN cv[t]
                       ELSE IF phase[t] = "signal" THEN arg[t] ELSE NoCv
  BY DEF cond
<1>5. cond \in [Threads -> Condvars \cup {NoCv}]
  <2>1. \A t \in Threads : cond[t] \in Condvars \cup {NoCv}
    BY <1>4 DEF TypeOK
  <2>2. cond = [t \in Threads |-> cond[t]]
    BY DEF cond
  <2> QED
    BY <2>1, <2>2
<1> QED
  BY <1>1, <1>3, <1>4, <1>5 DEF Mapped

LEMMA MappedHoldsNext == TypeOK' => Mapped'
  BY MappedHolds, PTL

\* A thread a step leaves alone stays where it is in the monitor.
LeftAlone(u) ==
  /\ pc'[u] = pc[u] /\ cv'[u] = cv[u] /\ arg'[u] = arg[u]
  /\ Queued(u)' <=> Queued(u)

LEMMA LeftAloneStays ==
  ASSUME NEW u \in Threads, LeftAlone(u), TypeOK, TypeOK'
  PROVE  phase'[u] = phase[u] /\ cond'[u] = cond[u]
<1>1. pc[u] \in Away \cup {"hold", "cvwait", "signal", "promote", "lock"}
  BY DEF TypeOK, Locations, Away
<1>2. Mapped /\ Mapped'
  BY MappedHolds, MappedHoldsNext
<1> QED
  BY <1>1, <1>2 DEF Mapped, LeftAlone, Away

\* A step that moves no thread in the monitor.
LEMMA Stutter ==
  ASSUME Mapped, Mapped', mode' = mode,
         \A u \in Threads : phase'[u] = phase[u] /\ cond'[u] = cond[u]
  PROVE  UNCHANGED M!vars
<1>1. phase' = phase
  BY DEF Mapped
<1>2. cond' = cond
  BY DEF Mapped
<1> QED
  BY <1>1, <1>2 DEF M!vars

\* A step that moves one thread in the monitor.
LEMMA OneMoves ==
  ASSUME Mapped, Mapped', NEW t \in Threads,
         \A u \in Threads \ {t} : phase'[u] = phase[u] /\ cond'[u] = cond[u]
  PROVE  /\ phase' = [phase EXCEPT ![t] = phase'[t]]
         /\ cond' = [cond EXCEPT ![t] = cond'[t]]
         /\ cond'[t] = cond[t] => UNCHANGED cond
<1>1. phase' = [phase EXCEPT ![t] = phase'[t]]
  BY DEF Mapped
<1>2. cond' = [cond EXCEPT ![t] = cond'[t]]
  BY DEF Mapped
<1>3. cond'[t] = cond[t] => cond' = cond
  BY DEF Mapped
<1> QED
  BY <1>1, <1>2, <1>3

\* What mutex.c tests m->state for is what the monitor admits on.
LEMMA CanLockAdmits ==
  ASSUME TypeOK, StateCountsHolders, NEW md \in Modes, CanLock(md)
  PROVE  M!Admits(md)
<1>1. \A t \in Threads : t \in M!Inside => Holds(t)
  <2>1. Mapped
    BY MappedHolds
  <2>2. \A t \in Threads :
          pc[t] \in Away \cup {"hold", "cvwait", "signal", "promote", "lock"}
    BY DEF TypeOK, Locations, Away
  <2> QED
    BY <2>1, <2>2 DEF Mapped, M!Inside, Holds, Away
<1>2. M!Inside \subseteq Threads
  BY DEF M!Inside
<1>3. CASE md = "write"
  <2>1. Readers = {} /\ Writers = {}
    BY <1>3, ReadersFinite DEF StateCountsHolders, CanLock
  <2>2. M!Inside = {}
    BY <1>1, <1>2, <2>1 DEF Readers, Writers, TypeOK, Modes
  <2> QED
    BY <1>3, <2>2 DEF M!Admits
<1>4. CASE md = "read"
  <2>1. Writers = {}
    BY <1>4 DEF StateCountsHolders, CanLock
  <2>2. \A t \in M!Inside : mode[t] = "read"
    BY <1>1, <1>2, <2>1 DEF Writers, TypeOK, Modes
  <2> QED
    BY <1>4, <2>2 DEF M!Admits
<1> QED
  BY <1>3, <1>4 DEF Modes

\* The threads blocked on a condvar are those whose wqe carries it.
LEMMA BlockedOn ==
  ASSUME TypeOK, QueueMatchesWaiters, NEW c \in Condvars
  PROVE  M!Blocked(c) = {u \in Threads : Queued(u) /\ cv[u] = c}
<1>1. Mapped
  BY MappedHolds
<1>2. \A u \in Threads :
        pc[u] \in Away \cup {"hold", "cvwait", "signal", "promote", "lock"}
  BY DEF TypeOK, Locations, Away
<1>3. \A u \in Threads : Queued(u) => pc[u] \in Away
  BY DEF QueueMatchesWaiters, Away
<1>4. c # NoCv
  BY MutexAssumption
<1>5. ASSUME NEW u \in Threads
      PROVE  (phase[u] = "blocked" /\ cond[u] = c) <=> (Queued(u) /\ cv[u] = c)
  <2>1. CASE Queued(u) /\ cv[u] # NoCv
    BY <1>1, <1>3, <2>1 DEF Mapped
  <2>2. CASE ~(Queued(u) /\ cv[u] # NoCv)
    BY <1>1, <1>2, <1>4, <2>2 DEF Mapped
  <2> QED
    BY <2>1, <2>2
<1> QED
  BY <1>5 DEF M!Blocked

-----------------------------------------------------------------------------
(* Every step *)

\* A step of one thread that does not touch the queue or the condvars.
Quiet(t) ==
  /\ wq' = wq /\ cv' = cv /\ arg' = arg
  /\ \E loc \in Locations : pc' = [pc EXCEPT ![t] = loc]

LEMMA QuietOthers ==
  ASSUME TypeOK, NEW t \in Threads, Quiet(t)
  PROVE  \A u \in Threads \ {t} : LeftAlone(u)
  BY QueueSame DEF TypeOK, Quiet, LeftAlone

\* A signal that finds the condvar without a mutex, or promotes some of its
\* waiters: S are those promoted.
LEMMA SignalMaps ==
  ASSUME TypeOK, TypeOK', QueueMatchesWaiters, NEW t \in Threads,
         NEW c \in Condvars, arg[t] = c, pc[t] \in {"signal", "promote"},
         pc' = [pc EXCEPT ![t] = "hold"], arg' = [arg EXCEPT ![t] = NoCv],
         wq' = wq, mode' = mode,
         NEW S \in SUBSET {u \in Threads : Queued(u) /\ cv[u] = c},
         \/ S = {u \in Threads : Queued(u) /\ cv[u] = c}
         \/ \E u \in Threads : S = {u},
         \A u \in Threads : cv'[u] = IF u \in S THEN NoCv ELSE cv[u]
  PROVE  M!Signal(t)
<1>1. Mapped /\ Mapped'
  BY MappedHolds, MappedHoldsNext
<1>2. phase[t] = "signal" /\ cond[t] = c
  BY <1>1 DEF Mapped
<1>3. S \in SUBSET M!Blocked(c) /\ (S = M!Blocked(c) \/ \E u \in Threads : S = {u})
  BY BlockedOn
<1>4. phase'[t] = "in" /\ cond'[t] = NoCv
  BY <1>1 DEF Mapped, TypeOK
<1>5. ASSUME NEW u \in S, u # t PROVE phase'[u] = "want" /\ cond'[u] = NoCv
  <2>1. pc'[u] \in Away /\ Queued(u)' /\ cv'[u] = NoCv
    BY <1>5, QueueSame DEF TypeOK, QueueMatchesWaiters, Away
  <2> QED
    BY <1>1, <2>1 DEF Mapped
<1>6. ASSUME NEW u \in Threads \ S, u # t
      PROVE  phase'[u] = phase[u] /\ cond'[u] = cond[u]
  <2>1. LeftAlone(u)
    BY <1>6, QueueSame DEF TypeOK, LeftAlone
  <2> QED
    BY <2>1, LeftAloneStays
<1>7. phase' = [u \in Threads |-> IF u = t THEN "in"
                                  ELSE IF u \in S THEN "want"
                                  ELSE phase[u]]
  BY <1>1, <1>4, <1>5, <1>6 DEF Mapped
<1>8. cond' = [u \in Threads |-> IF u = t \/ u \in S THEN NoCv ELSE cond[u]]
  BY <1>1, <1>4, <1>5, <1>6 DEF Mapped
<1> QED
  BY <1>2, <1>3, <1>7, <1>8 DEF M!Signal

\* wq_promote_condvar() promotes the first waiter or all of them.
LEMMA PromoteMaps ==
  ASSUME TypeOK, TypeOK', QueueMatchesWaiters, CondvarLinked,
         NEW t \in Threads, NEW only_one \in BOOLEAN, Promote(t, only_one)
  PROVE  M!Signal(t)
<1>1. PICK c \in Condvars : c = arg[t]
  BY DEF Promote, CondvarLinked
<1> DEFINE W == {i \in DOMAIN wq : cv[wq[i]] = c}
           P == {i \in W : only_one => \A j \in W : i <= j}
           S == {u \in Threads : \E i \in P : wq[i] = u}
           B == {u \in Threads : Queued(u) /\ cv[u] = c}
<1>2. /\ cv' = [u \in Threads |-> IF \E i \in P : wq[i] = u THEN NoCv ELSE cv[u]]
      /\ arg' = [arg EXCEPT ![t] = NoCv]
      /\ pc[t] = "promote" /\ pc' = [pc EXCEPT ![t] = "hold"]
      /\ wq' = wq /\ mode' = mode
  BY <1>1 DEF Promote, Goto
<1>3. \A i \in W : wq[i] \in Threads
  BY DEF TypeOK
<1>4. S \in SUBSET B
  BY DEF Queued
<1>5. S = B \/ \E u \in Threads : S = {u}
  <2>1. CASE ~only_one \/ W = {}
    BY <1>3, <2>1 DEF Queued
  <2>2. CASE only_one /\ W # {}
    <3>1. W \subseteq Nat
      BY DEF TypeOK
    <3>2. PICK k \in W : \A j \in W : k <= j
      <4> HIDE DEF W
      <4> QED
        BY <2>2, <3>1, FirstPosition
    <3>3. P = {k}
      BY <2>2, <3>1, <3>2
    <3>4. S = {wq[k]}
      BY <1>3, <3>3
    <3> QED
      BY <1>3, <3>4
  <2> QED
    BY <2>1, <2>2
<1>6. \A u \in Threads : cv'[u] = IF u \in S THEN NoCv ELSE cv[u]
  BY <1>2
<1> HIDE DEF S, B
<1> QED
  BY <1>1, <1>2, <1>4, <1>5, <1>6, SignalMaps DEF B

\* A quiet step of t takes t, and no other thread, to where its new location
\* is in the monitor.
LEMMA QuietMoves ==
  ASSUME TypeOK, TypeOK', NEW t \in Threads, Quiet(t)
  PROVE  /\ phase' = [phase EXCEPT ![t] = phase'[t]]
         /\ cond' = [cond EXCEPT ![t] = cond'[t]]
         /\ cond'[t] = cond[t] => UNCHANGED cond
         /\ (phase'[t] = phase[t] /\ cond'[t] = cond[t] /\ mode' = mode)
              => UNCHANGED M!vars
<1>1. Mapped /\ Mapped'
  BY MappedHolds, MappedHoldsNext
<1>2. \A u \in Threads \ {t} : phase'[u] = phase[u] /\ cond'[u] = cond[u]
  BY QuietOthers, LeftAloneStays
<1> QED
  BY <1>1, <1>2, OneMoves, Stutter

\* Every step of the mutex is a step of the monitor or moves nobody in it.
LEMMA StepMaps ==
  ASSUME IInv, TypeOK', CondvarLinked, [Next]_vars
  PROVE  [M!Next]_(M!vars)
<1>0. /\ TypeOK /\ StateCountsHolders /\ QueueMatchesWaiters
      /\ CondvarWaitsForSignal /\ Mapped /\ Mapped'
  BY MappedHolds, MappedHoldsNext DEF IInv
<1> USE DEF Goto
<1>1. ASSUME NEW t \in Threads, NEW md \in Modes, Lock(t, md)
      PROVE  M!Request(t, md)
  <2>1. Quiet(t) /\ pc[t] = "idle" /\ pc'[t] = "lock" /\ ~Queued(t)
    BY <1>0, <1>1 DEF Lock, Quiet, wqeVars, Locations, TypeOK, QueueMatchesWaiters
  <2>2. phase[t] = "out" /\ phase'[t] = "want" /\ cond'[t] = cond[t]
    BY <1>0, <2>1 DEF Mapped, Away
  <2> QED
    BY <1>0, <1>1, <2>1, <2>2, QuietMoves DEF Lock, M!Request
<1>2. ASSUME NEW t \in Threads, NEW md \in Modes, TryLock(t, md)
      PROVE  M!TryEnter(t, md)
  <2>1. Quiet(t) /\ pc[t] = "idle" /\ pc'[t] = "hold" /\ ~Queued(t)
    BY <1>0, <1>2 DEF TryLock, Quiet, wqeVars, Locations, TypeOK,
                      QueueMatchesWaiters
  <2>2. phase[t] = "out" /\ phase'[t] = "in" /\ cond'[t] = cond[t]
    BY <1>0, <2>1 DEF Mapped, Away
  <2>3. M!Admits(md)
    BY <1>0, <1>2, CanLockAdmits DEF TryLock
  <2> QED
    BY <1>0, <1>2, <2>1, <2>2, <2>3, QuietMoves DEF TryLock, M!TryEnter
<1>3. ASSUME NEW t \in Threads, Acquire(t) PROVE M!Enter(t)
  <2>1. Quiet(t) /\ pc[t] = "lock" /\ pc'[t] = "hold" /\ mode' = mode
    BY <1>0, <1>3 DEF Acquire, Quiet, wqeVars, Locations, TypeOK
  <2>2. phase[t] = "want" /\ phase'[t] = "in" /\ cond'[t] = cond[t]
    BY <1>0, <2>1 DEF Mapped
  <2>3. M!Admits(mode[t])
    BY <1>0, <1>3, CanLockAdmits DEF Acquire, TypeOK
  <2> QED
    BY <1>0, <2>1, <2>2, <2>3, QuietMoves DEF M!Enter
<1>4. ASSUME NEW t \in Threads, Unlock(t) \/ ReadUnlock(t) PROVE M!Leave(t)
  <2>1. /\ Quiet(t) /\ pc[t] = "hold" /\ pc'[t] \in {"idle", "wake"}
        /\ mode' = mode /\ ~Queued(t)
    BY <1>0, <1>4 DEF Unlock, ReadUnlock, Quiet, wqeVars, Locations, TypeOK,
                      QueueMatchesWaiters
  <2>2. ~Queued(t)'
    BY <2>1, QueueSame DEF Quiet
  <2>3. phase[t] = "in" /\ phase'[t] = "out" /\ cond'[t] = cond[t]
    BY <1>0, <2>1, <2>2 DEF Mapped, Away
  <2> QED
    BY <1>0, <2>1, <2>3, QuietMoves DEF M!Leave
<1>5. ASSUME NEW t \in Threads,
             \/ WakeFirst(t) \/ WakeNone(t) \/ SendSync(t)
             \/ NotifWait(t) \/ SpuriousWait(t) \/ WaitAgain(t)
      PROVE  UNCHANGED M!vars
  <2>1. /\ Quiet(t) /\ mode' = mode
        /\ pc[t] \in Away /\ pc'[t] \in Away
    BY <1>0, <1>5 DEF WakeFirst, WakeNone, SendSync, NotifWait, SpuriousWait,
                      WaitAgain, AfterWake, Quiet, wqeVars, Locations, TypeOK, Away
  <2>2. cv'[t] = cv[t] /\ (Queued(t)' <=> Queued(t))
    BY <2>1, QueueSame DEF Quiet
  <2>3. phase'[t] = phase[t] /\ cond'[t] = cond[t]
    BY <1>0, <2>1, <2>2 DEF Mapped
  <2> QED
    BY <1>0, <2>1, <2>3, QuietMoves
<1>6. ASSUME NEW t \in Threads, Enqueue(t) PROVE UNCHANGED M!vars
  <2>1. /\ wq' = Append(wq, t) /\ arg' = arg /\ mode' = mode
        /\ cv' = [cv EXCEPT ![t] = NoCv]
        /\ pc[t] = "lock" /\ pc' = [pc EXCEPT ![t] = "sleep"]
    BY <1>6 DEF Enqueue, WaitInit
  <2>2. \A u \in Threads : Queued(u)' <=> (Queued(u) \/ u = t)
    BY <1>0, <2>1, AppendQueued DEF TypeOK
  <2>3. \A u \in Threads \ {t} : LeftAlone(u)
    BY <1>0, <2>1, <2>2 DEF LeftAlone, TypeOK
  <2>4. \A u \in Threads \ {t} : phase'[u] = phase[u] /\ cond'[u] = cond[u]
    BY <1>0, <2>3, LeftAloneStays
  <2>5. pc'[t] \in Away /\ Queued(t)' /\ cv'[t] = NoCv
    BY <1>0, <2>1, <2>2 DEF TypeOK, Away
  <2>6. phase'[t] = phase[t] /\ cond'[t] = cond[t]
    BY <1>0, <2>1, <2>5 DEF Mapped
  <2> QED
    BY <1>0, <2>1, <2>4, <2>6, Stutter
<1>7. ASSUME NEW t \in Threads, WaitDone(t) PROVE UNCHANGED M!vars
  <2>1. PICK k \in DOMAIN wq : wq[k] = t /\ wq' = RemoveAt(wq, k)
    BY <1>7 DEF WaitDone
  <2>2. \A u \in Threads : Queued(u)' <=> (Queued(u) /\ u # t)
    BY <1>0, <2>1, RemoveQueued DEF QueueMatchesWaiters, TypeOK
  <2>3. /\ arg' = [arg EXCEPT ![t] = NoCv] /\ mode' = mode /\ cv' = cv
        /\ done[t] /\ pc[t] = "check" /\ pc' = [pc EXCEPT ![t] = "lock"]
    BY <1>7 DEF WaitDone
  <2>4. \A u \in Threads \ {t} : LeftAlone(u)
    BY <1>0, <2>2, <2>3 DEF LeftAlone, TypeOK
  <2>5. \A u \in Threads \ {t} : phase'[u] = phase[u] /\ cond'[u] = cond[u]
    BY <1>0, <2>4, LeftAloneStays
  <2>6. Queued(t) /\ cv[t] = NoCv
    BY <1>0, <2>1, <2>3 DEF CondvarWaitsForSignal, Queued
  <2>7. pc'[t] = "lock" /\ pc[t] \in Away
    BY <1>0, <2>3 DEF TypeOK, Away
  <2>8. phase'[t] = phase[t] /\ cond'[t] = cond[t]
    BY <1>0, <2>6, <2>7 DEF Mapped
  <2> QED
    BY <1>0, <2>3, <2>5, <2>8, Stutter
<1>8. ASSUME NEW t \in Threads, NEW c \in Condvars, CondvarLink(t, c)
      PROVE  UNCHANGED M!vars
  <2>1. /\ wq' = wq /\ cv' = cv /\ mode' = mode
        /\ pc[t] = "hold" /\ pc' = [pc EXCEPT ![t] = "cvwait"]
        /\ arg' = [arg EXCEPT ![t] = c]
    BY <1>8 DEF CondvarLink, wqeVars
  <2>2. \A u \in Threads \ {t} : LeftAlone(u)
    BY <1>0, <2>1, QueueSame DEF LeftAlone, TypeOK
  <2>3. \A u \in Threads \ {t} : phase'[u] = phase[u] /\ cond'[u] = cond[u]
    BY <1>0, <2>2, LeftAloneStays
  <2>4. phase'[t] = phase[t] /\ cond'[t] = cond[t]
    BY <1>0, <2>1 DEF Mapped, TypeOK
  <2> QED
    BY <1>0, <2>1, <2>3, <2>4, Stutter
<1>9. ASSUME NEW t \in Threads, NEW c \in Condvars, Signal(t, c)
      PROVE  M!StartSignal(t, c)
  <2>1. /\ wq' = wq /\ cv' = cv /\ mode' = mode
        /\ pc[t] = "hold" /\ pc' = [pc EXCEPT ![t] = "signal"]
        /\ arg' = [arg EXCEPT ![t] = c]
    BY <1>9 DEF Signal, wqeVars
  <2>2. \A u \in Threads \ {t} : LeftAlone(u)
    BY <1>0, <2>1, QueueSame DEF LeftAlone, TypeOK
  <2>3. \A u \in Threads \ {t} : phase'[u] = phase[u] /\ cond'[u] = cond[u]
    BY <1>0, <2>2, LeftAloneStays
  <2>4. phase[t] = "in" /\ phase'[t] = "signal" /\ cond'[t] = c
    BY <1>0, <2>1 DEF Mapped, TypeOK
  <2> QED
    BY <1>0, <2>1, <2>3, <2>4, OneMoves DEF M!StartSignal
<1>10. ASSUME NEW t \in Threads, CondvarEnqueue(t)
       PROVE  \E c \in Condvars : M!Wait(t, c)
  <2>1. PICK c \in Condvars : c = arg[t]
    BY <1>10 DEF CondvarEnqueue, CondvarLinked
  <2>2. mode' = mode
    <3>1. IF mode[t] = "read" THEN state > 0 ELSE state = -1
      BY <1>0, <1>10, HolderState DEF CondvarEnqueue, Holds
    <3> QED
      BY <1>0, <1>10, <3>1 DEF CondvarEnqueue, TypeOK, Modes
  <2>3. /\ wq' = Append(wq, t) /\ arg' = arg
        /\ cv' = [cv EXCEPT ![t] = c]
        /\ pc[t] = "cvwait"
        /\ \E loc \in {"sleep", "wake"} : pc' = [pc EXCEPT ![t] = loc]
    BY <1>10, <2>1 DEF CondvarEnqueue, WaitInit
  <2>4. \A u \in Threads : Queued(u)' <=> (Queued(u) \/ u = t)
    BY <1>0, <2>3, AppendQueued DEF TypeOK
  <2>5. \A u \in Threads \ {t} : LeftAlone(u)
    BY <1>0, <2>3, <2>4 DEF LeftAlone, TypeOK
  <2>6. \A u \in Threads \ {t} : phase'[u] = phase[u] /\ cond'[u] = cond[u]
    BY <1>0, <2>5, LeftAloneStays
  <2>7. pc'[t] \in Away /\ Queued(t)' /\ cv'[t] = c /\ c # NoCv
    BY <1>0, <2>3, <2>4, MutexAssumption DEF TypeOK, Away
  <2>8. phase[t] = "in" /\ phase'[t] = "blocked" /\ cond'[t] = c
    BY <1>0, <2>3, <2>7 DEF Mapped
  <2> QED
    BY <1>0, <2>2, <2>6, <2>8, OneMoves DEF M!Wait
<1>11. ASSUME NEW t \in Threads, SignalRead(t), linked[arg[t]]
       PROVE  UNCHANGED M!vars
  <2>1. /\ Quiet(t) /\ mode' = mode
        /\ pc[t] = "signal" /\ pc'[t] = "promote"
    BY <1>0, <1>11 DEF SignalRead, Quiet, wqeVars, Locations, TypeOK
  <2>2. phase'[t] = phase[t] /\ cond'[t] = cond[t]
    BY <1>0, <2>1 DEF Mapped, Quiet
  <2> QED
    BY <1>0, <2>1, <2>2, QuietMoves
<1>12. ASSUME NEW t \in Threads, SignalRead(t), ~linked[arg[t]]
       PROVE  M!Signal(t)
  <2>1. PICK c \in Condvars : c = arg[t] /\ ~linked[c]
    BY <1>12 DEF SignalRead, CondvarLinked
  <2>2. /\ wq' = wq /\ cv' = cv /\ mode' = mode
        /\ pc[t] = "signal" /\ pc' = [pc EXCEPT ![t] = "hold"]
        /\ arg' = [arg EXCEPT ![t] = NoCv]
    BY <1>12 DEF SignalRead, wqeVars
  <2>3. {u \in Threads : Queued(u) /\ cv[u] = c} = {}
    BY <2>1, MutexAssumption DEF CondvarLinked
  <2> QED
    BY <1>0, <2>1, <2>2, <2>3, SignalMaps
<1>13. ASSUME NEW t \in Threads, NEW only_one \in BOOLEAN, Promote(t, only_one)
       PROVE  M!Signal(t)
  BY <1>0, <1>13, PromoteMaps
<1>14. CASE UNCHANGED vars
  <2>1. \A u \in Threads : LeftAlone(u)
    BY <1>14, QueueSame DEF LeftAlone, vars
  <2>2. mode' = mode
    BY <1>14 DEF vars
  <2> QED
    BY <1>0, <2>1, <2>2, LeftAloneStays, Stutter
<1>15. ASSUME NEW t \in Threads,
              \/ \E md \in M!Modes : M!Request(t, md) \/ M!TryEnter(t, md)
              \/ M!Enter(t) \/ M!Leave(t) \/ M!Signal(t)
              \/ \E c \in Condvars : M!Wait(t, c) \/ M!StartSignal(t, c)
       PROVE  M!Next
  BY <1>15 DEF M!Next
<1>16. ASSUME NEW t \in Threads, Progress(t) \/ Call(t) \/ SpuriousWait(t)
       PROVE  [M!Next]_(M!vars)
  <2>1. M!Modes = Modes
    BY DEF M!Modes, Modes
  <2>2. CASE Progress(t)
    BY <1>3, <1>4, <1>5, <1>6, <1>7, <1>10, <1>11, <1>12, <1>13, <1>15, <2>2
       DEF Progress
  <2>3. CASE Call(t)
    BY <1>1, <1>2, <1>8, <1>9, <1>15, <2>1, <2>3 DEF Call
  <2>4. CASE SpuriousWait(t)
    BY <1>5, <2>4
  <2> QED
    BY <1>16, <2>2, <2>3, <2>4
<1> QED
  BY <1>14, <1>16 DEF Next

\* Mutex, wait queue and condvars implement the read/write monitor, whatever
\* the threads, the condvars and the notifications normal world loses.
THEOREM Implements == Spec => ImplementsMonitor
<1>1. Init => M!Init
  <2> SUFFICES ASSUME Init PROVE M!Init
    OBVIOUS
  <2>1. TypeOK
    BY MutexAssumption DEF Init, TypeOK, Modes, Locations
  <2>2. Mapped /\ mode \in [Threads -> M!Modes]
    BY <2>1, MappedHolds DEF TypeOK, Modes, M!Modes
  <2>3. \A t \in Threads : phase[t] = "out" /\ cond[t] = NoCv
    BY <2>2 DEF Init, Mapped, Away, Queued
  <2> QED
    BY <2>2, <2>3 DEF Mapped, M!Init
<1>2. IInv /\ TypeOK' /\ CondvarLinked /\ [Next]_vars => [M!Next]_(M!vars)
  BY StepMaps
<1> QED
  BY <1>1, <1>2, TypeCorrect, Invariance, LinkedAlways, PTL
     DEF Spec, ImplementsMonitor, M!Spec

=============================================================================
