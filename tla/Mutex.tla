------------------------------- MODULE Mutex -------------------------------
(***************************************************************************)
(* The read/write mutex, its wait queue and the condition variables of the *)
(* OP-TEE core: core/kernel/mutex.c and core/kernel/wait_queue.c.          *)
(*                                                                         *)
(* One action is one critical section of m->spin_lock, cv->spin_lock or    *)
(* wq_spin_lock, or one RPC to normal world.  A critical section of        *)
(* m->spin_lock that appends to the queue nests the one of wq_spin_lock;   *)
(* it makes a single access to the queue, the only thing in it another     *)
(* thread can touch without m->spin_lock, so it is one step.               *)
(*                                                                         *)
(* A wait_queue_elem lives on the stack of its thread, which is in one     *)
(* wait queue at a time: it is named by that thread, its handle.           *)
(***************************************************************************)
EXTENDS Integers, FiniteSets, SequencesExt

CONSTANTS
  Threads,      (* the OP-TEE threads that use the mutex                   *)
  Condvars,     (* the condition variables linked to it                    *)
  NoCv,         (* wqe->cv == NULL: not a condvar waiter                   *)
  LossyNotif    (* may the RPC that wakes a thread fail?  do_notif()       *)
                (* ignores its result                                      *)

ASSUME MutexAssumption ==
  /\ IsFiniteSet(Threads)
  /\ NoCv \notin Condvars
  /\ LossyNotif \in BOOLEAN

VARIABLES
  state,        (* m->state: -1 write locked, 0 unlocked, > 0 readers      *)
  wq,           (* m->wq: the threads whose wqe is in the queue, in order  *)
  done,         (* wqe->done                                               *)
  wait_read,    (* wqe->wait_read                                          *)
  cv,           (* wqe->cv                                                 *)
  linked,       (* cv->m == m, for each condvar (it starts as NULL)        *)
  pc,           (* where each thread is in mutex.c or wait_queue.c         *)
  mode,         (* what a thread locks or holds the mutex for              *)
  arg,          (* the condvar a thread waits on or signals                *)
  wake_type,    (* wake_read of wq_wake_next(), "unset" until assigned     *)
  handle,       (* the thread wq_wake_next() is about to notify            *)
  notif         (* normal world holds a notification for the thread        *)

wqeVars  == << done, wait_read, cv >>
wakeVars == << wake_type, handle >>
vars == << state, wq, done, wait_read, cv, linked, pc, mode, arg,
           wake_type, handle, notif >>

Modes == {"read", "write"}

Locations ==
  { "idle",     (* outside the mutex                                       *)
    "lock",     (* at the top of the loop of mutex_lock/mutex_read_lock    *)
    "hold",     (* holds the mutex                                         *)
    "cvwait",   (* condvar_wait(): linked, not yet in the wait queue       *)
    "signal",   (* cv_signal(): about to read cv->m                        *)
    "promote",  (* cv_signal(): about to promote the waiters               *)
    "wake",     (* wq_wake_next(): about to take wq_spin_lock              *)
    "send",     (* wq_wake_next(): about to notify handle                  *)
    "sleep",    (* wq_wait_final(): in notif_wait()                        *)
    "check" }   (* wq_wait_final(): about to take wq_spin_lock             *)

Queued(t) == \E i \in DOMAIN wq : wq[i] = t

\* A thread between acquiring the mutex and giving it up.
Holds(t) == pc[t] \in {"hold", "cvwait", "signal", "promote"}

\* Where wq_wake_next() returns to: condvar_wait() has its own wqe queued
\* and goes on to wq_wait_final(), the unlock functions return.
AfterWake(t) == IF Queued(t) THEN "sleep" ELSE "idle"

Goto(t, loc) == pc' = [pc EXCEPT ![t] = loc]

\* wq_wait_init_condvar(): a fresh wqe at the tail of the queue.
WaitInit(t, c, read) ==
  /\ wq' = Append(wq, t)
  /\ done' = [done EXCEPT ![t] = FALSE]
  /\ wait_read' = [wait_read EXCEPT ![t] = read]
  /\ cv' = [cv EXCEPT ![t] = c]

Init ==
  /\ state = 0
  /\ wq = << >>
  /\ done = [t \in Threads |-> FALSE]
  /\ wait_read = [t \in Threads |-> FALSE]
  /\ cv = [t \in Threads |-> NoCv]
  /\ linked = [c \in Condvars |-> FALSE]
  /\ pc = [t \in Threads |-> "idle"]
  /\ mode = [t \in Threads |-> "write"]
  /\ arg = [t \in Threads |-> NoCv]
  /\ wake_type = [t \in Threads |-> "unset"]
  /\ handle = [t \in Threads |-> t]
  /\ notif = [t \in Threads |-> FALSE]

-----------------------------------------------------------------------------
(* Locking *)

\* mutex_lock() or mutex_read_lock() is called.
Lock(t, md) ==
  /\ pc[t] = "idle"
  /\ Goto(t, "lock")
  /\ mode' = [mode EXCEPT ![t] = md]
  /\ UNCHANGED << state, wq, wqeVars, linked, arg, wakeVars, notif >>

\* Faulty variant: mutex_read_trylock() and mutex_read_lock() forget the writer.
CanLockReadersAnyway(md) == md = "read" \/ state = 0

CanLock(md) == IF md = "write" THEN state = 0 ELSE state # -1

Take(md) == state' = IF md = "write" THEN -1 ELSE state + 1

Acquire(t) ==
  /\ pc[t] = "lock"
  /\ CanLock(mode[t])
  /\ Take(mode[t])
  /\ Goto(t, "hold")
  /\ UNCHANGED << wq, wqeVars, linked, mode, arg, wakeVars, notif >>

Enqueue(t) ==
  /\ pc[t] = "lock"
  /\ ~CanLock(mode[t])
  /\ WaitInit(t, NoCv, mode[t] = "read")
  /\ Goto(t, "sleep")
  /\ UNCHANGED << state, linked, mode, arg, wakeVars, notif >>

\* mutex_trylock() and mutex_read_trylock(); a failed try changes nothing.
TryLock(t, md) ==
  /\ pc[t] = "idle"
  /\ CanLock(md)
  /\ Take(md)
  /\ Goto(t, "hold")
  /\ mode' = [mode EXCEPT ![t] = md]
  /\ UNCHANGED << wq, wqeVars, linked, arg, wakeVars, notif >>

\* Faulty variant: the writer's unlock counts down as the readers' does.
UnlockDecrements(t) ==
  /\ pc[t] = "hold" /\ mode[t] = "write"
  /\ state' = state - 1
  /\ Goto(t, "wake")
  /\ UNCHANGED << wq, wqeVars, linked, mode, arg, wakeVars, notif >>

Unlock(t) ==
  /\ pc[t] = "hold" /\ mode[t] = "write"
  /\ state # 0                                   \* else panic()
  /\ state' = 0
  /\ Goto(t, "wake")
  /\ UNCHANGED << wq, wqeVars, linked, mode, arg, wakeVars, notif >>

\* Faulty variant: the test for the last reader looks at the old state.
ReadUnlockOldState(t) ==
  /\ pc[t] = "hold" /\ mode[t] = "read"
  /\ state > 0
  /\ state' = state - 1
  /\ Goto(t, IF state = 0 THEN "wake" ELSE "idle")
  /\ UNCHANGED << wq, wqeVars, linked, mode, arg, wakeVars, notif >>

ReadUnlock(t) ==
  /\ pc[t] = "hold" /\ mode[t] = "read"
  /\ state > 0                                   \* else panic()
  /\ state' = state - 1
  /\ Goto(t, IF state' = 0 THEN "wake" ELSE "idle")
  /\ UNCHANGED << wq, wqeVars, linked, mode, arg, wakeVars, notif >>

-----------------------------------------------------------------------------
(* wq_wake_next() and wq_wait_final() *)

\* Faulty variant: wq_wake_next() does not skip the condvar waiters.
WakeableCondvars(t) ==
  {i \in DOMAIN wq : /\ ~done[wq[i]]
                     /\ \/ wake_type[t] = "unset"
                        \/ wait_read[wq[i]] = (wake_type[t] = "read")}

\* The positions of the queue the loop of t stops at.
Wakeable(t) ==
  {i \in DOMAIN wq : /\ cv[wq[i]] = NoCv
                     /\ ~done[wq[i]]
                     /\ \/ wake_type[t] = "unset"
                        \/ wait_read[wq[i]] = (wake_type[t] = "read")}

WakeFirst(t) ==
  /\ pc[t] = "wake"
  /\ \E i \in Wakeable(t) :
       /\ \A j \in Wakeable(t) : i <= j
       /\ done' = [done EXCEPT ![wq[i]] = TRUE]
       /\ handle' = [handle EXCEPT ![t] = wq[i]]
       /\ wake_type' = [wake_type EXCEPT ![t] =
                          IF wait_read[wq[i]] THEN "read" ELSE "write"]
  /\ Goto(t, "send")
  /\ UNCHANGED << state, wq, wait_read, cv, linked, mode, arg, notif >>

WakeNone(t) ==
  /\ pc[t] = "wake"
  /\ Wakeable(t) = {}
  /\ wake_type' = [wake_type EXCEPT ![t] = "unset"]
  /\ Goto(t, AfterWake(t))
  /\ UNCHANGED << state, wq, wqeVars, linked, mode, arg, handle, notif >>

\* notif_send_sync() from do_notif(): the RPC may fail, which is ignored.
\* A woken reader is followed by the other readers.
SendSync(t) ==
  /\ pc[t] = "send"
  /\ \/ notif' = [notif EXCEPT ![handle[t]] = TRUE]
     \/ LossyNotif /\ UNCHANGED notif
  /\ handle' = [handle EXCEPT ![t] = t]
  /\ IF wake_type[t] = "read"
     THEN Goto(t, "wake") /\ UNCHANGED wake_type
     ELSE /\ Goto(t, AfterWake(t))
          /\ wake_type' = [wake_type EXCEPT ![t] = "unset"]
  /\ UNCHANGED << state, wq, wqeVars, linked, mode, arg >>

\* notif_wait() returns: the notification was sent, now or earlier.
NotifWait(t) ==
  /\ pc[t] = "sleep"
  /\ notif[t]
  /\ notif' = [notif EXCEPT ![t] = FALSE]
  /\ Goto(t, "check")
  /\ UNCHANGED << state, wq, wqeVars, linked, mode, arg, wakeVars >>

\* notif_wait() returns without a notification: the RPC failed in normal
\* world, and do_notif() ignores the result.
SpuriousWait(t) ==
  /\ pc[t] = "sleep"
  /\ Goto(t, "check")
  /\ UNCHANGED << state, wq, wqeVars, linked, mode, arg, wakeVars, notif >>

\* Faulty variant: wq_wait_final() leaves the wqe in the queue.
WaitDoneKeepsElem(t) ==
  /\ pc[t] = "check"
  /\ done[t]
  /\ Goto(t, "lock")
  /\ arg' = [arg EXCEPT ![t] = NoCv]
  /\ UNCHANGED << state, wq, wqeVars, linked, mode, wakeVars, notif >>

\* The end of the loop of wq_wait_final(): a wqe that is done leaves the
\* queue, and its thread retries the lock, a condvar waiter with the mode it
\* held the mutex for.  The wqe goes out of scope.
WaitDone(t) ==
  /\ pc[t] = "check"
  /\ done[t]
  /\ \E i \in DOMAIN wq : wq[i] = t /\ wq' = RemoveAt(wq, i)
  /\ done' = [done EXCEPT ![t] = FALSE]
  /\ wait_read' = [wait_read EXCEPT ![t] = FALSE]
  /\ Goto(t, "lock")
  /\ arg' = [arg EXCEPT ![t] = NoCv]
  /\ UNCHANGED << state, cv, linked, mode, wakeVars, notif >>

WaitAgain(t) ==
  /\ pc[t] = "check"
  /\ ~done[t]
  /\ Goto(t, "sleep")
  /\ UNCHANGED << state, wq, wqeVars, linked, mode, arg, wakeVars, notif >>

-----------------------------------------------------------------------------
(* Condition variables *)

\* Faulty variant: condvar_wait() does not store the mutex in the condvar.
CondvarLinkForgotten(t, c) ==
  /\ pc[t] = "hold"
  /\ arg' = [arg EXCEPT ![t] = c]
  /\ Goto(t, "cvwait")
  /\ UNCHANGED << state, wq, wqeVars, linked, mode, wakeVars, notif >>

CondvarLink(t, c) ==
  /\ pc[t] = "hold"
  /\ linked' = [linked EXCEPT ![c] = TRUE]
  /\ arg' = [arg EXCEPT ![t] = c]
  /\ Goto(t, "cvwait")
  /\ UNCHANGED << state, wq, wqeVars, mode, wakeVars, notif >>

\* Faulty variant: condvar_wait() frees the mutex and wakes no one.
CondvarEnqueueNoWake(t) ==
  /\ pc[t] = "cvwait"
  /\ state # 0
  /\ WaitInit(t, arg[t], state > 0)
  /\ mode' = [mode EXCEPT ![t] = IF state > 0 THEN "read" ELSE "write"]
  /\ state' = IF state > 1 THEN state - 1 ELSE 0
  /\ Goto(t, "sleep")
  /\ UNCHANGED << linked, arg, wakeVars, notif >>

CondvarEnqueue(t) ==
  /\ pc[t] = "cvwait"
  /\ state # 0                                   \* else panic()
  /\ WaitInit(t, arg[t], state > 0)
  /\ mode' = [mode EXCEPT ![t] = IF state > 0 THEN "read" ELSE "write"]
  /\ state' = IF state > 1 THEN state - 1 ELSE 0
  /\ Goto(t, IF state' = 0 THEN "wake" ELSE "sleep")
  /\ UNCHANGED << linked, arg, wakeVars, notif >>

\* condvar_signal() or condvar_broadcast() by a thread that holds the mutex,
\* as every caller in the core does.
Signal(t, c) ==
  /\ pc[t] = "hold"
  /\ arg' = [arg EXCEPT ![t] = c]
  /\ Goto(t, "signal")
  /\ UNCHANGED << state, wq, wqeVars, linked, mode, wakeVars, notif >>

\* cv_signal() reads cv->m; a condvar nobody ever waited on has none.
SignalRead(t) ==
  /\ pc[t] = "signal"
  /\ IF linked[arg[t]]
     THEN Goto(t, "promote") /\ UNCHANGED arg
     ELSE Goto(t, "hold") /\ arg' = [arg EXCEPT ![t] = NoCv]
  /\ UNCHANGED << state, wq, wqeVars, linked, mode, wakeVars, notif >>

\* wq_promote_condvar(): the first waiter of the condvar, or all of them,
\* become active waiters.  It wakes no one: the unlock that follows does.
Promote(t, only_one) ==
  /\ pc[t] = "promote"
  /\ LET W == {i \in DOMAIN wq : cv[wq[i]] = arg[t]}
         P == {i \in W : only_one => \A j \in W : i <= j}
     IN  cv' = [u \in Threads |->
                  IF \E i \in P : wq[i] = u THEN NoCv ELSE cv[u]]
  /\ arg' = [arg EXCEPT ![t] = NoCv]
  /\ Goto(t, "hold")
  /\ UNCHANGED << state, wq, done, wait_read, linked, mode, wakeVars, notif >>

-----------------------------------------------------------------------------

\* The steps a thread takes once it is inside a call, and the release of a
\* mutex that is held.
Progress(t) ==
  \/ Acquire(t) \/ Enqueue(t)
  \/ Unlock(t) \/ ReadUnlock(t)
  \/ WakeFirst(t) \/ WakeNone(t) \/ SendSync(t)
  \/ NotifWait(t) \/ WaitDone(t) \/ WaitAgain(t)
  \/ CondvarEnqueue(t) \/ SignalRead(t)
  \/ \E only_one \in BOOLEAN : Promote(t, only_one)

Call(t) ==
  \/ \E md \in Modes : Lock(t, md) \/ TryLock(t, md)
  \/ \E c \in Condvars : CondvarLink(t, c) \/ Signal(t, c)

Next == \E t \in Threads : Progress(t) \/ Call(t) \/ SpuriousWait(t)

Spec == Init /\ [][Next]_vars

\* Every thread inside a call runs on: the normal world scheduler resumes a
\* suspended thread, and a notification that was sent is delivered.  A new
\* call and a spurious return of notif_wait() are never owed.
Fairness == \A t \in Threads : WF_vars(Progress(t))

FairSpec == Spec /\ Fairness

-----------------------------------------------------------------------------

Readers == {t \in Threads : Holds(t) /\ mode[t] = "read"}
Writers == {t \in Threads : Holds(t) /\ mode[t] = "write"}

\* What each variable holds; m->state is never below the write lock's -1.
TypeOK ==
  /\ state \in Int /\ state >= -1
  /\ wq \in Seq(Threads)
  /\ done \in [Threads -> BOOLEAN]
  /\ wait_read \in [Threads -> BOOLEAN]
  /\ cv \in [Threads -> Condvars \cup {NoCv}]
  /\ linked \in [Condvars -> BOOLEAN]
  /\ pc \in [Threads -> Locations]
  /\ mode \in [Threads -> Modes]
  /\ arg \in [Threads -> Condvars \cup {NoCv}]
  /\ wake_type \in [Threads -> Modes \cup {"unset"}]
  /\ handle \in [Threads -> Threads]
  /\ notif \in [Threads -> BOOLEAN]

\* m->state is what mutex.h says of it, over every interleaving of locks,
\* try locks and condvar waits: write locked with one writer and no reader,
\* or the number of readers and no writer.  The panic()s of the unlock paths
\* on a wrong state are then never reached.
StateCountsHolders ==
  \/ /\ state = -1
     /\ Readers = {}
     /\ \E t \in Threads : Writers = {t}
  \/ /\ state = Cardinality(Readers)
     /\ Writers = {}

\* The comment of __mutex_lock(): "guarantee that we don't miss the wakeup
\* from mutex_unlock()".  While the mutex is free and an active waiter has
\* not been woken, some thread is about to wake the first waiter, or a woken
\* or a new thread is about to try the lock, and will wake it on unlock.
NoLostWakeup ==
  (state = 0 /\ \E t \in Threads : Queued(t) /\ cv[t] = NoCv /\ ~done[t])
    => \E u \in Threads :
         \/ pc[u] = "wake" /\ wake_type[u] = "unset"
         \/ Queued(u) /\ done[u]
         \/ pc[u] = "lock"

\* The wqe of a thread is in the queue only while its thread is in a wait (it
\* is on the stack of that thread), always while it sleeps, and only once; a
\* wake-up loop starts without a wake type.
QueueMatchesWaiters ==
  /\ \A t \in Threads : pc[t] \in {"sleep", "check"} => Queued(t)
  /\ \A t \in Threads :
       Queued(t) => pc[t] \in {"sleep", "check", "wake", "send"}
  /\ \A i, j \in DOMAIN wq : wq[i] = wq[j] => i = j
  /\ \A t \in Threads : pc[t] \notin {"wake", "send"} => wake_type[t] = "unset"

\* A condvar waiter leaves the queue only after a signal promoted it:
\* condvar_wait() never returns to a caller nobody signalled, whatever the
\* notifications normal world delivers.
CondvarWaitsForSignal ==
  \A t \in Threads : Queued(t) /\ done[t] => cv[t] = NoCv

\* The inductive invariant the theorems of MutexProofs rest on.
IInv ==
  /\ TypeOK
  /\ StateCountsHolders
  /\ QueueMatchesWaiters
  /\ CondvarWaitsForSignal
  /\ NoLostWakeup

-----------------------------------------------------------------------------
(* What the mutex and its condvars promise: module Monitor. *)

\* The phase of a thread in the monitor.  A condvar waiter is blocked from
\* the step that gives the mutex up until a signal promotes its wqe.
phase == [t \in Threads |->
            IF pc[t] \in {"hold", "cvwait"} THEN "in"
            ELSE IF pc[t] \in {"signal", "promote"} THEN "signal"
            ELSE IF pc[t] = "lock" \/ (Queued(t) /\ cv[t] = NoCv) THEN "want"
            ELSE IF Queued(t) THEN "blocked" ELSE "out"]

cond == [t \in Threads |-> IF phase[t] = "blocked" THEN cv[t]
                           ELSE IF phase[t] = "signal" THEN arg[t] ELSE NoCv]

M == INSTANCE Monitor WITH phase <- phase, mode <- mode, cond <- cond

\* Mutex, wait queue and condvars together implement a read/write monitor:
\* the mutex is granted to one writer or to readers only, condvar_wait()
\* gives it up and blocks in one step, and a signal is never lost: it takes
\* one blocked waiter (or all of them) back to wanting the mutex.
ImplementsMonitor == M!Spec

=============================================================================
