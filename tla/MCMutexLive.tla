---------------------------- MODULE MCMutexLive ----------------------------
(***************************************************************************)
(* Liveness of Mutex.  The mutex is not fair: a thread that keeps calling  *)
(* can overtake a waiter for ever.  So a behaviour makes at most MaxCalls  *)
(* calls, and every thread that waits must then be served.                 *)
(***************************************************************************)
EXTENDS Mutex

CONSTANT MaxCalls

VARIABLE calls    (* the calls made so far *)

liveVars == << vars, calls >>

LiveInit == Init /\ calls = 0

LiveNext ==
  \E t \in Threads :
    \/ Progress(t) /\ UNCHANGED calls
    \/ SpuriousWait(t) /\ UNCHANGED calls
    \/ calls < MaxCalls /\ Call(t) /\ calls' = calls + 1

LiveSpec ==
  /\ LiveInit /\ [][LiveNext]_liveVars
  /\ \A t \in Threads : WF_liveVars(Progress(t) /\ UNCHANGED calls)

Wants(t) == pc[t] = "lock" \/ (Queued(t) /\ cv[t] = NoCv)

\* A thread that waits in mutex_lock() or mutex_read_lock(), or was promoted
\* by a signal, gets the mutex: no interleaving of the unlocks, the wake-up
\* loop and the waiters coming and going strands one.
WaitersAreServed == \A t \in Threads : Wants(t) ~> Holds(t)

=============================================================================
