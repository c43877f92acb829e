------------------------------ MODULE Sessions ------------------------------
(***************************************************************************)
(* Sessions with trusted applications and the contexts (instances) behind  *)
(* them: core/kernel/tee_ta_manager.c, with the loading and freeing of     *)
(* user TAs of core/kernel/user_ta.c.                                      *)
(*                                                                         *)
(* One action is one critical section of tee_ta_mutex, up to its           *)
(* mutex_unlock() or condvar_wait(), or a stretch of code between two      *)
(* sections that reads what they write.  A thread carries a stack of calls *)
(* because a TA that is running opens, invokes and closes sessions of its  *)
(* own on the same thread.  Wake-ups are first come first served and need  *)
(* not be acted on before another thread gets the mutex, as module Monitor *)
(* says.                                                                   *)
(***************************************************************************)
EXTENDS Integers, FiniteSets, SequencesExt

CONSTANTS
  Threads,
  NoThread,        (* THREAD_ID_INVALID                                    *)
  Tas,             (* the uuids of the user TAs                            *)
  SingleInstance,  (* those with TA_FLAG_SINGLE_INSTANCE                   *)
  MultiSession,    (* ... TA_FLAG_MULTI_SESSION                            *)
  KeepAlive,       (* ... TA_FLAG_INSTANCE_KEEP_ALIVE                      *)
  Panicky,         (* those that may panic                                 *)
  ConcurrentSingle, (* CFG_CONCURRENT_SINGLE_INSTANCE_TA                   *)
  Opens,           (* pairs of TAs, the first of which opens the second    *)
  FreshIds,        (* TRUE: an id is not given out again while a call that *)
                   (* names it has not been served                         *)
  MaxSess, MaxCtx, (* the sessions and contexts there is memory for        *)
  MaxRecursion,    (* CFG_CORE_MAX_SYSCALL_RECURSION                       *)
  MaxCalls         (* bound: calls a thread makes, nested ones included    *)

ASSUME SessionsAssumption ==
  /\ IsFiniteSet(Threads) /\ NoThread \notin Threads
  /\ SingleInstance \subseteq Tas /\ MultiSession \subseteq Tas
  /\ KeepAlive \subseteq Tas /\ Panicky \subseteq Tas
  /\ Opens \subseteq Tas \X Tas /\ Tas # {}
  /\ ConcurrentSingle \in BOOLEAN /\ FreshIds \in BOOLEAN
  /\ {MaxSess, MaxCtx, MaxRecursion, MaxCalls} \subseteq Nat \ {0}

VARIABLES
  sess,       (* the sessions, by the memory they are in                   *)
  ctxs,       (* the contexts, likewise                                    *)
  tee_ctxes,  (* the list of contexts                                      *)
  single,     (* tee_ta_single_instance_thread and _count                  *)
  waitq,      (* the threads in condvar_wait(), in order, by condvar       *)
  stack,      (* the calls each thread is in                               *)
  calls,      (* how many more it may make                                 *)
  halted      (* the panic() or assert() of the core that was reached      *)

vars == << sess, ctxs, tee_ctxes, single, waitq, stack, calls, halted >>
tables == << sess, ctxs, tee_ctxes, single >>

SessIds == 1 .. MaxSess
CtxIds == 1 .. MaxCtx
NoSess == 0
NoCtx == 0
Nsec == 0    \* the list tee_open_sessions; a TA's list is named by its context

\* tee_ta_init_cv and tee_ta_single_instance_cv, busy_cv of a context, lock_cv
\* and refc_cv of a session.
InitCv == << "init", 0 >>
SingleCv == << "single", 0 >>
BusyCv(c) == << "busy", c >>
LockCv(s) == << "lock", s >>
RefcCv(s) == << "refc", s >>
Condvars == {InitCv, SingleCv} \cup {BusyCv(c) : c \in CtxIds}
              \cup {LockCv(s) : s \in SessIds} \cup {RefcCv(s) : s \in SessIds}

\* ctx is what the session runs in, own the list it is on.  The id of a
\* session is its place: an id is unique among those in use and may come back.
\* handed: its client was given the id, and has not asked to close it.
FreeSession ==
  [live |-> FALSE, own |-> Nsec, ctx |-> NoCtx, refs |-> 0,
   lock |-> NoThread, unlink |-> FALSE, handed |-> FALSE]

SingleFree == [thread |-> NoThread, count |-> 0]

\* The fields of a context are live, ta, refs, busy, panicked and init (the TA
\* is being loaded).  Those of a call are op, what it is, pc, s and c, its
\* session and context, ta, the TA asked for, own, the list of its session,
\* and res, how the TA answered, "dead" when it was not entered.  pc is
\*   "lookup"        init_session_with_context(): wait for a load
\*   "load", "loading"   tee_ta_init_user_ta_session()
\*   "fail"          init_session(): give the session back
\*   "opened"        open_session(): the session is set up
\*   "get", "getwait"    tee_ta_get_session()
\*   "got"           the session is locked, its context not looked at
\*   "busy"          tee_ta_try_set_busy()
\*   "run"           the TA runs in user mode
\*   "leave", "left" tee_ta_clear_busy() and after it
\*   "destroy"       destroy_ta_ctx_from_session()
\*   "unlink", "unlinkwait"   tee_ta_unlink_session()
\*   "dec"           close_session(): drop the context's reference
\*   "destroycv", "free"      destroy_context()
\*   "put"           tee_ta_put_session()

Init ==
  /\ sess = [s \in SessIds |-> FreeSession]
  /\ ctxs \in [CtxIds -> {[live |-> FALSE, ta |-> CHOOSE ta \in Tas : TRUE,
                           refs |-> 0, busy |-> FALSE, panicked |-> FALSE,
                           init |-> FALSE]}]
  /\ tee_ctxes = << >>
  /\ single = SingleFree
  /\ waitq = [cv \in Condvars |-> << >>]
  /\ stack = [t \in Threads |-> << >>]
  /\ calls = [t \in Threads |-> MaxCalls]
  /\ halted = "no"

-----------------------------------------------------------------------------
(* Threads *)

Waiting(t) == \E cv \in Condvars : t \in Range(waitq[cv])

\* condvar_wait(), condvar_signal(), condvar_broadcast() on the wait queue.
Enqueue(q, t, cv) == [q EXCEPT ![cv] = Append(@, t)]
Signal(q, cv) == [q EXCEPT ![cv] = IF @ = << >> THEN @ ELSE Tail(@)]
Broadcast(q, cv) == [q EXCEPT ![cv] = << >>]

Top(t) == Last(stack[t])
At(t, loc) == halted = "no" /\ stack[t] # << >> /\ Top(t).pc = loc /\ ~Waiting(t)

\* The call goes on as fr; it starts the call fr; it returns.
Become(t, fr) == stack' = [stack EXCEPT ![t] = Append(Front(@), fr)]
Push(t, fr) == stack' = [stack EXCEPT ![t] = Append(@, fr)]
Return(t) == stack' = [stack EXCEPT ![t] = Front(@)]
Goto(t, loc) == Become(t, [Top(t) EXCEPT !.pc = loc])

\* The calls of lock_single_instance() for the context c do something.
Single(c) == ctxs[c].ta \in SingleInstance /\ ~ConcurrentSingle
Listed(s, own) == sess[s].live /\ sess[s].own = own

\* The TAs entered on the thread and not left: tsd->syscall_recursion.
Depth(t) == Cardinality({i \in DOMAIN stack[t] : stack[t][i].pc = "run"})

\* A thread may make a call: a free one for normal world, one that runs a TA
\* for that TA.
Caller(t) == IF stack[t] = << >> THEN Nsec ELSE Top(t).c
MayCall(t) ==
  /\ halted = "no" /\ calls[t] > 0
  /\ stack[t] # << >> => Top(t).pc = "run" /\ Depth(t) <= MaxRecursion
Charge(t) == calls' = [calls EXCEPT ![t] = @ - 1]

-----------------------------------------------------------------------------
(* Opening a session *)

Least(S) == CHOOSE x \in S : \A y \in S : x <= y

\* Where the list has contexts of the TA.
Found(ta) == {i \in DOMAIN tee_ctxes : ctxs[tee_ctxes[i]].ta = ta}

\* Faulty variants: a loaded context is joined whoever uses it; it is joined
\* without being counted.
TakenNever(c) == FALSE
JoinedUncounted(c) == ctxs

Taken(c) == ctxs[c].ta \notin MultiSession /\ ctxs[c].refs # 0
Joined(c) == [ctxs EXCEPT ![c].refs = @ + 1]

\* tee_ta_init_session_with_context() for the call fr, whose session is on its
\* list already: it takes the loaded context, waits while that one is being
\* loaded, fails if it is busy, or has to load one.  (ss: the sessions, base:
\* the calls under fr.)
Lookup(t, base, fr, ss) ==
  LET c == tee_ctxes[Least(Found(fr.ta))]
      Go(loc) == stack' = [stack EXCEPT ![t] =
                             Append(base, [fr EXCEPT !.pc = loc])]
  IN
  IF Found(fr.ta) = {} \/ (~ctxs[c].init /\ fr.ta \notin SingleInstance)
  THEN Go("load") /\ sess' = ss /\ UNCHANGED << ctxs, waitq >>
  ELSE \/ /\ ctxs[c].init
          /\ waitq' = Enqueue(waitq, t, InitCv)
          /\ Go("lookup") /\ sess' = ss /\ UNCHANGED ctxs
       \/ /\ ~ctxs[c].init /\ Taken(c)
          /\ Go("fail") /\ sess' = ss /\ UNCHANGED << ctxs, waitq >>
       \/ /\ ~ctxs[c].init /\ ~Taken(c)
          /\ ctxs' = Joined(c)
          /\ sess' = [ss EXCEPT ![fr.s].ctx = c]
          /\ Go("opened") /\ UNCHANGED waitq

\* new_session_id() only avoids the ids that are on the list.
Named == UNION {{fr.s : fr \in Range(stack[t])} : t \in Threads}
FreeSlots ==
  {s \in SessIds : ~sess[s].live /\ (FreshIds => s \notin Named)}

\* tee_ta_open_session(): tee_ta_init_session() lists a new session, with one
\* reference, and looks for the context in the same section.
Open(t, ta) ==
  /\ MayCall(t) /\ Charge(t)
  /\ Caller(t) # Nsec => << ctxs[Caller(t)].ta, ta >> \in Opens
  /\ FreeSlots # {}
  /\ LET s == Least(FreeSlots)
         fr == [op |-> "open", pc |-> "lookup", s |-> s, c |-> NoCtx,
                ta |-> ta, own |-> Caller(t), res |-> "ok"]
     IN Lookup(t, stack[t], fr,
               [sess EXCEPT ![s] = [FreeSession EXCEPT !.live = TRUE,
                                                       !.own = fr.own,
                                                       !.refs = 1]])
  /\ UNCHANGED << tee_ctxes, single, halted >>

\* ... or fails for want of memory.
OpenNoMemory(t) ==
  /\ MayCall(t) /\ Charge(t)
  /\ FreeSlots = {}
  /\ UNCHANGED << tables, waitq, stack, halted >>

\* The load that was waited for is over: look again.
LookupAgain(t) ==
  /\ At(t, "lookup")
  /\ Lookup(t, Front(stack[t]), Top(t), sess)
  /\ UNCHANGED << tee_ctxes, single, calls, halted >>

\* tee_ta_init_user_ta_session(): a new context, listed while it is loaded.
Load(t) ==
  /\ At(t, "load")
  /\ LET free == {c \in CtxIds : ~ctxs[c].live}
         c == Least(free)
     IN /\ free # {}
        /\ ctxs' = [ctxs EXCEPT ![c] =
                      [live |-> TRUE, ta |-> Top(t).ta, refs |-> 1,
                       busy |-> FALSE, panicked |-> FALSE, init |-> TRUE]]
        /\ sess' = [sess EXCEPT ![Top(t).s].ctx = c]
        /\ tee_ctxes' = Append(tee_ctxes, c)
        /\ Become(t, [Top(t) EXCEPT !.pc = "loading", !.c = c])
  /\ UNCHANGED << single, waitq, calls, halted >>

\* ... or no memory for one.
LoadNoMemory(t) ==
  /\ At(t, "load")
  /\ Goto(t, "fail")
  /\ UNCHANGED << tables, waitq, calls, halted >>

Loaded(t) ==
  /\ At(t, "loading")
  /\ ctxs' = [ctxs EXCEPT ![Top(t).c].init = FALSE]
  /\ waitq' = Broadcast(waitq, InitCv)
  /\ Goto(t, "opened")
  /\ UNCHANGED << sess, tee_ctxes, single, calls, halted >>

\* Faulty variant: the session keeps the context that was not loaded.
LoadFailsKept(t) ==
  /\ At(t, "loading")
  /\ LET fr == Top(t) IN
     /\ ctxs' = [ctxs EXCEPT ![fr.c].live = FALSE]
     /\ tee_ctxes' = RemoveFirst(tee_ctxes, fr.c)
     /\ Become(t, [fr EXCEPT !.pc = "fail", !.c = NoCtx])
  /\ waitq' = Broadcast(waitq, InitCv)
  /\ UNCHANGED << sess, single, calls, halted >>

\* ldelf failed: the context is taken off the list and freed.
LoadFails(t) ==
  /\ At(t, "loading")
  /\ LET fr == Top(t) IN
     /\ ctxs' = [ctxs EXCEPT ![fr.c].live = FALSE]
     /\ sess' = [sess EXCEPT ![fr.s].ctx = NoCtx]
     /\ tee_ctxes' = RemoveFirst(tee_ctxes, fr.c)
     /\ Become(t, [fr EXCEPT !.pc = "fail", !.c = NoCtx])
  /\ waitq' = Broadcast(waitq, InitCv)
  /\ UNCHANGED << single, calls, halted >>

\* The end of tee_ta_init_session() on a failure.
OpenFails(t) ==
  /\ At(t, "fail")
  /\ sess' = [sess EXCEPT ![Top(t).s] = FreeSession]
  /\ Return(t)
  /\ UNCHANGED << ctxs, tee_ctxes, single, waitq, calls, halted >>

\* tee_ta_open_session() looks at the context without the mutex.  A session
\* whose context is gone or has panicked is closed, and the call is over.
Opened(t) ==
  /\ At(t, "opened")
  /\ LET fr == Top(t)
         c == sess[fr.s].ctx
     IN IF c = NoCtx \/ ctxs[c].panicked
        THEN Become(t, [fr EXCEPT !.op = "close", !.pc = "get", !.c = NoCtx])
        ELSE Become(t, [fr EXCEPT !.pc = "busy", !.c = c])
  /\ UNCHANGED << tables, waitq, calls, halted >>

-----------------------------------------------------------------------------
(* Entering a TA *)

\* Going by the context c alone is wrong for a thread that has the
\* single-instance lock: waiting with it held would be for ever.
HasLock(t, c) == Single(c) \/ single.thread = t

\* lock_single_instance() waits, or the loop on ctx->busy does.
SingleLockTaken(t, c) == Single(c) /\ single.thread \notin {NoThread, t}
MustWait(t, c) == ~HasLock(t, c) /\ ctxs[c].busy

SetBusyWait(t) ==
  /\ At(t, "busy")
  /\ LET c == Top(t).c IN
     \/ SingleLockTaken(t, c) /\ waitq' = Enqueue(waitq, t, SingleCv)
     \/ MustWait(t, c) /\ waitq' = Enqueue(waitq, t, BusyCv(c))
  /\ UNCHANGED << tables, stack, calls, halted >>

\* Faulty variant: ctx->busy is not looked at.
SetBusyAnyway(t) ==
  /\ At(t, "busy")
  /\ LET c == Top(t).c IN
     /\ ~SingleLockTaken(t, c)
     /\ ctxs' = [ctxs EXCEPT ![c].busy = TRUE]
     /\ single' = IF Single(c) THEN [thread |-> t, count |-> single.count + 1]
                               ELSE single
  /\ Goto(t, "run")
  /\ UNCHANGED << sess, tee_ctxes, waitq, calls, halted >>

\* tee_ta_try_set_busy() and, on success, the entry in user mode.  The
\* recursion limit of user_ta_enter() is at TaReturns.
SetBusy(t) ==
  /\ At(t, "busy")
  /\ LET c == Top(t).c IN
     /\ ~SingleLockTaken(t, c) /\ ~ctxs[c].busy
     /\ ctxs' = [ctxs EXCEPT ![c].busy = TRUE]
     /\ single' = IF Single(c) THEN [thread |-> t, count |-> single.count + 1]
                               ELSE single
  /\ Goto(t, "run")
  /\ UNCHANGED << sess, tee_ctxes, waitq, calls, halted >>

\* It refuses: a thread that has the single-instance lock finds the TA busy.
\* To open a session fails, to invoke or close one panics (tee_ta_set_busy()).
SetBusyRefuses(t) ==
  /\ At(t, "busy")
  /\ LET c == Top(t).c IN
     /\ ~SingleLockTaken(t, c) /\ HasLock(t, c) /\ ctxs[c].busy
     /\ waitq' = IF Single(c) /\ single.thread = NoThread
                 THEN Signal(waitq, SingleCv) ELSE waitq
  /\ IF Top(t).op = "open"
     THEN /\ Become(t, [Top(t) EXCEPT !.pc = "left", !.res = "dead"])
          /\ UNCHANGED halted
     ELSE halted' = "busy" /\ UNCHANGED stack
  /\ UNCHANGED << tables, calls >>

\* What follows the TA: destroy_session() if it was entered to close.
AfterRun(fr) == IF fr.op = "close" THEN "unlink" ELSE "leave"

\* The TA answers.  At the limit of the recursion it was not entered at all.
TaReturns(t) ==
  /\ At(t, "run")
  /\ \E res \in {"ok", "err"} :
       /\ Depth(t) > MaxRecursion \/ Top(t).op # "open" => res = "err"
       /\ Become(t, [Top(t) EXCEPT !.pc = AfterRun(Top(t)), !.res = res])
  /\ UNCHANGED << tables, waitq, calls, halted >>

TaPanics(t) ==
  /\ At(t, "run")
  /\ Depth(t) <= MaxRecursion
  /\ ctxs[Top(t).c].ta \in Panicky
  /\ ctxs' = [ctxs EXCEPT ![Top(t).c].panicked = TRUE]
  /\ Become(t, [Top(t) EXCEPT !.pc = AfterRun(Top(t)), !.res = "err"])
  /\ UNCHANGED << sess, tee_ctxes, single, waitq, calls, halted >>

\* Faulty variant: the lock is given up although calls are left that took it.
UnlockOuter(c) == IF Single(c) THEN SingleFree ELSE single

UnlockSingle(c) ==
  IF ~Single(c) THEN single
  ELSE IF single.count = 1 THEN SingleFree
  ELSE [single EXCEPT !.count = @ - 1]

\* tee_ta_clear_busy(), with unlock_single_instance().
ClearBusy(t) ==
  /\ At(t, "leave")
  /\ LET c == Top(t).c
         q == Signal(waitq, BusyCv(c))
     IN /\ ctxs' = [ctxs EXCEPT ![c].busy = FALSE]
        /\ single' = UnlockSingle(c)
        /\ waitq' = IF single # SingleFree /\ single' = SingleFree
                    THEN Signal(q, SingleCv) ELSE q
  /\ Goto(t, IF Top(t).op = "close" THEN "dec" ELSE "left")
  /\ UNCHANGED << sess, tee_ctxes, calls, halted >>

\* The callers look at ctx->panicked, without the mutex.
Left(t) ==
  /\ At(t, "left")
  /\ LET fr == Top(t)
         dead == ctxs[fr.c].panicked
     IN IF fr.op = "open"
        THEN Become(t, [fr EXCEPT !.pc = "put",
                                  !.res = IF dead THEN "dead" ELSE @])
        ELSE Goto(t, IF dead THEN "destroy" ELSE "put")
  /\ UNCHANGED << tables, waitq, calls, halted >>

-----------------------------------------------------------------------------
(* References to sessions, and their lock *)

\* ref_count-- of the session s, and the signal to one that unlinks it.
DecRef(ss, s) == [ss EXCEPT ![s].refs = @ - 1]
SignalRefc(q, ss, s) == IF ss[s].refs = 1 THEN Signal(q, RefcCv(s)) ELSE q

\* An invocation, a cancellation or a close of a session whose id the client
\* was given.  Closing takes the id from the client.
Use(t, op, s) ==
  /\ MayCall(t) /\ Charge(t)
  /\ Listed(s, Caller(t)) /\ sess[s].handed
  /\ op = "cancel" => Caller(t) = Nsec
  /\ sess' = IF op = "close" THEN [sess EXCEPT ![s].handed = FALSE] ELSE sess
  /\ Push(t, [op |-> op, pc |-> "get", s |-> s, c |-> NoCtx,
              ta |-> CHOOSE ta \in Tas : TRUE, own |-> Caller(t),
              res |-> "ok"])
  /\ UNCHANGED << ctxs, tee_ctxes, single, waitq, halted >>

\* tee_ta_get_session(): not found, or about to go.
GetNothing(t) ==
  /\ At(t, "get")
  /\ ~Listed(Top(t).s, Top(t).own) \/ sess[Top(t).s].unlink
  /\ Return(t)
  /\ UNCHANGED << tables, waitq, calls, halted >>

\* A reference, and for all but a cancellation the lock, which may have to be
\* waited for.  A cancellation sets a flag and puts the session back.
Get(t) ==
  /\ At(t, "get")
  /\ Listed(Top(t).s, Top(t).own) /\ ~sess[Top(t).s].unlink
  /\ LET s == Top(t).s
         ss == [sess EXCEPT ![s].refs = @ + 1]
     IN \/ /\ Top(t).op = "cancel"
           /\ sess' = ss /\ Goto(t, "put") /\ UNCHANGED waitq
        \/ /\ Top(t).op # "cancel" /\ sess[s].lock = NoThread
           /\ sess' = [ss EXCEPT ![s].lock = t]
           /\ Goto(t, "got") /\ UNCHANGED waitq
        \/ /\ Top(t).op # "cancel" /\ sess[s].lock # NoThread
           /\ sess' = ss /\ Goto(t, "getwait")
           /\ waitq' = Enqueue(waitq, t, LockCv(s))
  /\ UNCHANGED << ctxs, tee_ctxes, single, calls, halted >>

\* Faulty variants: a woken thread takes the lock without looking at it again;
\* it gives up and keeps its reference.
GetAgainTakes(t) ==
  /\ At(t, "getwait")
  /\ LET s == Top(t).s IN
     \/ /\ sess[s].unlink
        /\ sess' = DecRef(sess, s)
        /\ waitq' = SignalRefc(waitq, sess', s)
        /\ Return(t)
     \/ /\ ~sess[s].unlink
        /\ sess' = [sess EXCEPT ![s].lock = t]
        /\ Goto(t, "got") /\ UNCHANGED waitq
  /\ UNCHANGED << ctxs, tee_ctxes, single, calls, halted >>

GetAgainKeeps(t) ==
  /\ At(t, "getwait")
  /\ LET s == Top(t).s IN
     \/ /\ sess[s].unlink
        /\ Return(t) /\ UNCHANGED << sess, waitq >>
     \/ /\ ~sess[s].unlink /\ sess[s].lock = NoThread
        /\ sess' = [sess EXCEPT ![s].lock = t]
        /\ Goto(t, "got") /\ UNCHANGED waitq
     \/ /\ ~sess[s].unlink /\ sess[s].lock # NoThread
        /\ waitq' = Enqueue(waitq, t, LockCv(s))
        /\ UNCHANGED << sess, stack >>
  /\ UNCHANGED << ctxs, tee_ctxes, single, calls, halted >>

\* Woken from the wait for the lock.
GetAgain(t) ==
  /\ At(t, "getwait")
  /\ LET s == Top(t).s IN
     \/ /\ sess[s].unlink
        /\ sess' = DecRef(sess, s)
        /\ waitq' = SignalRefc(waitq, sess', s)
        /\ Return(t)
     \/ /\ ~sess[s].unlink /\ sess[s].lock = NoThread
        /\ sess' = [sess EXCEPT ![s].lock = t]
        /\ Goto(t, "got") /\ UNCHANGED waitq
     \/ /\ ~sess[s].unlink /\ sess[s].lock # NoThread
        /\ waitq' = Enqueue(waitq, t, LockCv(s))
        /\ UNCHANGED << sess, stack >>
  /\ UNCHANGED << ctxs, tee_ctxes, single, calls, halted >>

\* tee_ta_put_session().  The end of the call, but an open session is handed
\* to its client, or closed again if opening failed.
Put(t) ==
  /\ At(t, "put")
  /\ LET fr == Top(t)
         s == fr.s
         mine == sess[s].lock = t
         opened == fr.op = "open" /\ fr.res = "ok"
         ss == DecRef(IF mine THEN [sess EXCEPT ![s].lock = NoThread]
                              ELSE sess, s)
     IN /\ sess' = [ss EXCEPT ![s].handed = @ \/ opened]
        /\ waitq' = SignalRefc(IF mine THEN Signal(waitq, LockCv(s))
                               ELSE waitq, ss, s)
        /\ IF fr.op = "open" /\ ~opened
           THEN Become(t, [fr EXCEPT !.op = "close", !.pc = "get", !.c = NoCtx])
           ELSE Return(t)
  /\ UNCHANGED << ctxs, tee_ctxes, single, calls, halted >>

\* Faulty variant: ctx->panicked is not looked at.
GotAnyway(t) ==
  /\ At(t, "got")
  /\ LET fr == Top(t)
         c == sess[fr.s].ctx
         closing == fr.op = "close"
     IN Become(t, [fr EXCEPT !.c = c, !.res = "dead",
            !.pc = IF c # NoCtx THEN "busy"
                   ELSE IF closing THEN "unlink" ELSE "put"])
  /\ UNCHANGED << tables, waitq, calls, halted >>

\* tee_ta_invoke_command() and tee_ta_close_session() look at the context of
\* the session they have locked, without the mutex.
Got(t) ==
  /\ At(t, "got")
  /\ LET fr == Top(t)
         c == sess[fr.s].ctx
         closing == fr.op = "close"
     IN Become(t, [fr EXCEPT !.c = c, !.res = "dead",
            !.pc = IF c = NoCtx THEN (IF closing THEN "unlink" ELSE "put")
                   ELSE IF ctxs[c].panicked
                        THEN (IF closing THEN "unlink" ELSE "destroy")
                   ELSE "busy"])
  /\ UNCHANGED << tables, waitq, calls, halted >>

-----------------------------------------------------------------------------
(* Closing sessions and freeing contexts *)

\* The end of tee_ta_unlink_session() once the closer has the last reference,
\* with free(): a session without context is done with, one whose TA was
\* entered leaves it, the reference on the others is dropped.
Removed(t, ss) ==
  LET fr == Top(t) IN
  /\ sess' = [ss EXCEPT ![fr.s] = FreeSession]
  /\ IF fr.c = NoCtx THEN Return(t)
     ELSE Goto(t, IF fr.res = "dead" THEN "dec" ELSE "leave")

\* Faulty variant: who waits for the lock of the session is not told.
UnlinkSilent(t) ==
  /\ At(t, "unlink")
  /\ LET s == Top(t).s
         ss == [sess EXCEPT ![s].unlink = TRUE]
     IN IF sess[s].refs = 1
        THEN Removed(t, ss) /\ UNCHANGED waitq
        ELSE /\ sess' = ss /\ Goto(t, "unlinkwait")
             /\ waitq' = Enqueue(waitq, t, RefcCv(s))
  /\ UNCHANGED << ctxs, tee_ctxes, single, calls, halted >>

\* tee_ta_unlink_session(): who waits for the lock is told, and the closer
\* waits until it has the only reference.
Unlink(t) ==
  /\ At(t, "unlink")
  /\ LET s == Top(t).s
         ss == [sess EXCEPT ![s].unlink = TRUE]
         q == Broadcast(waitq, LockCv(s))
     IN IF sess[s].refs = 1
        THEN Removed(t, ss) /\ waitq' = q
        ELSE /\ sess' = ss /\ Goto(t, "unlinkwait")
             /\ waitq' = Enqueue(q, t, RefcCv(s))
  /\ UNCHANGED << ctxs, tee_ctxes, single, calls, halted >>

UnlinkAgain(t) ==
  /\ At(t, "unlinkwait")
  /\ IF sess[Top(t).s].refs = 1
     THEN Removed(t, sess) /\ UNCHANGED waitq
     ELSE /\ waitq' = Enqueue(waitq, t, RefcCv(Top(t).s))
          /\ UNCHANGED << sess, stack >>
  /\ UNCHANGED << ctxs, tee_ctxes, single, calls, halted >>

Kept(c) == ctxs[c].ta \in KeepAlive \cap SingleInstance

\* The last section of tee_ta_close_session(): the last session with a TA
\* that is not kept takes the context off the list.
DropContext(t) ==
  /\ At(t, "dec")
  /\ LET c == Top(t).c
         last == ctxs[c].refs = 1 /\ ~Kept(c)
     IN IF ctxs[c].refs = 0
        THEN halted' = "ref" /\ UNCHANGED << ctxs, tee_ctxes, stack >>
        ELSE /\ ctxs' = [ctxs EXCEPT ![c].refs = @ - 1]
             /\ tee_ctxes' = IF last THEN RemoveFirst(tee_ctxes, c) ELSE tee_ctxes
             /\ IF last THEN Goto(t, "destroycv") ELSE Return(t)
             /\ UNCHANGED halted
  /\ UNCHANGED << sess, single, waitq, calls >>

\* destroy_ta_ctx_from_session() for a TA that has panicked: the other
\* sessions in the context, on the list of normal world and on those of the
\* loaded TAs, lose it, and their number has to match its count.
DestroyContext(t) ==
  /\ At(t, "destroy")
  /\ LET s == Top(t).s
         c == sess[s].ctx
         others == {o \in SessIds \ {s} :
                      /\ sess[o].live /\ sess[o].ctx = c
                      /\ sess[o].own \in {Nsec} \cup Range(tee_ctxes)}
         reason == IF c = NoCtx THEN "context"
                   ELSE IF Cardinality(others) + 1 # ctxs[c].refs THEN "count"
                   ELSE "no"
     IN IF reason # "no"
        THEN halted' = reason /\ UNCHANGED << sess, tee_ctxes, stack >>
        ELSE /\ sess' = [o \in SessIds |->
                           IF o \in others THEN [sess[o] EXCEPT !.ctx = NoCtx]
                                           ELSE sess[o]]
             /\ tee_ctxes' = RemoveFirst(tee_ctxes, c)
             /\ Become(t, [Top(t) EXCEPT !.pc = "destroycv", !.c = c])
             /\ UNCHANGED halted
  /\ UNCHANGED << ctxs, single, waitq, calls >>

\* destroy_context(): condvar_destroy() panics if a thread waits for the TA.
DestroyCondvar(t) ==
  /\ At(t, "destroycv")
  /\ IF waitq[BusyCv(Top(t).c)] # << >>
     THEN halted' = "condvar" /\ UNCHANGED stack
     ELSE Goto(t, "free") /\ UNCHANGED halted
  /\ UNCHANGED << tables, waitq, calls >>

\* free_utc() closes the sessions the TA has left open, one after the other,
\* on this thread ...
FreeCloses(t) ==
  /\ At(t, "free")
  /\ \E s \in SessIds :
       /\ Listed(s, Top(t).c)
       /\ sess' = [sess EXCEPT ![s].handed = FALSE]
       /\ Push(t, [op |-> "close", pc |-> "get", s |-> s, c |-> NoCtx,
                   ta |-> ctxs[Top(t).c].ta, own |-> Top(t).c, res |-> "ok"])
  /\ UNCHANGED << ctxs, tee_ctxes, single, waitq, calls, halted >>

\* ... and frees the context.
FreeContext(t) ==
  /\ At(t, "free")
  /\ LET fr == Top(t) IN
     /\ \A s \in SessIds : ~Listed(s, fr.c)
     /\ ctxs' = [ctxs EXCEPT ![fr.c].live = FALSE]
     /\ IF fr.op = "close" THEN Return(t) /\ UNCHANGED sess
        ELSE /\ sess' = [sess EXCEPT ![fr.s].ctx = NoCtx]
             /\ Become(t, [fr EXCEPT !.pc = "put", !.c = NoCtx])
  /\ UNCHANGED << tee_ctxes, single, waitq, calls, halted >>

-----------------------------------------------------------------------------
NewCall(t) ==
  \/ \E ta \in Tas : Open(t, ta)
  \/ OpenNoMemory(t)
  \/ \E s \in SessIds, op \in {"invoke", "close", "cancel"} : Use(t, op, s)

OpenStep(t) ==
  \/ LookupAgain(t) \/ Load(t) \/ LoadNoMemory(t) \/ Loaded(t) \/ LoadFails(t)
  \/ OpenFails(t) \/ Opened(t)

EnterStep(t) ==
  \/ SetBusyWait(t) \/ SetBusy(t) \/ SetBusyRefuses(t)
  \/ TaReturns(t) \/ TaPanics(t) \/ ClearBusy(t) \/ Left(t)

SessionStep(t) ==
  \/ GetNothing(t) \/ Get(t) \/ GetAgain(t) \/ Got(t) \/ Put(t)
  \/ Unlink(t) \/ UnlinkAgain(t)

ContextStep(t) ==
  \/ DropContext(t) \/ DestroyContext(t) \/ DestroyCondvar(t)
  \/ FreeCloses(t) \/ FreeContext(t)

Step(t) == OpenStep(t) \/ EnterStep(t) \/ SessionStep(t) \/ ContextStep(t)

Next == \E t \in Threads : NewCall(t) \/ Step(t)

Spec == Init /\ [][Next]_vars

\* A thread that can run is run, and a TA that was entered answers.
FairSpec == Spec /\ \A t \in Threads : WF_vars(Step(t))

-----------------------------------------------------------------------------
(* Properties *)

Frames == UNION {{t} \X DOMAIN stack[t] : t \in Threads}
Frame(f) == stack[f[1]][f[2]]
Count(P(_)) == Cardinality({f \in Frames : P(Frame(f))})

\* The calls that hold a reference to their session: the one that opens it
\* until it puts it or gives it back, the others from get to put.
HoldsRef(fr) ==
  CASE fr.op = "open" -> TRUE
    [] fr.op = "invoke" -> fr.pc # "get"
    [] fr.op = "cancel" -> fr.pc = "put"
    [] fr.op = "close" -> fr.pc \in {"getwait", "got", "busy", "run",
                                     "unlink", "unlinkwait"}

\* The references of a session are those of the calls that use it: none is
\* lost, which would leave a close waiting for ever, or put twice, which would
\* free the session under another call.
RefsCounted ==
  /\ \A s \in SessIds :
       sess[s].live => sess[s].refs = Count(LAMBDA fr : fr.s = s /\ HoldsRef(fr))
  /\ \A f \in Frames : HoldsRef(Frame(f)) => Listed(Frame(f).s, Frame(f).own)

HoldsLock(fr) ==
  fr.op \in {"invoke", "close"} /\ HoldsRef(fr) /\ fr.pc # "getwait"

\* A session is used by one call at a time, and the thread in lock_thread is
\* the one that makes it.
OneCallPerSession ==
  \A s \in SessIds :
    LET users == {f \in Frames : Frame(f).s = s /\ HoldsLock(Frame(f))} IN
    IF sess[s].lock = NoThread THEN users = {}
    ELSE \E f \in users : users = {f} /\ f[1] = sess[s].lock

\* The calls between try_set_busy() and clear_busy().
InTa(fr) ==
  \/ fr.pc \in {"run", "leave"}
  \/ fr.pc \in {"unlink", "unlinkwait"} /\ fr.res # "dead"

\* A TA has at most one call in it, and is busy exactly then.
OneCallPerTa ==
  \A c \in CtxIds :
    ctxs[c].live =>
      Count(LAMBDA fr : fr.c = c /\ InTa(fr)) = IF ctxs[c].busy THEN 1 ELSE 0

\* The single-instance lock counts the calls its thread has in single-instance
\* TAs, and no other thread has any: it is free again when they are left.
SingleLockCounted ==
  \A t \in Threads :
    Cardinality({f \in Frames : /\ f[1] = t /\ InTa(Frame(f))
                                /\ Single(Frame(f).c)})
      = IF single.thread = t THEN single.count ELSE 0

\* The count of a listed context is the number of sessions in it, and of the
\* calls that have unlinked theirs and are about to drop it.
ContextRefsCounted ==
  \A c \in Range(tee_ctxes) :
    ctxs[c].refs = Cardinality({s \in SessIds : sess[s].live /\ sess[s].ctx = c})
                   + Count(LAMBDA fr : /\ fr.op = "close" /\ fr.c = c
                                       /\ fr.pc \in {"leave", "dec"})

\* No call works with a context that was freed, and no session is left in one.
NoStaleContext ==
  /\ \A f \in Frames : Frame(f).c # NoCtx => ctxs[Frame(f).c].live
  /\ \A s \in SessIds : sess[s].live /\ sess[s].ctx # NoCtx
                          => ctxs[sess[s].ctx].live

\* Neither the assertion on the count of a context nor a panic() is reached:
\* no TA that would be waited for is entered by set_busy(), no context is
\* dropped more often than it was taken or destroyed under a waiting thread.
NoCorePanic == halted = "no"

\* At most one instance of a single-instance TA is loaded, as the wait for
\* tee_ta_init_cv is for.
OneInstance ==
  \A c, d \in Range(tee_ctxes) :
    ctxs[c].ta = ctxs[d].ta /\ ctxs[c].ta \in SingleInstance => c = d

\* A TA that has panicked is not entered again: what a thread saw of
\* ctx->panicked still holds when it has set the TA busy.
NoEntryAfterPanic ==
  [][\A t \in Threads : SetBusy(t) => ~ctxs[Top(t).c].panicked]_vars

\* Every call to open, invoke, close or cancel returns: no thread is left in
\* one of the waits of the manager.
CallsReturn == \A t \in Threads : []<>(stack[t] = << >>)

=============================================================================
