---------------------------- MODULE ThreadPool ----------------------------
(***************************************************************************)
(* The pool of OP-TEE threads and the cores that run them:                 *)
(* core/arch/arm/kernel/thread.c, core/kernel/thread.c and the entry and   *)
(* exit code of thread_optee_smc_a64.S and thread_a64.S.                   *)
(*                                                                         *)
(* Normal world starts threads by standard SMCs and resumes suspended ones *)
(* on any core, at any time and by any number it likes.  One action is one *)
(* critical section of thread_global_lock, or the steps a core takes with  *)
(* all exceptions masked between that section and the thread's code.       *)
(***************************************************************************)
EXTENDS Integers, FiniteSets

CONSTANTS
  Cores,         (* the cores of the system                                *)
  NumThreads,    (* CFG_NUM_THREADS                                        *)
  UserMaps,      (* the user mode mappings a thread can activate           *)
  NoMap          (* no user mode mapping                                   *)

ASSUME ThreadPoolAssumption ==
  /\ NumThreads \in Nat \ {0}
  /\ NoMap \notin UserMaps

ThreadIds == 0 .. NumThreads - 1
Invalid == -1                            (* THREAD_ID_INVALID              *)
Maps == UserMaps \cup {NoMap}

Flags == { "COPY_ARGS_ON_RETURN", "EXIT_ON_FOREIGN_INTR" }

VARIABLES
  tstate,        (* threads[n].state                                       *)
  flags,         (* threads[n].flags, the two that say how it left         *)
  have_user_map, (* threads[n].have_user_map                               *)
  user_map,      (* threads[n].user_map                                    *)
  regs,          (* who wrote the argument registers of threads[n].regs:   *)
                 (* the thread itself ("own") or normal world ("nsec")     *)
  curr_thread,   (* l->curr_thread of each core                            *)
  pc,            (* what each core is doing                                *)
  n,             (* the thread a core claimed and is about to enter        *)
  active_map,    (* the user mapping installed in each core                *)
  left,          (* history: how the thread last left its core             *)
  mapping        (* history: the mapping the thread's code activated last  *)

threadVars == << tstate, flags, have_user_map, user_map, regs >>
coreVars   == << curr_thread, pc, n, active_map >>
vars == << tstate, flags, have_user_map, user_map, regs,
           curr_thread, pc, n, active_map, left, mapping >>

\* Where a core is: in normal world, entering a new or a resumed thread it
\* has claimed, or running the code of its current thread.
Places == {"normal", "alloc", "resume", "run"}

\* After thread_clr_boot_thread(): every thread is free.
Init ==
  /\ tstate = [t \in ThreadIds |-> "FREE"]
  /\ flags = [t \in ThreadIds |-> {}]
  /\ have_user_map = [t \in ThreadIds |-> FALSE]
  /\ user_map = [t \in ThreadIds |-> NoMap]
  /\ regs = [t \in ThreadIds |-> "own"]
  /\ curr_thread = [c \in Cores |-> Invalid]
  /\ pc = [c \in Cores |-> "normal"]
  /\ n = [c \in Cores |-> Invalid]
  /\ active_map = [c \in Cores |-> NoMap]
  /\ left = [t \in ThreadIds |-> "none"]
  /\ mapping = [t \in ThreadIds |-> NoMap]

-----------------------------------------------------------------------------
(* Entering a thread *)

Free == {t \in ThreadIds : tstate[t] = "FREE"}

\* Faulty variant: found_thread is not tested after the search.
AllocThreadUnchecked(c) ==
  /\ pc[c] = "normal"
  /\ LET t == CHOOSE t \in 0 .. NumThreads :
                /\ t \in Free \cup {NumThreads}
                /\ \A u \in Free : t <= u
     IN  /\ tstate' = [u \in ThreadIds |-> IF u = t THEN "ACTIVE" ELSE tstate[u]]
         /\ n' = [n EXCEPT ![c] = t]
  /\ pc' = [pc EXCEPT ![c] = "alloc"]
  /\ UNCHANGED << flags, have_user_map, user_map, regs, curr_thread,
                  active_map, left, mapping >>

\* __thread_alloc_and_run() under the lock: the first free thread becomes
\* ACTIVE.  Without a free one the call returns ETHREAD_LIMIT.
AllocThread(c) ==
  /\ pc[c] = "normal"
  /\ \E t \in Free :
       /\ \A u \in Free : t <= u
       /\ tstate' = [tstate EXCEPT ![t] = "ACTIVE"]
       /\ n' = [n EXCEPT ![c] = t]
  /\ pc' = [pc EXCEPT ![c] = "alloc"]
  /\ UNCHANGED << flags, have_user_map, user_map, regs, curr_thread,
                  active_map, left, mapping >>

\* ... and after the lock: init_regs() loads the arguments of the SMC.
RunThread(c) ==
  /\ pc[c] = "alloc"
  /\ curr_thread' = [curr_thread EXCEPT ![c] = n[c]]
  /\ flags' = [flags EXCEPT ![n[c]] = {}]
  /\ regs' = [regs EXCEPT ![n[c]] = "nsec"]
  /\ left' = [left EXCEPT ![n[c]] = "none"]
  /\ mapping' = [mapping EXCEPT ![n[c]] = NoMap]
  /\ pc' = [pc EXCEPT ![c] = "run"]
  /\ n' = [n EXCEPT ![c] = Invalid]
  /\ UNCHANGED << tstate, have_user_map, user_map, active_map >>

\* Faulty variant: a thread that runs on another core is resumed too.
ResumeThreadNotFree(c, t) ==
  /\ pc[c] = "normal"
  /\ t \in ThreadIds /\ tstate[t] # "FREE"
  /\ tstate' = [tstate EXCEPT ![t] = "ACTIVE"]
  /\ n' = [n EXCEPT ![c] = t]
  /\ pc' = [pc EXCEPT ![c] = "resume"]
  /\ UNCHANGED << flags, have_user_map, user_map, regs, curr_thread,
                  active_map, left, mapping >>

\* thread_resume_from_rpc() under the lock.  Normal world may name any
\* thread; one that is not suspended is refused with ERESUME.
ResumeThread(c, t) ==
  /\ pc[c] = "normal"
  /\ t \in ThreadIds /\ tstate[t] = "SUSPENDED"
  /\ tstate' = [tstate EXCEPT ![t] = "ACTIVE"]
  /\ n' = [n EXCEPT ![c] = t]
  /\ pc' = [pc EXCEPT ![c] = "resume"]
  /\ UNCHANGED << flags, have_user_map, user_map, regs, curr_thread,
                  active_map, left, mapping >>

\* Faulty variant: the flag of the RPC outlives the return from it.
RestoreThreadKeepsFlag(c) ==
  LET t == n[c]
      copy == "COPY_ARGS_ON_RETURN" \in flags[t]
  IN  /\ pc[c] = "resume"
      /\ curr_thread' = [curr_thread EXCEPT ![c] = t]
      /\ active_map' = IF have_user_map[t]
                       THEN [active_map EXCEPT ![c] = user_map[t]]
                       ELSE active_map
      /\ regs' = IF copy THEN [regs EXCEPT ![t] = "nsec"] ELSE regs
      /\ pc' = [pc EXCEPT ![c] = "run"]
      /\ n' = [n EXCEPT ![c] = Invalid]
      /\ UNCHANGED << tstate, flags, have_user_map, user_map, left, mapping >>

\* ... and after the lock: the user mapping is restored, and the registers
\* take the values from normal world if the thread left by an RPC.
RestoreThread(c) ==
  LET t == n[c]
      copy == "COPY_ARGS_ON_RETURN" \in flags[t]
  IN  /\ pc[c] = "resume"
      /\ curr_thread' = [curr_thread EXCEPT ![c] = t]
      /\ active_map' = IF have_user_map[t]
                       THEN [active_map EXCEPT ![c] = user_map[t]]
                       ELSE active_map
      /\ regs' = IF copy THEN [regs EXCEPT ![t] = "nsec"] ELSE regs
      /\ flags' = [flags EXCEPT ![t] = @ \ {"COPY_ARGS_ON_RETURN"}]
      /\ pc' = [pc EXCEPT ![c] = "run"]
      /\ n' = [n EXCEPT ![c] = Invalid]
      /\ UNCHANGED << tstate, have_user_map, user_map, left, mapping >>

-----------------------------------------------------------------------------
(* Running and leaving a thread *)

\* vm_set_ctx(): the thread's code switches to a TA's mapping, or to none.
SetUserMap(c, m) ==
  /\ pc[c] = "run"
  /\ active_map' = [active_map EXCEPT ![c] = m]
  /\ mapping' = [mapping EXCEPT ![curr_thread[c]] = m]
  /\ UNCHANGED << threadVars, curr_thread, pc, n, left >>

\* Faulty variant: have_user_map is set when a mapping is saved, never reset.
SuspendThreadSticky(c, flag) ==
  LET t == curr_thread[c]
      mapped == active_map[c] # NoMap
  IN  /\ pc[c] = "run"
      /\ tstate[t] = "ACTIVE"
      /\ regs' = [regs EXCEPT ![t] = "own"]
      /\ flags' = [flags EXCEPT ![t] = @ \cup {flag}]
      /\ tstate' = [tstate EXCEPT ![t] = "SUSPENDED"]
      /\ have_user_map' = [have_user_map EXCEPT ![t] = @ \/ mapped]
      /\ user_map' = IF mapped
                     THEN [user_map EXCEPT ![t] = active_map[c]]
                     ELSE user_map
      /\ active_map' = [active_map EXCEPT ![c] = NoMap]
      /\ curr_thread' = [curr_thread EXCEPT ![c] = Invalid]
      /\ left' = [left EXCEPT ![t] = flag]
      /\ pc' = [pc EXCEPT ![c] = "normal"]
      /\ UNCHANGED << n, mapping >>

\* thread_state_suspend(): from thread_rpc() with COPY_ARGS_ON_RETURN, from
\* the foreign interrupt handlers with EXIT_ON_FOREIGN_INTR.  Both mask all
\* exceptions first and save the registers.
SuspendThread(c, flag) ==
  LET t == curr_thread[c]
      mapped == active_map[c] # NoMap
  IN  /\ pc[c] = "run"
      /\ tstate[t] = "ACTIVE"                    \* assert()
      /\ regs' = [regs EXCEPT ![t] = "own"]
      /\ flags' = [flags EXCEPT ![t] = @ \cup {flag}]
      /\ tstate' = [tstate EXCEPT ![t] = "SUSPENDED"]
      /\ have_user_map' = [have_user_map EXCEPT ![t] = mapped]
      /\ user_map' = IF mapped
                     THEN [user_map EXCEPT ![t] = active_map[c]]
                     ELSE user_map
      /\ active_map' = [active_map EXCEPT ![c] = NoMap]
      /\ curr_thread' = [curr_thread EXCEPT ![c] = Invalid]
      /\ left' = [left EXCEPT ![t] = flag]
      /\ pc' = [pc EXCEPT ![c] = "normal"]
      /\ UNCHANGED << n, mapping >>

\* thread_state_free() at the end of thread_std_smc_entry().  The session
\* stack is empty then: no user mapping is active.
FreeThread(c) ==
  LET t == curr_thread[c]
  IN  /\ pc[c] = "run"
      /\ active_map[c] = NoMap
      /\ tstate[t] = "ACTIVE"                    \* assert()
      /\ tstate' = [tstate EXCEPT ![t] = "FREE"]
      /\ flags' = [flags EXCEPT ![t] = {}]
      /\ curr_thread' = [curr_thread EXCEPT ![c] = Invalid]
      /\ pc' = [pc EXCEPT ![c] = "normal"]
      /\ UNCHANGED << have_user_map, user_map, regs, n, active_map, left,
                      mapping >>

-----------------------------------------------------------------------------

Step(c) ==
  \/ AllocThread(c) \/ RunThread(c)
  \/ \E t \in ThreadIds : ResumeThread(c, t)
  \/ RestoreThread(c)
  \/ \E m \in Maps : SetUserMap(c, m)
  \/ \E flag \in Flags : SuspendThread(c, flag)
  \/ FreeThread(c)

Next == \E c \in Cores : Step(c)

Spec == Init /\ [][Next]_vars

-----------------------------------------------------------------------------

TypeOK ==
  /\ tstate \in [ThreadIds -> {"FREE", "ACTIVE", "SUSPENDED"}]
  /\ flags \in [ThreadIds -> SUBSET Flags]
  /\ have_user_map \in [ThreadIds -> BOOLEAN]
  /\ user_map \in [ThreadIds -> Maps]
  /\ regs \in [ThreadIds -> {"own", "nsec"}]
  /\ curr_thread \in [Cores -> ThreadIds \cup {Invalid}]
  /\ pc \in [Cores -> Places]
  /\ n \in [Cores -> ThreadIds \cup {Invalid}]
  /\ active_map \in [Cores -> Maps]
  /\ left \in [ThreadIds -> Flags \cup {"none"}]
  /\ mapping \in [ThreadIds -> Maps]

\* The thread whose context and stack core c uses.
Owns(c, t) ==
  \/ pc[c] \in {"alloc", "resume"} /\ n[c] = t
  \/ pc[c] = "run" /\ curr_thread[c] = t

\* A thread is ACTIVE exactly while one core, and no other, uses its context:
\* two cores never run on one stack, whatever numbers normal world passes,
\* and no thread is left ACTIVE for ever with no core on it.
OneCorePerThread ==
  /\ \A t \in ThreadIds : tstate[t] = "ACTIVE" <=> \E c \in Cores : Owns(c, t)
  /\ \A c, d \in Cores, t \in ThreadIds : Owns(c, t) /\ Owns(d, t) => c = d
  /\ \A c \in Cores : pc[c] = "run" <=> curr_thread[c] # Invalid

\* "Return from RPC to request service of a foreign interrupt must not get
\* parameters from non-secure world", and a return from an RPC must: what is
\* in the registers of a running thread depends on how it last left its core,
\* not on how often or where it was resumed.
ArgsFromRpcOnly ==
  \A c \in Cores : pc[c] = "run" =>
    (regs[curr_thread[c]] = "nsec" <=>
       left[curr_thread[c]] # "EXIT_ON_FOREIGN_INTR")

\* A thread runs with the user mapping it activated last, on whatever core it
\* is resumed, and a core that left secure world has none.
MapFollowsThread ==
  \A c \in Cores :
    active_map[c] = IF pc[c] = "run" THEN mapping[curr_thread[c]] ELSE NoMap

\* What is saved of a thread that left its core, until it runs again.
SavedContext ==
  \A t \in ThreadIds :
    (tstate[t] = "SUSPENDED" \/ \E c \in Cores : pc[c] = "resume" /\ n[c] = t)
      => /\ left[t] \in Flags
         /\ "COPY_ARGS_ON_RETURN" \in flags[t] <=>
              left[t] = "COPY_ARGS_ON_RETURN"
         /\ regs[t] = "own"
         /\ have_user_map[t] <=> mapping[t] # NoMap
         /\ have_user_map[t] => user_map[t] = mapping[t]

\* A core has a current or a claimed thread when its code needs one, and the
\* return from an RPC is over once the thread runs.
CoreContext ==
  \A c \in Cores :
    /\ pc[c] = "run" => /\ curr_thread[c] \in ThreadIds
                        /\ "COPY_ARGS_ON_RETURN" \notin flags[curr_thread[c]]
    /\ pc[c] \in {"alloc", "resume"} => n[c] \in ThreadIds

\* The inductive invariant of ThreadPoolProofs.
IInv ==
  /\ TypeOK
  /\ OneCorePerThread
  /\ ArgsFromRpcOnly
  /\ MapFollowsThread
  /\ SavedContext
  /\ CoreContext

=============================================================================
