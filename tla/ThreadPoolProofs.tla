------------------------- MODULE ThreadPoolProofs -------------------------
(***************************************************************************)
(* Proofs about ThreadPool, for any number of cores, threads and user      *)
(* mappings.                                                               *)
(***************************************************************************)
EXTENDS ThreadPool, TLAPS

\* Thread ids are numbers, and none of them is THREAD_ID_INVALID.
LEMMA IdsValid == Invalid \notin ThreadIds
  BY ThreadPoolAssumption DEF ThreadIds, Invalid

\* The type invariant and the ownership of threads, which need each other and
\* which the other invariants rest on.
Ownership == TypeOK /\ OneCorePerThread /\ CoreContext

\* The inductive step of the type invariant.
LEMMA TypeStep == Ownership /\ [Next]_vars => TypeOK'
<1> SUFFICES ASSUME Ownership, [Next]_vars PROVE TypeOK'
  OBVIOUS
<1> USE DEF Ownership, TypeOK, threadVars, Flags, Places, Maps
<1>1. ASSUME NEW c \in Cores, AllocThread(c) PROVE TypeOK'
  <2>1. PICK t \in Free : /\ tstate' = [tstate EXCEPT ![t] = "ACTIVE"]
                          /\ n' = [n EXCEPT ![c] = t]
    BY <1>1 DEF AllocThread
  <2> QED
    BY <1>1, <2>1 DEF AllocThread, Free
<1>2. ASSUME NEW c \in Cores, RunThread(c) PROVE TypeOK'
  BY <1>2 DEF RunThread, CoreContext
<1>3. ASSUME NEW c \in Cores, NEW t \in ThreadIds, ResumeThread(c, t)
      PROVE TypeOK'
  BY <1>3 DEF ResumeThread
<1>4. ASSUME NEW c \in Cores, RestoreThread(c) PROVE TypeOK'
  BY <1>4 DEF RestoreThread, CoreContext
<1>5. ASSUME NEW c \in Cores, NEW m \in Maps, SetUserMap(c, m) PROVE TypeOK'
  BY <1>5 DEF SetUserMap
<1>6. ASSUME NEW c \in Cores, NEW flag \in Flags, SuspendThread(c, flag)
      PROVE TypeOK'
  BY <1>6 DEF SuspendThread
<1>7. ASSUME NEW c \in Cores, FreeThread(c) PROVE TypeOK'
  BY <1>7 DEF FreeThread
<1>8. CASE UNCHANGED vars
  BY <1>8 DEF vars
<1> QED
  BY <1>1, <1>2, <1>3, <1>4, <1>5, <1>6, <1>7, <1>8 DEF Next, Step

-----------------------------------------------------------------------------

\* What changes when core c takes a thread nobody owns.
LEMMA ClaimOwns ==
  ASSUME TypeOK, NEW c \in Cores, NEW t \in ThreadIds,
         NEW loc \in {"alloc", "resume"},
         pc[c] = "normal",
         pc' = [pc EXCEPT ![c] = loc], n' = [n EXCEPT ![c] = t],
         UNCHANGED curr_thread
  PROVE  \A d \in Cores, u \in ThreadIds :
           Owns(d, u)' <=> Owns(d, u) \/ (d = c /\ u = t)
  BY DEF Owns, TypeOK

\* Entering the claimed thread keeps it: n[c] becomes curr_thread[c].
LEMMA EnterOwns ==
  ASSUME TypeOK, NEW c \in Cores, pc[c] \in {"alloc", "resume"},
         pc' = [pc EXCEPT ![c] = "run"],
         curr_thread' = [curr_thread EXCEPT ![c] = n[c]],
         n' = [n EXCEPT ![c] = Invalid]
  PROVE  \A d \in Cores, u \in ThreadIds : Owns(d, u)' <=> Owns(d, u)
  BY DEF Owns, TypeOK

\* Leaving the current thread, the core owns none.
LEMMA LeaveOwns ==
  ASSUME TypeOK, NEW c \in Cores, pc[c] = "run",
         pc' = [pc EXCEPT ![c] = "normal"],
         curr_thread' = [curr_thread EXCEPT ![c] = Invalid],
         UNCHANGED n
  PROVE  \A d \in Cores, u \in ThreadIds :
           Owns(d, u)' <=> Owns(d, u) /\ d # c
  BY DEF Owns, TypeOK

\* The inductive step of the ownership: each thread has one core at most.
LEMMA OwnershipStep == Ownership /\ [Next]_vars => OneCorePerThread'
<1> SUFFICES ASSUME Ownership, [Next]_vars PROVE OneCorePerThread'
  OBVIOUS
<1> USE IdsValid DEF Ownership
<1>1. ASSUME NEW c \in Cores, AllocThread(c) PROVE OneCorePerThread'
  <2>1. PICK t \in Free : /\ tstate' = [tstate EXCEPT ![t] = "ACTIVE"]
                          /\ n' = [n EXCEPT ![c] = t]
    BY <1>1 DEF AllocThread
  <2>2. t \in ThreadIds /\ tstate[t] # "ACTIVE"
    BY <2>1 DEF Free
  <2>3. \A d \in Cores, u \in ThreadIds :
          Owns(d, u)' <=> Owns(d, u) \/ (d = c /\ u = t)
    BY <1>1, <2>1, <2>2, ClaimOwns DEF AllocThread
  <2> QED
    BY <1>1, <2>1, <2>2, <2>3 DEF AllocThread, OneCorePerThread, TypeOK
<1>2. ASSUME NEW c \in Cores, NEW t \in ThreadIds, ResumeThread(c, t)
      PROVE OneCorePerThread'
  <2>1. \A d \in Cores, u \in ThreadIds :
          Owns(d, u)' <=> Owns(d, u) \/ (d = c /\ u = t)
    BY <1>2, ClaimOwns DEF ResumeThread
  <2> QED
    BY <1>2, <2>1 DEF ResumeThread, OneCorePerThread, TypeOK
<1>3. ASSUME NEW c \in Cores, RunThread(c) \/ RestoreThread(c)
      PROVE OneCorePerThread'
  <2>1. /\ pc[c] \in {"alloc", "resume"} /\ n[c] \in ThreadIds
        /\ pc' = [pc EXCEPT ![c] = "run"]
        /\ curr_thread' = [curr_thread EXCEPT ![c] = n[c]]
        /\ n' = [n EXCEPT ![c] = Invalid]
        /\ UNCHANGED tstate
    BY <1>3 DEF RunThread, RestoreThread, CoreContext
  <2>2. \A d \in Cores, u \in ThreadIds : Owns(d, u)' <=> Owns(d, u)
    BY <2>1, EnterOwns
  <2> QED
    BY <2>1, <2>2 DEF OneCorePerThread, TypeOK
<1>4. ASSUME NEW c \in Cores, NEW m \in Maps, SetUserMap(c, m)
      PROVE OneCorePerThread'
  BY <1>4 DEF SetUserMap, threadVars, OneCorePerThread, Owns
<1>5. ASSUME NEW c \in Cores,
             FreeThread(c) \/ \E flag \in Flags : SuspendThread(c, flag)
      PROVE OneCorePerThread'
  <2> DEFINE t == curr_thread[c]
  <2>1. /\ pc[c] = "run" /\ t \in ThreadIds
        /\ pc' = [pc EXCEPT ![c] = "normal"]
        /\ curr_thread' = [curr_thread EXCEPT ![c] = Invalid]
        /\ UNCHANGED n
        /\ \E s \in {"FREE", "SUSPENDED"} : tstate' = [tstate EXCEPT ![t] = s]
    BY <1>5 DEF FreeThread, SuspendThread, CoreContext
  <2>2. \A d \in Cores, u \in ThreadIds : Owns(d, u)' <=> Owns(d, u) /\ d # c
    BY <2>1, LeaveOwns
  <2>3. \A u \in ThreadIds : Owns(c, u) <=> u = t
    BY <2>1 DEF Owns
  <2>4. \A u \in ThreadIds : tstate'[u] = "ACTIVE" <=> tstate[u] = "ACTIVE" /\ u # t
    BY <2>1 DEF TypeOK
  <2>5. \A u \in ThreadIds : (\E d \in Cores : Owns(d, u)')
                                <=> (\E d \in Cores : Owns(d, u)) /\ u # t
    BY <2>2, <2>3 DEF OneCorePerThread
  <2>6. \A d \in Cores : pc'[d] = "run" <=> curr_thread'[d] # Invalid
    BY <2>1 DEF OneCorePerThread, TypeOK
  <2> QED
    BY <2>2, <2>4, <2>5, <2>6 DEF OneCorePerThread
<1>6. CASE UNCHANGED vars
  BY <1>6 DEF vars, OneCorePerThread, Owns
<1> QED
  BY <1>1, <1>2, <1>3, <1>4, <1>5, <1>6 DEF Next, Step

\* The inductive step of the core's context.
LEMMA ContextStep == Ownership /\ [Next]_vars => CoreContext'
<1> SUFFICES ASSUME Ownership, [Next]_vars PROVE CoreContext'
  OBVIOUS
<1> USE IdsValid DEF Ownership, CoreContext, TypeOK
<1>1. ASSUME NEW c \in Cores, AllocThread(c) PROVE CoreContext'
  BY <1>1 DEF AllocThread, Free
<1>2. ASSUME NEW c \in Cores, NEW t \in ThreadIds, ResumeThread(c, t)
      PROVE CoreContext'
  BY <1>2 DEF ResumeThread
<1>3. ASSUME NEW c \in Cores, RunThread(c) \/ RestoreThread(c)
      PROVE CoreContext'
  BY <1>3 DEF RunThread, RestoreThread
<1>4. ASSUME NEW c \in Cores, NEW m \in Maps, SetUserMap(c, m)
      PROVE CoreContext'
  BY <1>4 DEF SetUserMap, threadVars
<1>5. ASSUME NEW c \in Cores, NEW flag \in Flags, SuspendThread(c, flag)
      PROVE CoreContext'
  <2>1. \A d \in Cores \ {c} : pc[d] = "run" => curr_thread[d] # curr_thread[c]
    BY <1>5 DEF SuspendThread, OneCorePerThread, Owns
  <2> QED
    BY <1>5, <2>1 DEF SuspendThread
<1>6. ASSUME NEW c \in Cores, FreeThread(c) PROVE CoreContext'
  BY <1>6 DEF FreeThread
<1>7. CASE UNCHANGED vars
  BY <1>7 DEF vars
<1> QED
  BY <1>1, <1>2, <1>3, <1>4, <1>5, <1>6, <1>7 DEF Next, Step

\* The ownership holds in every behaviour.
LEMMA OwnershipInvariant == Spec => []Ownership
<1>1. Init => Ownership
  BY IdsValid DEF Init, Ownership, TypeOK, OneCorePerThread, CoreContext, Owns,
     Places, Maps
<1>2. Ownership /\ [Next]_vars => Ownership'
  BY TypeStep, OwnershipStep, ContextStep DEF Ownership
<1> QED
  BY <1>1, <1>2, PTL DEF Spec

\* Every variable keeps its type.
THEOREM TypeCorrect == Spec => []TypeOK
<1>1. Ownership => TypeOK
  BY DEF Ownership
<1> QED
  BY <1>1, OwnershipInvariant, PTL

\* No two cores ever run on the context of one thread, and an ACTIVE thread
\* has a core.
THEOREM Exclusive == Spec => []OneCorePerThread
<1>1. Ownership => OneCorePerThread
  BY DEF Ownership
<1> QED
  BY <1>1, OwnershipInvariant, PTL

-----------------------------------------------------------------------------

\* The inductive step of what a thread sees when it runs: the arguments and
\* the mapping that SavedContext kept for it.
LEMMA SavedStep ==
  Ownership /\ ArgsFromRpcOnly /\ MapFollowsThread /\ SavedContext
    /\ [Next]_vars
  => ArgsFromRpcOnly' /\ MapFollowsThread' /\ SavedContext'
<1> DEFINE Seen == ArgsFromRpcOnly /\ MapFollowsThread /\ SavedContext
<1> SUFFICES ASSUME Ownership, Seen, [Next]_vars PROVE Seen'
  OBVIOUS
<1> USE IdsValid DEF Ownership, TypeOK
<1> USE DEF ArgsFromRpcOnly, MapFollowsThread, SavedContext, CoreContext
<1>1. ASSUME NEW c \in Cores, AllocThread(c) PROVE Seen'
  BY <1>1 DEF AllocThread, Free
<1>2. ASSUME NEW c \in Cores, NEW t \in ThreadIds, ResumeThread(c, t)
      PROVE Seen'
  BY <1>2 DEF ResumeThread
<1>3. ASSUME NEW c \in Cores, RunThread(c) PROVE Seen'
  <2>1. \A d \in Cores \ {c} : /\ pc[d] = "run" => curr_thread[d] # n[c]
                               /\ pc[d] = "resume" => n[d] # n[c]
    BY <1>3 DEF RunThread, OneCorePerThread, Owns
  <2>2. tstate[n[c]] = "ACTIVE"
    BY <1>3 DEF RunThread, OneCorePerThread, Owns
  <2> QED
    BY <1>3, <2>1, <2>2 DEF RunThread
<1>4. ASSUME NEW c \in Cores, RestoreThread(c) PROVE Seen'
  <2>1. \A d \in Cores \ {c} : /\ pc[d] = "run" => curr_thread[d] # n[c]
                               /\ pc[d] = "resume" => n[d] # n[c]
    BY <1>4 DEF RestoreThread, OneCorePerThread, Owns
  <2>2. tstate[n[c]] = "ACTIVE"
    BY <1>4 DEF RestoreThread, OneCorePerThread, Owns
  <2> QED
    BY <1>4, <2>1, <2>2 DEF RestoreThread, Flags
<1>5. ASSUME NEW c \in Cores, NEW m \in Maps, SetUserMap(c, m) PROVE Seen'
  <2>1. \A d \in Cores \ {c} : /\ pc[d] = "run" => curr_thread[d] # curr_thread[c]
                               /\ pc[d] = "resume" => n[d] # curr_thread[c]
    BY <1>5 DEF SetUserMap, OneCorePerThread, Owns
  <2>2. tstate[curr_thread[c]] = "ACTIVE"
    BY <1>5 DEF SetUserMap, OneCorePerThread, Owns
  <2> QED
    BY <1>5, <2>1, <2>2 DEF SetUserMap, threadVars
<1>6. ASSUME NEW c \in Cores, NEW flag \in Flags, SuspendThread(c, flag)
      PROVE Seen'
  <2>1. \A d \in Cores \ {c} : /\ pc[d] = "run" => curr_thread[d] # curr_thread[c]
                               /\ pc[d] = "resume" => n[d] # curr_thread[c]
    BY <1>6 DEF SuspendThread, OneCorePerThread, Owns
  <2> DEFINE t == curr_thread[c]
  <2>2. t \in ThreadIds /\ t # Invalid /\ active_map[c] = mapping[t]
    BY <1>6 DEF SuspendThread
  <2>3. ArgsFromRpcOnly'
    BY <1>6, <2>1, <2>2 DEF SuspendThread, Flags
  <2>4. MapFollowsThread'
    BY <1>6, <2>1, <2>2 DEF SuspendThread
  <2>5. SavedContext'
    <3>1. ASSUME NEW u \in ThreadIds, u # t
          PROVE /\ tstate'[u] = tstate[u] /\ flags'[u] = flags[u]
                /\ have_user_map'[u] = have_user_map[u]
                /\ user_map'[u] = user_map[u] /\ regs'[u] = regs[u]
                /\ left'[u] = left[u] /\ mapping'[u] = mapping[u]
      BY <1>6, <2>2, <3>1 DEF SuspendThread
    <3>2. /\ left'[t] = flag /\ regs'[t] = "own"
          /\ flags'[t] = flags[t] \cup {flag}
      BY <1>6, <2>2 DEF SuspendThread
    <3>5. /\ have_user_map'[t] = (active_map[c] # NoMap)
          /\ active_map[c] # NoMap => user_map'[t] = active_map[c]
          /\ mapping'[t] = mapping[t]
      BY <1>6, <2>2 DEF SuspendThread
    <3>3. \A d \in Cores : pc'[d] = "resume" => pc[d] = "resume" /\ n'[d] = n[d]
      BY <1>6 DEF SuspendThread
    <3>4. "COPY_ARGS_ON_RETURN" \notin flags[t]
      BY <1>6 DEF SuspendThread
    <3>6. /\ left'[t] \in Flags /\ regs'[t] = "own"
          /\ "COPY_ARGS_ON_RETURN" \in flags'[t] <=>
               left'[t] = "COPY_ARGS_ON_RETURN"
      BY <3>2, <3>4 DEF Flags
    <3>7. /\ have_user_map'[t] <=> mapping'[t] # NoMap
          /\ have_user_map'[t] => user_map'[t] = mapping'[t]
      BY <2>2, <3>5
    <3> QED
      BY <3>1, <3>3, <3>6, <3>7
  <2> QED
    BY <2>3, <2>4, <2>5
<1>7. ASSUME NEW c \in Cores, FreeThread(c) PROVE Seen'
  <2>1. \A d \in Cores \ {c} : /\ pc[d] = "run" => curr_thread[d] # curr_thread[c]
                               /\ pc[d] = "resume" => n[d] # curr_thread[c]
    BY <1>7 DEF FreeThread, OneCorePerThread, Owns
  <2> QED
    BY <1>7, <2>1 DEF FreeThread
<1>8. CASE UNCHANGED vars
  BY <1>8 DEF vars
<1> QED
  BY <1>1, <1>2, <1>3, <1>4, <1>5, <1>6, <1>7, <1>8 DEF Next, Step

\* The inductive invariant.
THEOREM Invariance == Spec => []IInv
<1>1. Init => IInv
  BY IdsValid DEF Init, IInv, TypeOK, OneCorePerThread, CoreContext, Owns,
     Places, Maps, ArgsFromRpcOnly, MapFollowsThread, SavedContext
<1>2. IInv /\ [Next]_vars => IInv'
  BY TypeStep, OwnershipStep, ContextStep, SavedStep DEF Ownership, IInv
<1> QED
  BY <1>1, <1>2, PTL DEF Spec

\* A thread gets register values from normal world when it returns from an
\* RPC, and never when it returns from a foreign interrupt.
THEOREM ArgsSound == Spec => []ArgsFromRpcOnly
<1>1. IInv => ArgsFromRpcOnly
  BY DEF IInv
<1> QED
  BY <1>1, Invariance, PTL

\* A thread runs with its own user mapping on every core.
THEOREM MapSound == Spec => []MapFollowsThread
<1>1. IInv => MapFollowsThread
  BY DEF IInv
<1> QED
  BY <1>1, Invariance, PTL

=============================================================================
