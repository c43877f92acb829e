------------------------------ MODULE RpcArg ------------------------------
(***************************************************************************)
(* The shared memory the threads of OP-TEE hold for their RPCs: the cached *)
(* RPC argument of core/arch/arm/kernel/thread_optee_smc.c and the shared  *)
(* memory cache of core/kernel/thread.c, with the fast calls that enable   *)
(* and drain the cache.                                                    *)
(*                                                                         *)
(* Normal world lends the buffers.  One action is the handling of one RPC  *)
(* that allocates or frees a buffer, or the code between two of them: the  *)
(* state of a thread is its own, and the fast calls, which look at every   *)
(* thread, are refused unless all of them are free.                        *)
(***************************************************************************)
EXTENDS Integers, FiniteSets

CONSTANTS
  Threads,
  Buffers,       (* what normal world can lend                             *)
  NoBuf,
  CacheUsers,    (* enum thread_shm_cache_user                             *)
  KernelUsers,   (* those that ask for THREAD_SHM_TYPE_KERNEL_PRIVATE; the *)
                 (* others ask for THREAD_SHM_TYPE_APPLICATION             *)
  BadFor         (* users that may be lent a misaligned or unmappable one  *)

ASSUME RpcArgAssumption ==
  /\ NoBuf \notin Buffers
  /\ KernelUsers \subseteq CacheUsers
  /\ BadFor \subseteq CacheUsers

\* Normal world lends kernel private memory from pages of its own: a buffer
\* that cannot be mapped is one of an application.
ASSUME KernelBuffersMap == BadFor \cap KernelUsers = {}

VARIABLES
  thread_prealloc_rpc_cache,   (* is the RPC argument cached?              *)
  rpc_arg,       (* thr->rpc_arg: none, its own or the caller's            *)
  rpc_mobj,      (* thr->rpc_mobj                                          *)
  shm_cache,     (* thr->shm_cache, an entry for each user                 *)
  lent,          (* what normal world lent each buffer for                 *)
  pc             (* where each thread is                                   *)

argVars == << rpc_arg, rpc_mobj >>
vars == << thread_prealloc_rpc_cache, rpc_arg, rpc_mobj, shm_cache, lent, pc >>

\* free: THREAD_STATE_FREE.  badcmd: a call with an unknown command, which
\* makes no RPC.  clear, leave: what call_entry_std() does after the call.
Locations == {"free", "enter", "run", "badcmd", "clear", "leave"}

ShmTypes == {"appl", "kernel"}
TypeOf(u) == IF u \in KernelUsers THEN "kernel" ELSE "appl"

\* Faulty variant: an entry starts without a type.
NewEntryUntyped == [mobj |-> NoBuf, type |-> "unset"]

\* get_shm_cache_entry(): calloc() makes the type THREAD_SHM_TYPE_APPLICATION.
NewEntry == [mobj |-> NoBuf, type |-> "appl"]

Init ==
  /\ thread_prealloc_rpc_cache = FALSE
  /\ rpc_arg = [t \in Threads |-> "null"]
  /\ rpc_mobj = [t \in Threads |-> NoBuf]
  /\ shm_cache = [t \in Threads |-> [u \in CacheUsers |-> NewEntry]]
  /\ lent = [b \in Buffers |-> "no"]
  /\ pc = [t \in Threads |-> "free"]

Goto(t, loc) == pc' = [pc EXCEPT ![t] = loc]

\* Normal world takes back what it lent.  It looks a buffer up by the type it
\* is told: one that was lent for something else is not freed.
Freed(b, for, lnt) ==
  IF b = NoBuf THEN lnt
  ELSE [lnt EXCEPT ![b] = IF @ = for THEN "no" ELSE "mismatch"]

\* clear_prealloc_rpc_cache()
ClearArg(t) ==
  /\ lent' = Freed(rpc_mobj[t], "arg", lent)
  /\ rpc_mobj' = [rpc_mobj EXCEPT ![t] = NoBuf]

-----------------------------------------------------------------------------
(* A standard call *)

\* The thread starts, with its own RPC argument ("enter" does nothing) or one
\* supplied by the caller.
StartCall(t) ==
  /\ pc[t] = "free"
  /\ \E loc \in {"enter", "run", "badcmd"} : Goto(t, loc)
  /\ UNCHANGED << thread_prealloc_rpc_cache, argVars, shm_cache, lent >>

\* Faulty variant: the supplied argument takes the place of the cached one,
\* which is not given back.
EnterSuppliedKeeps(t) ==
  /\ pc[t] = "enter"
  /\ rpc_arg' = [rpc_arg EXCEPT ![t] = "supplied"]
  /\ \E loc \in {"run", "badcmd"} : Goto(t, loc)
  /\ UNCHANGED << thread_prealloc_rpc_cache, rpc_mobj, shm_cache, lent >>

\* call_entry_std() with a supplied argument: the cached one is given back.
EnterSupplied(t) ==
  /\ pc[t] = "enter"
  /\ IF thread_prealloc_rpc_cache THEN ClearArg(t)
     ELSE UNCHANGED << rpc_mobj, lent >>
  /\ rpc_arg' = [rpc_arg EXCEPT ![t] = "supplied"]
  /\ \E loc \in {"run", "badcmd"} : Goto(t, loc)
  /\ UNCHANGED << thread_prealloc_rpc_cache, shm_cache >>

\* get_rpc_arg() of the first RPC that has parameters.  When normal world
\* lends none, or one that cannot be used and is given back at once by
\* thread_rpc_alloc_arg(), the RPC fails and nothing changes.
GetArg(t, b) ==
  /\ pc[t] = "run" /\ rpc_arg[t] = "null"
  /\ lent[b] = "no"
  /\ lent' = [lent EXCEPT ![b] = "arg"]
  /\ rpc_arg' = [rpc_arg EXCEPT ![t] = "own"]
  /\ rpc_mobj' = [rpc_mobj EXCEPT ![t] = b]
  /\ UNCHANGED << thread_prealloc_rpc_cache, shm_cache, pc >>

\* clear_shm_cache_entry() as seen by normal world: thread_rpc_free() tells it
\* nothing if the thread has no RPC argument.
EntryFreed(t, ce, lnt) ==
  IF rpc_arg[t] = "null" THEN lnt ELSE Freed(ce.mobj, ce.type, lnt)

\* Faulty variant: the old buffer is overwritten, not freed.
ShmAllocKeepsOld(t, u, b) ==
  /\ pc[t] = "run" /\ rpc_arg[t] # "null"
  /\ lent[b] = "no"
  /\ lent' = [lent EXCEPT ![b] = TypeOf(u)]
  /\ shm_cache' = [shm_cache EXCEPT ![t][u] =
                     [mobj |-> b, type |-> TypeOf(u)]]
  /\ UNCHANGED << thread_prealloc_rpc_cache, argVars, pc >>

\* Faulty variant: the new type is not recorded.
ShmAllocUntyped(t, u, b) ==
  LET given == EntryFreed(t, shm_cache[t][u], lent)
  IN  /\ pc[t] = "run" /\ rpc_arg[t] # "null"
      /\ given[b] = "no"
      /\ lent' = [given EXCEPT ![b] = TypeOf(u)]
      /\ shm_cache' = [shm_cache EXCEPT ![t][u].mobj = b]
      /\ UNCHANGED << thread_prealloc_rpc_cache, argVars, pc >>

\* thread_rpc_shm_cache_alloc(): the entry has another type or is too small.
\* The old buffer is freed, then the new one allocated.
ShmAlloc(t, u, b) ==
  LET ce == shm_cache[t][u]
      given == EntryFreed(t, ce, lent)
  IN  /\ pc[t] = "run" /\ rpc_arg[t] # "null"
      /\ given[b] = "no"
      /\ lent' = [given EXCEPT ![b] = TypeOf(u)]
      /\ shm_cache' = [shm_cache EXCEPT ![t][u] =
                         [mobj |-> b, type |-> TypeOf(u)]]
      /\ UNCHANGED << thread_prealloc_rpc_cache, argVars, pc >>

\* ... the allocation fails.
ShmAllocFails(t, u) ==
  LET ce == shm_cache[t][u]
  IN  /\ pc[t] = "run" /\ rpc_arg[t] # "null"
      /\ lent' = EntryFreed(t, ce, lent)
      /\ shm_cache' = [shm_cache EXCEPT ![t][u] =
                         [mobj |-> NoBuf, type |-> ce.type]]
      /\ UNCHANGED << thread_prealloc_rpc_cache, argVars, pc >>

\* ... or gets a buffer it cannot use: goto err, where the new buffer is freed
\* as one of the type the entry had before.
ShmAllocBad(t, u, b) ==
  LET ce == shm_cache[t][u]
      given == EntryFreed(t, ce, lent)
  IN  /\ u \in BadFor
      /\ pc[t] = "run" /\ rpc_arg[t] # "null"
      /\ given[b] = "no"
      /\ lent' = Freed(b, ce.type, [given EXCEPT ![b] = TypeOf(u)])
      /\ shm_cache' = [shm_cache EXCEPT ![t][u] =
                         [mobj |-> NoBuf, type |-> ce.type]]
      /\ UNCHANGED << thread_prealloc_rpc_cache, argVars, pc >>

\* tee_entry_std() returns.
EntryDone(t) ==
  /\ pc[t] = "run"
  /\ Goto(t, "clear")
  /\ UNCHANGED << thread_prealloc_rpc_cache, argVars, shm_cache, lent >>

\* thread_rpc_shm_cache_clear() frees the entries one by one, by RPCs with the
\* argument the call used.
ClearShmEntry(t, u) ==
  /\ pc[t] = "clear"
  /\ shm_cache[t][u] # NewEntry
  /\ lent' = EntryFreed(t, shm_cache[t][u], lent)
  /\ shm_cache' = [shm_cache EXCEPT ![t][u] = NewEntry]
  /\ UNCHANGED << thread_prealloc_rpc_cache, argVars, pc >>

ShmCleared(t) ==
  /\ pc[t] \in {"clear", "badcmd"}
  /\ \A u \in CacheUsers : shm_cache[t][u] = NewEntry
  /\ Goto(t, IF pc[t] = "clear" THEN "leave" ELSE "free")
  /\ rpc_arg' = [rpc_arg EXCEPT ![t] = IF @ = "supplied" THEN "null" ELSE @]
  /\ UNCHANGED << thread_prealloc_rpc_cache, rpc_mobj, shm_cache, lent >>

\* ... and the end of it: unless the cache is enabled, the RPC argument is
\* given back.
LeaveCall(t) ==
  /\ pc[t] = "leave"
  /\ IF thread_prealloc_rpc_cache THEN UNCHANGED << argVars, lent >>
     ELSE ClearArg(t) /\ rpc_arg' = [rpc_arg EXCEPT ![t] = "null"]
  /\ Goto(t, "free")
  /\ UNCHANGED << thread_prealloc_rpc_cache, shm_cache >>

-----------------------------------------------------------------------------
(* The fast calls, under the global lock *)

AllFree == \A t \in Threads : pc[t] = "free"

\* thread_disable_prealloc_rpc_cache() returns the cookie of one cached
\* argument, which normal world frees.
DisableOne(t) ==
  /\ AllFree
  /\ rpc_arg[t] # "null"
  /\ ClearArg(t)
  /\ rpc_arg' = [rpc_arg EXCEPT ![t] = "null"]
  /\ UNCHANGED << thread_prealloc_rpc_cache, shm_cache, pc >>

\* Faulty variant: only one argument is looked for.
DisableDoneEarly ==
  /\ AllFree
  /\ thread_prealloc_rpc_cache' = FALSE
  /\ UNCHANGED << argVars, shm_cache, lent, pc >>

\* ... and ENOTAVAIL when there is no other: the cache is disabled.
DisableDone ==
  /\ AllFree
  /\ \A t \in Threads : rpc_arg[t] = "null"
  /\ thread_prealloc_rpc_cache' = FALSE
  /\ UNCHANGED << argVars, shm_cache, lent, pc >>

Enable ==
  /\ AllFree
  /\ thread_prealloc_rpc_cache' = TRUE
  /\ UNCHANGED << argVars, shm_cache, lent, pc >>

-----------------------------------------------------------------------------

Step(t) ==
  \/ StartCall(t) \/ EnterSupplied(t)
  \/ \E b \in Buffers : GetArg(t, b)
  \/ \E u \in CacheUsers : \/ \E b \in Buffers : ShmAlloc(t, u, b)
                           \/ ShmAllocFails(t, u)
                           \/ \E b \in Buffers : ShmAllocBad(t, u, b)
                           \/ ClearShmEntry(t, u)
  \/ EntryDone(t) \/ ShmCleared(t) \/ LeaveCall(t)
  \/ DisableOne(t)

Next == (\E t \in Threads : Step(t)) \/ DisableDone \/ Enable

Spec == Init /\ [][Next]_vars

-----------------------------------------------------------------------------
(* Properties *)

Entries == [mobj : Buffers \cup {NoBuf}, type : ShmTypes]

\* Every variable keeps its type: a buffer is never freed twice or as
\* something else than normal world knows it for, unless it is marked so.
TypeOK ==
  /\ thread_prealloc_rpc_cache \in BOOLEAN
  /\ rpc_arg \in [Threads -> {"null", "own", "supplied"}]
  /\ rpc_mobj \in [Threads -> Buffers \cup {NoBuf}]
  /\ shm_cache \in [Threads -> [CacheUsers -> Entries]]
  /\ lent \in [Buffers -> {"no", "arg", "mismatch"} \cup ShmTypes]
  /\ pc \in [Threads -> Locations]

ArgHolders(b) == {t \in Threads : rpc_mobj[t] = b}
ShmHolders(b) == {h \in Threads \X CacheUsers :
                    shm_cache[h[1]][h[2]].mobj = b}

\* Every buffer normal world has lent is held in exactly one place, one thread's
\* RPC argument or one entry of one thread's cache, and every buffer held is
\* lent: none is leaked by a call that fails, shared, or used after it was
\* given back.
LentMatchesHeld ==
  \A b \in Buffers :
    Cardinality(ArgHolders(b)) + Cardinality(ShmHolders(b))
      = IF lent[b] \in {"no", "mismatch"} THEN 0 ELSE 1

\* Each buffer is given back to normal world as what it was asked for: the @bt
\* of thread_rpc_free() "must be the same as supplied when allocating".
FreeTypeMatches == \A b \in Buffers : lent[b] # "mismatch"

\* The cookie get_rpc_arg() sends is that of the argument it fills: rpc_mobj is
\* there exactly when rpc_arg is the thread's own, whichever of the cached and
\* the supplied arguments the call and the ones before it used.
CargMatchesArg ==
  \A t \in Threads : (rpc_arg[t] = "own") <=> (rpc_mobj[t] # NoBuf)

\* Between calls a thread holds no cached shared memory, and no RPC argument
\* either once the cache is disabled: after the last cookie
\* thread_disable_prealloc_rpc_cache() returned, normal world has everything
\* back.
IdleDrained ==
  \A t \in Threads : pc[t] = "free" =>
    /\ \A u \in CacheUsers : shm_cache[t][u] = NewEntry
    /\ ~thread_prealloc_rpc_cache => rpc_arg[t] = "null" /\ rpc_mobj[t] = NoBuf

=============================================================================
