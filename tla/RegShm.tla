------------------------------ MODULE RegShm ------------------------------
(***************************************************************************)
(* Shared memory registered by normal world: core/arch/arm/mm/             *)
(* mobj_dyn_shm.c, with its callers in core/tee/entry_std.c and            *)
(* thread_optee_smc.c and the reference counts of core/kernel/refcount.c.  *)
(*                                                                         *)
(* One action is one atomic operation on a reference count, one critical   *)
(* section of reg_shm_slist_lock or reg_shm_map_lock, or one of shm_mu.    *)
(* A section of shm_mu ends in mutex_unlock() or in condvar_wait(), and    *)
(* makes one access to what other threads write without it                 *)
(* (release_frees, the list): it is one step.  That condvar_wait() gives   *)
(* the mutex up and blocks in one step is what module Mutex shows.         *)
(***************************************************************************)
EXTENDS Integers, FiniteSets

CONSTANTS
  Threads,
  Cookies,      (* the cookies normal world registers memory under         *)
  NoCookie,
  CarefulNW     (* TRUE: normal world passes a cookie only between the     *)
                (* return of its registration and its release, which it    *)
                (* asks for once the calls that pass it have looked it up. *)
                (* FALSE: it passes and releases any cookie at any time.   *)

ASSUME RegShmAssumption ==
  /\ IsFiniteSet(Threads)
  /\ NoCookie \notin Cookies \cup Threads
  /\ CarefulNW \in BOOLEAN

VARIABLES
  listed,         (* the mobj of the cookie is in reg_shm_list             *)
  refc,           (* r->mobj.refc                                          *)
  guarded,        (* r->guarded                                            *)
  releasing,      (* r->releasing                                          *)
  release_frees,  (* r->release_frees                                      *)
  mapcount,       (* r->mapcount                                           *)
  mm,             (* r->mm is set: the pages are mapped                    *)
  shm_release_waiters,
  pc,             (* where each thread is                                  *)
  call,           (* what it does with the mobj                            *)
  obj             (* the cookie of its mobj                                *)

refVars == << listed, refc, guarded, releasing, release_frees >>
mapVars == << mapcount, mm >>
vars == << listed, refc, guarded, releasing, release_frees, mapcount, mm,
           shm_release_waiters, pc, call, obj >>

Calls == {"none", "register", "use", "temp", "release"}

Locations ==
  { "idle",
    "unguard",    (* register_shm(): about to unguard the new mobj         *)
    "found",      (* get_by_cookie(): the mobj was found, not yet taken    *)
    "ref",        (* a user that has a reference, and may map the mobj     *)
    "inc", "map", (* inc_map(): at the atomic increment, at the map lock   *)
    "mapped",     (* has a reference and a mapping                         *)
    "unmap",      (* dec_map(): the count was brought to 0, at the lock    *)
    "put",        (* about to put its reference                            *)
    "last",       (* mobj_reg_shm_free(): the last reference was put       *)
    "free", "set_frees", "broadcast",                  (* ... its branches *)
    "wait_lock", "blocked", "woken",     (* release_by_cookie(): the wait  *)
    "panic" }

Init ==
  /\ listed = [c \in Cookies |-> FALSE]
  /\ refc = [c \in Cookies |-> 0]
  /\ guarded = [c \in Cookies |-> FALSE]
  /\ releasing = [c \in Cookies |-> FALSE]
  /\ release_frees = [c \in Cookies |-> FALSE]
  /\ mapcount = [c \in Cookies |-> 0]
  /\ mm = [c \in Cookies |-> FALSE]
  /\ shm_release_waiters = 0
  /\ pc = [t \in Threads |-> "idle"]
  /\ call = [t \in Threads |-> "none"]
  /\ obj = [t \in Threads |-> NoCookie]

Goto(t, loc) == pc' = [pc EXCEPT ![t] = loc]

Return(t) ==
  /\ Goto(t, "idle")
  /\ call' = [call EXCEPT ![t] = "none"]
  /\ obj' = [obj EXCEPT ![t] = NoCookie]

Start(t, what, c, loc) ==
  /\ pc[t] = "idle"
  /\ Goto(t, loc)
  /\ call' = [call EXCEPT ![t] = what]
  /\ obj' = [obj EXCEPT ![t] = c]

-----------------------------------------------------------------------------
(* Registering *)

\* mobj_reg_shm_alloc(): a new mobj, guarded, with one reference.  Normal
\* world gives each buffer it has registered a cookie of its own.
Alloc(c) ==
  /\ ~listed[c] /\ \A u \in Threads : obj[u] # c
  /\ listed' = [listed EXCEPT ![c] = TRUE]
  /\ refc' = [refc EXCEPT ![c] = 1]
  /\ guarded' = [guarded EXCEPT ![c] = TRUE]
  /\ releasing' = [releasing EXCEPT ![c] = FALSE]
  /\ release_frees' = [release_frees EXCEPT ![c] = FALSE]
  /\ mapcount' = [mapcount EXCEPT ![c] = 0]
  /\ mm' = [mm EXCEPT ![c] = FALSE]
  /\ UNCHANGED shm_release_waiters

\* register_shm(): the mobj normal world may release by its cookie.
Register(t, c) == Start(t, "register", c, "unguard") /\ Alloc(c)

\* Faulty variant: register_shm() puts the reference it has to leave behind.
UnguardPuts(t) ==
  /\ pc[t] = "unguard"
  /\ guarded' = [guarded EXCEPT ![obj[t]] = FALSE]
  /\ refc' = [refc EXCEPT ![obj[t]] = @ - 1]
  /\ Return(t)
  /\ UNCHANGED << listed, releasing, release_frees, mapVars,
                  shm_release_waiters >>

Unguard(t) ==
  /\ pc[t] = "unguard"
  /\ guarded' = [guarded EXCEPT ![obj[t]] = FALSE]
  /\ Return(t)
  /\ UNCHANGED << listed, refc, releasing, release_frees, mapVars,
                  shm_release_waiters >>

\* mobj_mapped_shm_alloc(): a mobj mapped for the length of a call, which
\* stays guarded.
AllocMapped(t, c) == Start(t, "temp", c, "inc") /\ Alloc(c)

-----------------------------------------------------------------------------
(* Using *)

\* mobj_reg_shm_get_by_cookie(): the search, under the list lock.  A cookie
\* that is not found is an error to the caller.
Find(t, c) ==
  /\ Start(t, "use", c, "found")
  /\ listed[c]
  /\ CarefulNW => ~guarded[c] /\ ~releasing[c]
  /\ UNCHANGED << refVars, mapVars, shm_release_waiters >>

\* ... and mobj_get() after it, which panics on a mobj without references.
\* What it does to a mobj that was freed is undefined, and counted the same.
Get(t) ==
  LET c == obj[t]
      valid == listed[c] /\ refc[c] > 0
  IN  /\ pc[t] = "found"
      /\ refc' = IF valid THEN [refc EXCEPT ![c] = @ + 1] ELSE refc
      /\ Goto(t, IF valid THEN "ref" ELSE "panic")
      /\ UNCHANGED << listed, guarded, releasing, release_frees, mapVars,
                      shm_release_waiters, call, obj >>

\* A user of the mobj decides to map it.
Map(t) ==
  /\ pc[t] = "ref"
  /\ Goto(t, "inc")
  /\ UNCHANGED << refVars, mapVars, shm_release_waiters, call, obj >>

\* mobj_reg_shm_inc_map(): refcount_inc() succeeds unless the count is 0.
IncMap(t) ==
  LET c == obj[t]
  IN  /\ pc[t] = "inc"
      /\ mapcount' = IF mapcount[c] > 0 THEN [mapcount EXCEPT ![c] = @ + 1]
                     ELSE mapcount
      /\ Goto(t, IF mapcount[c] > 0 THEN "mapped" ELSE "map")
      /\ UNCHANGED << refVars, mm, shm_release_waiters, call, obj >>

\* Under the map lock: another thread has initialised the count.
IncMapAgain(t) ==
  /\ pc[t] = "map" /\ mapcount[obj[t]] > 0
  /\ Goto(t, "inc")
  /\ UNCHANGED << refVars, mapVars, shm_release_waiters, call, obj >>

\* Under the map lock: map the pages, unless a dec_map() that brought the
\* count to 0 has not unmapped them yet.
IncMapFirst(t) ==
  LET c == obj[t]
  IN  /\ pc[t] = "map" /\ mapcount[c] = 0
      /\ mm' = [mm EXCEPT ![c] = TRUE]
      /\ mapcount' = [mapcount EXCEPT ![c] = 1]
      /\ Goto(t, "mapped")
      /\ UNCHANGED << refVars, shm_release_waiters, call, obj >>

\* Faulty variant: a caller whose inc_map() fails keeps its reference.
IncMapFailsKeeps(t) ==
  /\ pc[t] = "map" /\ mapcount[obj[t]] = 0 /\ ~mm[obj[t]]
  /\ Return(t)
  /\ UNCHANGED << refVars, mapVars, shm_release_waiters >>

\* Mapping fails: no space in tee_mm_shm or no translation table.
IncMapFails(t) ==
  /\ pc[t] = "map" /\ mapcount[obj[t]] = 0 /\ ~mm[obj[t]]
  /\ Goto(t, "put")
  /\ UNCHANGED << refVars, mapVars, shm_release_waiters, call, obj >>

\* mobj_reg_shm_dec_map(): refcount_dec().
DecMap(t) ==
  LET c == obj[t]
  IN  /\ pc[t] = "mapped" /\ call[t] = "use"
      /\ mapcount' = [mapcount EXCEPT ![c] = @ - 1]
      /\ Goto(t, IF mapcount[c] = 1 THEN "unmap" ELSE "put")
      /\ UNCHANGED << refVars, mm, shm_release_waiters, call, obj >>

\* Faulty variant: the count is not read again under the lock.
DecMapUnmapAnyway(t) ==
  LET c == obj[t]
  IN  /\ pc[t] = "unmap"
      /\ mm' = [mm EXCEPT ![c] = FALSE]
      /\ Goto(t, IF mm[c] THEN "put" ELSE "panic")
      /\ UNCHANGED << refVars, mapcount, shm_release_waiters, call, obj >>

\* Under the map lock: unmap, unless the count was initialised again.  The
\* mapping must be there: assert(r->mm) of reg_shm_unmap_helper().
DecMapUnmap(t) ==
  LET c == obj[t]
      unmaps == mapcount[c] = 0
  IN  /\ pc[t] = "unmap"
      /\ mm' = IF unmaps THEN [mm EXCEPT ![c] = FALSE] ELSE mm
      /\ Goto(t, IF unmaps /\ ~mm[c] THEN "panic" ELSE "put")
      /\ UNCHANGED << refVars, mapcount, shm_release_waiters, call, obj >>

-----------------------------------------------------------------------------
(* Putting a reference, and mobj_reg_shm_free() *)

\* Where a thread goes after mobj_put().
AfterPut(t) ==
  IF call[t] = "release"
  THEN Goto(t, "wait_lock") /\ UNCHANGED << call, obj >>
  ELSE Return(t)

\* mobj_put() by a user, by the call that ends with its mapped mobj still
\* mapped, and by release_by_cookie().
Put(t) ==
  LET c == obj[t]
  IN  /\ \/ pc[t] \in {"ref", "put"}
         \/ pc[t] = "mapped" /\ call[t] = "temp"
      /\ refc' = [refc EXCEPT ![c] = @ - 1]
      /\ IF refc[c] = 1 THEN Goto(t, "last") /\ UNCHANGED << call, obj >>
         ELSE AfterPut(t)
      /\ UNCHANGED << listed, guarded, releasing, release_frees, mapVars,
                      shm_release_waiters >>

\* Faulty variant: the thread of the last put frees what another releases.
LastFrees(t) ==
  /\ pc[t] = "last"
  /\ Goto(t, "free")
  /\ UNCHANGED << refVars, mapVars, shm_release_waiters, call, obj >>

Last(t) ==
  LET c == obj[t]
  IN  /\ pc[t] = "last"
      /\ Goto(t, IF guarded[c] /\ ~releasing[c] THEN "free" ELSE "set_frees")
      /\ UNCHANGED << refVars, mapVars, shm_release_waiters, call, obj >>

\* reg_shm_free_helper(): unmap what is still mapped, unlink and free.
FreeHelper(c) ==
  /\ listed' = [listed EXCEPT ![c] = FALSE]
  /\ mm' = [mm EXCEPT ![c] = FALSE]

FreeGuarded(t) ==
  /\ pc[t] = "free"
  /\ FreeHelper(obj[t])
  /\ AfterPut(t)
  /\ UNCHANGED << refc, guarded, releasing, release_frees, mapcount,
                  shm_release_waiters >>

\* Faulty variant: no one is told that the mobj can be freed.
SetReleaseFreesSilently(t) ==
  /\ pc[t] = "set_frees"
  /\ release_frees' = [release_frees EXCEPT ![obj[t]] = TRUE]
  /\ AfterPut(t)
  /\ UNCHANGED << listed, refc, guarded, releasing, mapVars,
                  shm_release_waiters >>

\* From here on only the thread that releases the mobj may use it.
SetReleaseFrees(t) ==
  /\ pc[t] = "set_frees"
  /\ release_frees' = [release_frees EXCEPT ![obj[t]] = TRUE]
  /\ Goto(t, "broadcast")
  /\ obj' = IF call[t] = "release" THEN obj ELSE [obj EXCEPT ![t] = NoCookie]
  /\ UNCHANGED << listed, refc, guarded, releasing, mapVars,
                  shm_release_waiters, call >>

\* The threads in condvar_wait() on shm_cv.
Blocked == {u \in Threads : pc[u] = "blocked"}

\* Where t and the threads in W go on a notification of W.
Wake(t, W) ==
  /\ pc' = [u \in Threads |->
              IF u = t THEN IF call[t] = "release" THEN "wait_lock" ELSE "idle"
              ELSE IF u \in W THEN "woken" ELSE pc[u]]
  /\ call' = IF call[t] = "release" THEN call ELSE [call EXCEPT ![t] = "none"]
  /\ UNCHANGED obj

Broadcast(t) ==
  /\ pc[t] = "broadcast"
  /\ Wake(t, IF shm_release_waiters > 0 THEN Blocked ELSE {})
  /\ UNCHANGED << refVars, mapVars, shm_release_waiters >>

-----------------------------------------------------------------------------
(* mobj_reg_shm_release_by_cookie() *)

\* Faulty variant: a second release of the same cookie is let through.
ReleaseTwice(t, c) ==
  /\ Start(t, "release", c, "put")
  /\ listed[c] /\ ~guarded[c]
  /\ CarefulNW => \A u \in Threads : pc[u] = "found" => obj[u] # c
  /\ releasing' = [releasing EXCEPT ![c] = TRUE]
  /\ UNCHANGED << listed, refc, guarded, release_frees, mapVars,
                  shm_release_waiters >>

\* Under the list lock.  A cookie that is unknown, guarded or being released
\* is refused with BAD_PARAMETERS.
Release(t, c) ==
  /\ Start(t, "release", c, "put")
  /\ listed[c] /\ ~guarded[c] /\ ~releasing[c]
  /\ CarefulNW => \A u \in Threads : pc[u] = "found" => obj[u] # c
  /\ releasing' = [releasing EXCEPT ![c] = TRUE]
  /\ UNCHANGED << listed, refc, guarded, release_frees, mapVars,
                  shm_release_waiters >>

\* Faulty variant: the waiter leaves the count it never joined.
ReleaseWaitUncounted(t) ==
  LET c == obj[t]
  IN  /\ pc[t] \in {"wait_lock", "woken"}
      /\ IF release_frees[c]
         THEN /\ FreeHelper(c)
              /\ shm_release_waiters' = shm_release_waiters - 1
              /\ Return(t)
         ELSE /\ Goto(t, "blocked")
              /\ UNCHANGED << listed, mm, shm_release_waiters, call, obj >>
      /\ UNCHANGED << refc, guarded, releasing, release_frees, mapcount >>

\* One turn of the loop, from mutex_lock() or the return of condvar_wait() to
\* the next condvar_wait() or mutex_unlock().
ReleaseWait(t) ==
  LET c == obj[t]
      waiters == shm_release_waiters + IF pc[t] = "wait_lock" THEN 1 ELSE 0
  IN  /\ pc[t] \in {"wait_lock", "woken"}
      /\ IF release_frees[c]
         THEN /\ FreeHelper(c)
              /\ shm_release_waiters' = waiters - 1
              /\ Return(t)
         ELSE /\ shm_release_waiters' = waiters
              /\ Goto(t, "blocked")
              /\ UNCHANGED << listed, mm, call, obj >>
      /\ UNCHANGED << refc, guarded, releasing, release_frees, mapcount >>

-----------------------------------------------------------------------------

\* A panic stops the system.
Halted == \E t \in Threads : pc[t] = "panic"

\* The steps a thread takes once it is inside a call.
Progress(t) ==
  \/ Unguard(t) \/ Get(t)
  \/ IncMap(t) \/ IncMapAgain(t) \/ IncMapFirst(t) \/ IncMapFails(t)
  \/ DecMap(t) \/ DecMapUnmap(t)
  \/ Put(t) \/ Last(t) \/ FreeGuarded(t)
  \/ SetReleaseFrees(t) \/ Broadcast(t) \/ ReleaseWait(t)

Call(t) ==
  \/ \E c \in Cookies : \/ Register(t, c) \/ AllocMapped(t, c)
                        \/ Find(t, c) \/ Release(t, c)
  \/ Map(t)

Next == ~Halted /\ \E t \in Threads : Progress(t) \/ Call(t)

Spec == Init /\ [][Next]_vars

\* Every call runs on: the normal world scheduler resumes its thread.
FairSpec == Spec /\ \A t \in Threads : WF_vars(~Halted /\ Progress(t))

-----------------------------------------------------------------------------

TypeOK ==
  /\ listed \in [Cookies -> BOOLEAN]
  /\ refc \in [Cookies -> Nat]
  /\ guarded \in [Cookies -> BOOLEAN]
  /\ releasing \in [Cookies -> BOOLEAN]
  /\ release_frees \in [Cookies -> BOOLEAN]
  /\ mapcount \in [Cookies -> Nat]
  /\ mm \in [Cookies -> BOOLEAN]
  /\ shm_release_waiters \in Nat
  /\ pc \in [Threads -> Locations]
  /\ call \in [Threads -> Calls]
  /\ obj \in [Threads -> Cookies \cup {NoCookie}]

\* The threads that use the mobj of a cookie, from finding or making it until
\* they have put it; the one that releases it, until it has freed it.
Users(c) == {t \in Threads : obj[t] = c}

\* The references threads have, and the one of the registration itself.
Refs(c) ==
  {t \in Users(c) : pc[t] \in {"unguard", "ref", "inc", "map", "mapped",
                                "unmap", "put", "panic"}}
  \cup (IF \E t \in Users(c) : call[t] \in {"register", "release"} THEN {}
        ELSE IF listed[c] /\ ~guarded[c] /\ ~releasing[c] THEN {NoCookie}
        ELSE {})

\* The reference count of a mobj is the number of its references, through any
\* interleaving of uses and a release: it reaches 0 once, in the last put.
RefsCounted == \A c \in Cookies : listed[c] => refc[c] = Cardinality(Refs(c))

\* A mobj is freed under nobody: not a user, nor a thread that is releasing it
\* or is about to tell the one that is.
NoUseAfterFree == \A t \in Threads : obj[t] \in Cookies => listed[obj[t]]

\* What get_by_cookie() found still has a reference when it takes one:
\* "Returns a valid pointer on success or NULL on failure", says mobj.h.
FoundIsReferenced ==
  \A t \in Threads : pc[t] = "found" => listed[obj[t]] /\ refc[obj[t]] > 0

\* A mobj is mapped as long as some thread between its inc_map() and its
\* dec_map() counts on it, although the count and the mapping are changed
\* under different locks; and it is not mapped for ever: when nobody maps or
\* unmaps it, a mobj is mapped only by the call that unmaps it by freeing it.
MappedWhileCounted ==
  \A c \in Cookies : listed[c] =>
    LET mappers == {t \in Users(c) : pc[t] = "mapped"}
        temps == {t \in Users(c) : call[t] = "temp"}
    IN  /\ mappers # {} => mm[c] /\ mapcount[c] > 0
        /\ mm[c] /\ mapcount[c] = 0 =>
             Halted \/ \E t \in Users(c) : pc[t] = "unmap"
        /\ mapcount[c] = Cardinality(mappers) \/ temps # {}

\* No release sleeps through the last put: "Once mobj_reg_shm_free() is called
\* it will set r->release_frees to true and we can free the mobj here".
NoLostRelease ==
  \A t \in Threads :
    pc[t] = "blocked" /\ release_frees[obj[t]] =>
      \E u \in Threads : pc[u] = "broadcast"

\* Once normal world released a buffer, and its users are done with it, the
\* call that releases it returns and the mobj is gone.
ReleaseReturns ==
  \A t \in Threads : call[t] = "release" ~> (call[t] = "none" \/ Halted)

=============================================================================
