# OP-TEE OS core: a verification development

The repository is the shared folder of a study group. Its one program is the
copy of OP-TEE OS in `src/范新东/projects/optee_os-master/`; everything else is
weekly plans, notes and papers. Paths below are relative to that copy, and
`core/` is where the program's own logic is.

These modules model the parts of OP-TEE whose correctness depends on
interleavings, failures and crashes: locks, the thread pool that normal world
drives, shared memory that normal world registers and releases, the buffers
threads borrow from normal world for their RPCs, the sessions of trusted
applications, and secure storage from the hash tree of a file up to the system
calls on persistent objects. TLC checks small instances; TLAPS proves the safety
properties of all of them, and the two refinements, for every value of the
constants.

## The system

OP-TEE runs in the secure world of a TrustZone processor and has no scheduler.
Normal world enters it by SMC. A *standard call* takes a free thread of a fixed
pool and runs on it; the thread leaves the core when it needs a service of
normal world (an *RPC*), or when an interrupt for normal world arrives, and
normal world resumes it later, on any core. A thread that must wait, for a
mutex say, makes an RPC that sleeps in normal world. So every blocking
operation is a message to a party that may be late, lose it, or answer early,
and the state of secure world is protected by spinlocks (no RPC inside) and
mutexes (RPC inside).

### Inventory

| Component (code) | State | Operations | Hard behaviour | What makes it correct | Module |
|---|---|---|---|---|---|
| Mutex, wait queue, condvar (`kernel/mutex.c`, `kernel/wait_queue.c`) | `state` (-1 writer, n readers), wait queue of elements on the waiters' stacks, condvar links | read and write lock, try lock, unlock, wait, signal, broadcast | three spinlock sections per operation, wake-ups by RPC that may be lost or early, batches of readers | exclusion; no lost wake-up; condvar wait releases and blocks in one step; every waiter is served | `Mutex`, `Monitor` |
| Recursive mutex (`kernel/mutex.c:69-125`) | owner, lock depth | lock, unlock | owner is read without the mutex | only the owner finds itself | planned |
| Thread pool (`arch/arm/kernel/thread.c`, `thread_optee_smc_a64.S`) | state, flags, registers, user map of each thread; current thread of each core | alloc and run, resume, suspend by RPC or interrupt, free | cores race for threads, normal world passes any thread number, context moves between cores | one core per thread; parameters only after an RPC; the map follows the thread | `ThreadPool` |
| Registered shared memory (`arch/arm/mm/mobj_dyn_shm.c`, `kernel/refcount.c`) | list of mobjs by cookie, reference and map counts, release flags, waiters | register, look up, map, unmap, put, release | counts changed outside the locks, a release waits for the last user | counted references; no use after free; mapped while counted; releases return | `RegShm` |
| RPC argument and shared memory caches (`arch/arm/kernel/thread_optee_smc.c`, `kernel/thread.c`) | RPC argument and cached buffers of each thread, the cache switch | allocate, reuse, free by RPC; enable and drain by fast call | failing allocations, argument used to free what it must outlive, calls with a supplied argument | every lent buffer held once and given back as what it was | `RpcArg` |
| TA sessions (`kernel/tee_ta_manager.c`, `kernel/user_ta.c`) | contexts with busy flag and count, sessions with count, lock and unlink flag, single-instance lock | open, invoke, cancel, close, destroy a panicked context | calls between TAs nest, close against invoke, loading drops the lock, panics | counts match the calls in progress; one call in a TA; no context used after it is freed; every call returns | `Sessions` |
| Pseudo TA contexts (`kernel/pseudo_ta.c`, `kernel/ts_manager.c`) | one context per session; stack of sessions of a thread | create, enter, push, pop | none: they never panic | the current session is the caller's | not modelled |
| Hash tree (`tee/fs_htree.c`) | two versions of head, nodes and blocks in storage; a tree in memory with dirty flags and the committed version of each | create, open, write a block, truncate, sync, close | the power may fail between any two writes; which version counts is spread over flags of parents | an update is atomic: the old or the new version as a whole; no write goes to what is committed | `Htree`, `AtomicFile` |
| REE file system (`tee/tee_ree_fs.c`, `tee/fs_dirfile.c`) | directory of names, file numbers and hashes; one handle on it with a count; file handles | open, create, write, rename, remove, enumerate | any write may fail, crash between them, file numbers are used again, one handle for all | the committed directory names only what can be opened; a handle keeps its entry | `Storage` |
| RPMB file system (`tee/tee_rpmb_fs.c`) | FAT, write counter, key | the same operations | failing and repeated writes | as above | planned |
| Persistent objects (`tee/tee_pobj.c`, `tee/tee_svc_storage.c`) | list of open objects with flags and counts | open, create, write, rename, delete, close, enumerate | sharing is decided on names while names change | openers agree on sharing, references are counted on every error path | `Storage` |
| Notifications (`kernel/notif.c`) | pending values, started flag, drivers | send, retrieve, start, stop, deliver | spinlock dropped around callbacks | no value lost, stop complete | planned |
| Lock dependency checker (`kernel/lockdep.c`) | graph of lock orders, held locks | acquire, try, release | graph algorithm | reports exactly the cycles | planned |
| Handle database (`kernel/handle.c`), page table cache (`arch/arm/mm/pgt_cache.c`) | array; pool of tables | get, put; get all, put all | threads wait for tables | handles unique; every thread gets its tables | planned |
| Address spaces, FF-A and SPMC, cryptography, boot, drivers, pseudo TAs, ldelf, libraries, TAs | | | | | not modelled |

How they interact: the mutex makes its waits and wake-ups as RPCs
(`thread_rpc_cmd()`), which use the thread's RPC argument and suspend the
thread in the pool; RPC arguments and payload buffers in dynamic memory are
mobjs of the registered shared memory, whose releases wait on a mutex and a
condvar. Sessions wait for each other on condvars over one mutex, `tee_ta_mutex`,
and a TA that opens a session with another is a thread whose calls are stacked.
The system calls of storage take a reference in the list of open objects, then
call the file system, which holds one mutex over each of its operations and
works on two hash trees, of the file and of the directory.
Every module takes the guarantees of the ones below it as its atomic
steps.

## Modules

### Mutex, Monitor

`Mutex.tla` has one action per critical section of `m->spin_lock` or
`wq_spin_lock` and one per RPC. `state` and `wq` are the mutex's fields;
`wait_read`, `cv` and `done` those of a thread's `struct wait_queue_elem`. The
queue itself is shared by nothing else, one mutex being enough to show what it
does. A location (`pc`) names the code a thread is about to run: `Acquire` is
a successful turn of the loop in `__mutex_lock()`/`__mutex_read_lock()`,
`Enqueue` a failed one, `NotifWait` and `SpuriousWait` the wait RPC in
`wq_wait_final()`, `WakeFirst`/`WakeNone` one search of `wq_wake_next()`,
`SendSync` its notification, `Promote` one turn of `wq_promote_condvar()`,
`CondvarLink` and `CondvarEnqueue` the two halves of `__condvar_wait()`. The
result of the RPCs is not used by the code (`do_notif()` logs it), so a wait
may return at any time.

`Monitor.tla` is what the mutex promises: a set of readers, a writer, and for
each condvar the threads that wait on it. Waiting is one step that leaves the
mutex and joins the condvar; a signal takes one of those that wait, a broadcast
all, to where they want the mutex again. `Mutex` implements it under the mapping
at its end (`phase`, `cond`), which TLC checks and `MutexProofs` proves.

### ThreadPool

Two steps of a core enter a thread, one under `thread_global_lock`
(`AllocThread`, `ResumeThread`) and one after it (`RunThread`,
`RestoreThread`); leaving is one step, all exceptions being masked
(`SuspendThread`, `FreeThread`). Normal world is any sequence of calls on any
core. What a thread's code does in between is `SetUserMap`, the part the pool
saves and restores. Registers are reduced to who wrote the argument registers,
user maps to names. Two history variables (`left`, `mapping`) hold what the
thread itself did, for the properties to compare with.

### RegShm

A mobj is named by its cookie. `pc`, `call` and `obj` say where a thread is,
in which call, with which mobj. Each atomic operation of `refcount.c` is a
step, and so is each section of the list lock, the map lock and `shm_mu`;
`condvar_wait(&shm_cv, &shm_mu)` is one step because `Mutex` implements
`Monitor`. With `CarefulNW` normal world keeps the protocol of its driver: a
cookie is passed only between its registration and its release, and released
once the calls that pass it have looked it up. Without it the code panics (see
Findings).

### RpcArg

The state of a thread's RPC argument (`rpc_arg`, `rpc_mobj`), its shared memory
cache (`shm_cache`, one entry per user) and of every buffer of normal world
(`lent`, the account normal world keeps, which is not code of the repository).
A standard call is `StartCall`, `EnterSupplied` if it brings an argument,
allocations, then the clean-up of `call_entry_std()` one RPC at a time:
`ClearShmEntry`, `ShmCleared`, `LeaveCall`. The fast calls `DisableOne`,
`DisableDone` and `Enable` run under the global lock with every thread free.
`BadFor` names the cache users to whom normal world may lend a buffer that
cannot be used.

### Sessions

One action per section of `tee_ta_mutex`, or per stretch between two sections
that reads what sections write. `condvar_wait()` on `tee_ta_mutex` is two steps
of `Monitor`: `Enqueue` in the section that waits, and the section that a signal
allows; `waitq` holds each condvar's threads in order.

A thread has a stack of calls (`stack`), because a TA that runs opens and uses
sessions of its own. A call is `op` (open, invoke, cancel or close), `pc`, the
session `s`, the context `c` it read, its `res`, and `own`, the list
the session is on: normal world's or that of the TA that called. Sessions
(`sess`) and contexts (`ctxs`) have the fields of `struct
tee_ta_session` and `struct tee_ta_ctx` that the code decides by: the count,
lock, unlink flag and context of the first, the count, busy flag, panicked flag
and initialisation flag of the second; `tee_ctxes` is the list of contexts.

| Code | Actions |
|---|---|
| `tee_ta_init_session()` | `Lookup` (with `Taken`, `Joined`), `LookupAgain`, `OpenNoMemory` |
| `tee_ta_init_user_ta_session()` | `Load`, `LoadNoMemory`, `Loaded`, `LoadFails`, `OpenFails` |
| `tee_ta_try_set_busy()`, `lock_single_instance()` | `SetBusy`, `SetBusyWait`, `SetBusyRefuses` |
| the TA, from `user_ta_enter()` | `Use`, `TaReturns`, `TaPanics` |
| `tee_ta_clear_busy()` | `UnlockSingle`, `ClearBusy`, `AfterRun` |
| `tee_ta_get_session()`, `tee_ta_put_session()` | `Get`, `GetAgain`, `GetNothing`, `Got`, `Put` |
| `tee_ta_close_session()`, `destroy_session()` | `Unlink`, `UnlinkAgain`, `Removed`, `DropContext` |
| `destroy_ta_ctx_from_session()`, `free_utc()` | `DestroyContext`, `FreeCloses`, `FreeContext` |

`halted` is a panic of the core or a failed assertion, after which nothing
moves. A context that was freed stays a value with the flag that says so, so
that a use of it can be seen. The client in normal world invokes, cancels and
closes ids it was given and closes each once. With `FreshIds` an id comes back
only when no pending call names it. Without it `RefsCounted` does not hold: a
late call meets a session that is being set up (see the hazards).
`SessionsProofs.tla` has the theorems (see Proofs).

### Htree, AtomicFile

One file. `head`, `node` and `block` are storage, two places for each; `ht` is the
tree in memory (`struct tee_fs_htree`, with the dirty flags as the sets
`dirtyNodes` and `updated`); `saved` is the root hash that the directory
has for the file, `dfh` the one of the last sync. A hash is the tuple of what
`calc_node_hash()` hashes, so equal hashes have hashed the same. An `iv` is the
number of the write (`ivs`): `authenc_init()` draws a random one for each block it
seals, which is taken never to repeat, whatever block it is for. So a stale or a torn tree is told from a sound one as the code tells it.

| Code | Actions |
|---|---|
| `tee_fs_htree_open()` | `Create` with `DummyHead`, `Open` |
| `out_of_place_write()`, `tee_fs_htree_write_block()` | `WriteBlock` |
| `ree_fs_ftruncate_internal()`, `tee_fs_htree_truncate()` | `Truncate` |
| `tee_fs_htree_sync_to_storage()` | `Sync`, then `SyncNode` per dirty node in post-order, `SyncHead` |
| the directory's commit of the new hash | `Save` |
| `tee_fs_htree_close()`, a failed write, a power failure | `Close` |

`lookup` says how a file is found: a file by the hash in the directory, the
directory file itself by the counters of its two heads. A power failure is
`Close`, which is enabled after every write: all that is in memory goes.

`AtomicFile.tla` is the contract of `fs_htree.h`: a committed content, an open
content, and a commit that makes the second the first in one step. `Htree`
implements it under the mapping that reads the file back from storage
(`Opens`, `Loaded`, `Seen`), for both kinds of lookup. `lost` names blocks that a
truncate cut from storage before its commit. `HtreeProofs` proves the refinement
(see Proofs).

### Storage

Sessions of TAs that share objects (`Clients`), each with one object or one
enumerator open. `pobj` is the list of `tee_pobj.c`, `obj` a client's object with
its file handle, `dirh` and `refs` the shared handle of the directory and its
count, `dir` an enumerator. In storage there are the committed directory
(`dirf`) and for each file number the hashes of the versions it has (`file`):
what `Htree` and `AtomicFile` show, that a sync replaces the version the handle
is not based on and the directory's commit is one step, is what one action does
here. `pc` and `arg` are where a client is in its system call; `Locked` is
`ree_fs_mutex`, held over an operation of several writes. An action that writes
has a disjunct in which the write fails, with the clean-up of that error path;
`Crash` is a reset.

| Code | Actions |
|---|---|
| `syscall_storage_obj_open()`, `ree_fs_open()` | `Open`, `FsOpen`, `Release` |
| `syscall_storage_obj_create()`, `ree_fs_create()`, `set_name()` | `Create`, `FsCreate`, `SetName`, `SetNameFails`, `RemoveOld`, `CreateFinal` |
| `ree_fs_write()`, `ree_fs_truncate()` | `Write`, `Commit` |
| `syscall_storage_obj_rename()`, `ree_fs_rename()`, `tee_pobj_rename()` | `Rename`, `FsRename`, `PobjRename` |
| `syscall_storage_obj_del()`, `ree_fs_remove()` | `Delete`, `FsRemove`, `RemoveFile` |
| `syscall_storage_next_enum()` and the directory calls | `StartEnum`, `NextEnum`, `EnumGet`, `EnumOpen`, `CloseDir` |
| `tee_obj_close()` | `Close` |

## Runs

| Run | Shows | Instance | Distinct states |
|---|---|---|---|
| `mutex_safety` | exclusion, no lost wake-up, queue and condvar soundness; `Mutex` implements `Monitor` | 3 threads, 1 condvar, lost notifications | 472,812 |
| `mutex_live` | every waiter is served | 3 threads, 1 condvar, 5 calls in all | 338,320 |
| `threadpool_safety` | one core per thread, sound arguments and maps | 2 cores, 3 threads, 2 maps | 510,818 |
| `regshm` | references, mappings, releases; releases return | 3 threads, 2 cookies | 49,511 |
| `rpcarg_safety` | buffers, cookies and draining | 3 threads, 5 buffers, 2 users | 12,773 |
| `sessions_safety` | counts, locks and busy flags match the calls | 2 threads, 3 TAs that open each other, one of which panics, 3 sessions | 2,395,148 |
| `sessions_live` | calls return; no assertion of the core fails, no panicked TA is entered | 2 threads, 2 TAs that panic, 3 sessions | 388,803 |
| `sessions_twice` | finding 1 | 2 threads, 1 TA, 2 sessions | violation |
| `htree_crash` | `Htree` implements `AtomicFile`; committed blocks stay readable | 4 blocks, 5 writes, 4 syncs, truncation to 0 and 1 half blocks, both lookups | 513,188 |
| `htree_shrink` | finding 2 | 4 blocks, truncation to 4 half blocks | violation |
| `storage_safety` | the directory is intact, handles keep their entries, openers agree, references are counted | 2 clients, 2 names, 2 file numbers, 4 hashes | 2,557,639 |
| `storage_enum` | finding 3 | the same | violation |

Why the bounds are enough to be interesting. Three threads are the least that
has a holder, a waiter and a thread that overtakes it, or a writer waiting on
two readers, or a waker whose queue changes while it loops. Two cores and three
threads let a thread move between cores while another takes its place, with a
thread to spare. Three threads on a mobj are a releaser and two users that race
on the map count, or two releasers and a user; the second cookie makes them
share the condvar and the count of waiters. Five buffers are fewer than three threads can hold, so
allocations fail for lack of buffers too. Two threads in `Sessions` are up to
four calls, one nested in the other on each thread; three sessions let one
context have two while another TA has one, and two contexts let one TA open
another, while a third finds no memory to be loaded. Two calls a thread (`MaxCalls`,
nested ones included) are an open and a use of what it opened, or an open made
inside another, with any part of the other thread's calls in between. In
`sessions_live` a context has one session, because with more a panic leads to
what is listed under Findings. Four blocks make a tree of three levels, so that a
change goes up through a node that did not change itself; five writes and four
syncs (the first creates the file) write a block more than once between syncs,
and both places of every node. Two clients and two names in `Storage` with as
many file numbers as names reuse numbers and places in the directory; two
clients are an owner and another that opens, enumerates or creates the same
name in any of its steps. Symmetry is used in safety runs only, over
constants that no definition orders; thread numbers are ordered (the pool takes
the first free one) and are not permuted.

`MCMutexLive.tla` bounds the number of calls made in a behaviour (`MaxCalls`). The
mutex is not fair: a thread that keeps locking and unlocking can keep others
waiting for ever, with every wake-up delivered. The property is that waiters
are served once no new call overtakes them.

Deadlock is checked except where the system may stop: the liveness run of the
mutex stops when all calls are made, and `RegShm` stops in a panic,
which ends the system; `Sessions` ends when the calls are used up, or in a
panic, `Htree` when its writes and syncs are. `Storage` never stops.

## Fairness

Threads make progress because the normal world scheduler resumes every
suspended thread it knows of and the client's thread behind a call keeps being
scheduled: weak fairness on the steps a thread takes inside a call
(`Progress`). No fairness is assumed of new calls, of waits that return early
(`SpuriousWait`), of successful try locks, or of normal world ever releasing a
buffer. That a notification sent is delivered is what the wait RPC of the
normal world driver does; it is the fairness of `NotifWait`.

In `Sessions` it is weak fairness of each thread's `Step`: a thread that is not
in `condvar_wait()` gets `tee_ta_mutex` (what `WaitersAreServed` shows of the
mutex) and a TA that was entered returns or panics. No fairness is assumed of
new calls: a client may keep a session for ever. In `RegShm` it is weak fairness
of each thread's steps inside a call, a use of a mobj included: the RPCs it
serves come back. `Htree` and `Storage` state safety only: what they promise is
about whatever happens, crashes included.

## Findings

1. `sessions_twice`: the mutex is dropped between the search for a loaded TA and
   the listing of a new context, so two threads can each load an instance of a
   single-instance TA. Waiting on `tee_ta_init_cv` only covers the time after the
   listing, and nobody looks a second time.
2. `htree_shrink`: `tee_fs_htree_truncate()` unlinks the nodes that are cut and
   marks no parent as dirty, while `calc_node_hash()` covers the children a node
   has. A sync then writes the root and leaves a node on disk whose hash
   covers children that are gone: `verify_tree()` refuses the committed file. It
   takes a node below the root to lose a child, as when four blocks become two.
3. `storage_enum`: `put_dirh_primitive(true)` of a failed operation frees the
   directory handle while an enumerator has the pointer of
   `ree_fs_opendir_rpc()`; the comment at `tee_ree_fs.c:598` takes into account the
   operations that fetch it anew only. The reference count stays, so the handle
   that is opened next is counted for the enumerator too.

Seen in the same models, and outside what the runs assume (each can be had by the
constant that is named):

- `RegShm`: the assertion `r->mm` of `reg_shm_unmap_helper()`
  (`mobj_dyn_shm.c:117`) can fail. Thread 1 brings `mapcount` to 0 in `dec_map()`
  and has not taken the lock; thread 2 maps (finds `r->mm` set, sets the count to
  1) and unmaps (count 0 again). Both now find 0 under the lock: the first
  unmaps, the second finds no mapping. `MappedWhileCounted` holds to the end: what
  fails is the second unmapping, and the model stops there.
- `Sessions` with a single-instance keep-alive TA that panics: it stays listed; a session opened
  with it is closed by `tee_ta_open_session()` (lines 747-750) while it still holds the
  reference of `tee_ta_init_session()`, and `tee_ta_unlink_session()` waits for
  that reference to go: the call never returns (`CallsReturn` fails).
- `Htree` with `SameLength = TRUE`: a truncate to the length the file has changes
  no node but writes node 1 to its other place, and two versions with one hash
  choose the head of the first. The head found may be the older one: its counter
  goes back, and with it the parity by which the next sync chooses its places.
- `Storage` with `EnumRename = TRUE`: `tee_pobj_rename()` refuses an object that an
  enumeration has just taken, after the file system renamed it; the open object
  keeps the old name, and sharing is decided on names (`OpenersCompatible` fails).
- `Storage` with `RetryAfterError = TRUE`: when the commit of the directory fails,
  the handle goes on from a version the directory does not name, and its next
  sync overwrites the one it does name (`DirectoryIntact` fails).
- `Storage` with writers that share an object (`Modes` and `CreateModes` of
  `SharedWriters`): an object that is overwritten by one leaves the other with the
  place of a file that is gone (`WriterHasEntry` fails).

- `RegShm` with `CarefulNW = FALSE`: `mobj_reg_shm_get_by_cookie()` takes its
  reference after the list lock is dropped. A release in between makes
  `mobj_get()` panic where `mobj.h:269` promises NULL (`FoundIsReferenced` fails).
  A normal world that releases a buffer while a call that passes it starts is
  needed, which a careful driver is not.
- `RpcArg` with a kernel private user in `BadFor`, which `KernelBuffersMap`
  excludes: when the buffer lent for it
  cannot be used, `thread_rpc_shm_cache_alloc()` frees it with the type the entry
  had before (`FreeTypeMatches` fails).
- `Sessions` with a single-instance multi-session TA that panics: it panics in one call; a second
  thread, with another session of the same context, reads `ctx->panicked`
  without `tee_ta_mutex`, destroys the context and frees it before the first has
  executed `tee_ta_clear_busy()` on it. `destroy_ta_ctx_from_session()` clears
  the pointers of sessions, not those that calls in progress have read
  (`NoStaleContext` fails). In the same instance, `assert(count == ctx->ref_count)`
  (`tee_ta_manager.c:384`) fails when a session of the context has been unlinked
  and its closer has not yet lowered the count.
- `Sessions` with a TA that opens a session with itself: `SetBusyRefuses` makes
  the open fail with `TEE_ERROR_BUSY`, the error path closes the session, and
  `tee_ta_set_busy()` panics on the refusal it gets for the same reason. The
  instance of `sessions_safety` has such a TA and does not check `NoCorePanic`.

## Proofs

`MutexProofs`, `ThreadPoolProofs`, `RegShmProofs`, `RpcArgProofs`, `SessionsProofs`,
`HtreeProofs`, `StorageProofs` and `StorageSharing` hold for any number of
threads, cores, condvars, maps, mobjs, buffers, users, TAs, sessions, contexts,
tree nodes, writes, syncs, clients and names; the assumptions on constants are those named in the modules
(`MutexAssumption` and its like), which TLC evaluates in every run.

- *Mutex*: `TypeCorrect`, `Exclusion`, `QueueSound`, `LostWakeupFree`,
  `CondvarSound`. `StateCountsHolders` is inductive with types. The queue needs
  to know that a thread is queued exactly while its location is inside a wait,
  once, and that elements removed are done. No lost wake-up is an invariant
  about threads that are *about to* wake: every step that frees the mutex, or
  enqueues on a free one, leaves a thread on its way to `wq_wake_next()`; the
  inductive invariant says so for each location.
- *Mutex implements Monitor* (`MutexProofs`): `Implements`. The mapping is
  described thread by thread (`Mapped`); a thread whose location, condvar and
  place in the queue a step leaves alone stays where it is in the monitor
  (`LeftAloneStays`), so each step is about the threads it moves: `Lock` is a
  request, `Acquire` an entry, which `CanLockAdmits` allows by
  `StateCountsHolders`, `CondvarEnqueue` the wait, `Promote` the signal, with the
  first of the queue's waiters or all. One more invariant is needed,
  `CondvarLinked`: who waits on a condvar has stored the mutex in it, so a signal
  that finds none has nobody to signal.
- *ThreadPool*: `TypeCorrect`, `Exclusive`, `ArgsSound`, `MapSound`. The
  invariant adds what holds of a thread that is off its core (`SavedContext`:
  flags, registers and map saved agree with how it left) and of a core that has
  claimed a thread and not entered it (`CoreContext`).
- *RegShm*, each under `CarefulNW`: `TypeCorrect`, `CountsRight`, `FreedAlone`,
  `FoundInTime`, `MappedInTime`, `ReleaseIsTold`. The invariant has three parts.
  `RefInv` is about who may have a mobj: a guarded one has one user, one being
  released has one releaser, one just found by cookie is neither (`Kinds`,
  `FoundOpen`); the count is the number of threads at locations that hold a
  reference, plus the registration's (`Counted`); at 0 one thread is between the
  last put and `release_frees` (`Finishing`, `FreesLast`). `MapInv` counts the
  mappers in the same way. `WaitInv` ties `shm_release_waiters` to the threads
  that sleep, so that the last put broadcasts while any releaser has not seen
  its flag.
- *RpcArg*: `TypeCorrect`, `CookieSound`, `Drained`, `FreedAsAllocated`,
  `NothingLeaked`. The invariant adds when a thread can have cached entries
  (`ShmInCall`), a supplied argument (`SuppliedInCall`) and an argument of its own
  with the cache off (`OwnFromCache`); the account of lent buffers follows from
  one lemma on what giving and freeing do to it, applied to every action.
- *Sessions* (`SessionsProofs`): `RefsAlwaysCounted`, `SessionUsedByOne`,
  `TaUsedByOne`, `SingleLockAlwaysCounted`, `ContextRefsAlwaysCounted`,
  `NeverStaleContext` and the action property `PanickedNeverEntered`, all from
  `Invariant`. The hypothesis is `Orderly`: `FreshIds`, and no single-instance TA
  that panics is multi-session or keep-alive (the code reads these flags of
  single-instance TAs only). Both runs that pass have such constants,
  TAs that panic included; each part is needed, as Findings and the hazards show
  (an id that comes back while a call names it, a context freed under another
  session of a dead TA, a dead TA that stays listed): when all three TAs of
  `sessions_safety` may panic, TLC finds each of the six invariants violated. The
  places of the
  calls are what makes the proof long: `tee_ta_mutex` is dropped between any two
  actions, so the invariant (`IInv`) says for each of the nineteen places what the
  call there still relies on. `Types` has the shape of a call at each place, and
  that a thread's calls nest: only a call whose TA runs, or whose context is
  being freed, has one above it, which is on that TA's list of sessions.
  `SessInv` ties references and locks to calls and says that a session being
  opened has one user (`OpenAlone`), so that its failure may free it. `TaInv` ties
  the busy flag and the single-instance lock to the calls in TAs. `ContextInv`
  has the count of each listed context (`ListOf`): the sessions in it plus the
  closes that have unlinked theirs. `CtxOf` is what a call knows of its
  context: listed until the call itself takes it off, and from then on named by
  nobody else; not panicked from the look at `ctx->panicked` to the entry. The
  key lemma is `Alone`: a context with a count of 1 is in one hand. A TA that
  panics has such a context, so no other call has seen it alive, and the load
  that fails and the close that drops the last session free what no one else
  has. `Sole` is its twin for sessions: one call at a time works with what a
  session is in.
- *Sessions, the core never panics* (`CoreNeverPanics`, `NoCorePanic`): under
  `Orderly` and `Layered`, which says that the TAs have ranks that fall from each TA to those
  it opens, as in `sessions_live`. It is needed: a TA that opens a session with
  itself makes `tee_ta_set_busy()` panic (see Findings). There are four ways to
  panic. The count that `destroy_ta_ctx_from_session()` asserts is right because
  the context of a TA that panicked has one session (`DestroyFinds`), and a close
  that has yet to lower the count of its context is in that count (`DropFinds`):
  both follow from `IInv`. `CoreInv` adds what the other two need. Whoever is in the
  queue of a busy TA is at `tee_ta_try_set_busy()` with that context (`WaitInv`),
  which is then listed, so `condvar_destroy()` finds nobody (`CondvarUnused`). The
  sessions and calls of a TA are with TAs it opens (`OpensInv`), so ranks fall up
  each stack (`Falls`) and no thread asks for a TA it is already in (`NotTwice`);
  the single-instance lock has a count while it is held (`HeldInv`). So whoever finds a
  TA busy has no lock to be refused for, and waits (`BusyWaits`).
- *The hash tree implements the atomic file* (`HtreeProofs`): `Implements`,
  `BlocksStayReadable`, `SavedAlwaysOpens`, of `CleanSpec`: `Spec`, whose every
  truncate changes the length and cuts no node from a parent it keeps, unless that
  is the root, the one node the truncate dirties. Each half is needed:
  `htree_shrink` refutes `SavedOpens` without the second, and a truncate to the
  same length breaks atomicity as Findings say. `CleanLengthsSuffice` says for which lengths the
  hypothesis holds of all behaviours, those of `htree_crash` (0 and 1 half blocks)
  among them. The argument has three parts. *Hashes*: a tree loaded from storage
  is the one its nodes were written from (`ReadsSame`, `LoadedReads`), and equal
  root hashes are equal trees (`SameHashSameTree`), so that a version is not taken
  for another. *Places*: `Base` is the version that the open tree came from, whole in
  storage and the one that is found (`BaseInv`); a node is written to the place `Base`
  does not use, a block that was written since the last sync has moved (`GrownInv`),
  and no other node or block is written, so each `SyncNode` leaves what `Base` reads.
  *Order*: in post-order a node that has moved comes before every node still
  dirty (`MovedInv`, `PostOrderOk`), so a clean node has the hash of its children or
  one of them is dirty (`CleanNodes`), and when only the head is left the new tree
  is in storage as it is in memory (`NewTree`). `SyncHead` is the
  commit when the counters decide, `Save` when the directory does; in between the
  directory's hash still finds `Base`, because a dirty tree differs from it in its
  length, a seal or a node (`Differs`) and so in its hash. TLC found the same invariant to hold with
  four nodes, four writes and four syncs and the lengths of `htree_crash`, with three nodes and
  lengths up to 5, and under `CleanSpec` with four nodes and all lengths up to 7.
- *Storage, however the TAs behave* (`StorageProofs`): `StorageTypes`,
  `ReferencesCounted`. A step moves the two counts exactly as it moves the
  references of the one client that acts (`PobjMoves`, `DirMoves`); `PobjStep` and
  `DirStep` sum that up over the clients. The invariant (`SInv`) adds what a call
  has at each place (`Shape`), that entries share neither name nor file
  (`Unique`), that the directory in memory is the one on storage with a bit for
  each file (`Coherent`), and what the owner of `ree_fs_mutex` relies on (`Mutex`).
  With them a create always finds a free file number, place, object and hash
  (`HashLeft` and its neighbours, by the pigeonhole principle): `StorageAssumption`
  asks for as many hashes as one for each handle, one for the entry and one more.
- *Storage with careful TAs* (`StorageSharing`): `DirectoryStaysIntact`,
  `WriterKeepsEntry`, `OpenersAgree`, `WriterOwnsEntry`, each under `CarefulTas`: no
  TA uses a handle after an error, objects are not enumerated while they are
  renamed, and whoever creates or writes an object opens it with flags that
  exclude all others. The run has such TAs; each of the three is needed, as the
  counterexamples under Findings show. `ListInv` says what the list of open
  objects guarantees: openers of one object are compatible, open objects have
  different names, a rename has its object for itself and the object that holds
  the new name is reserved by it alone. So whoever has exclusive flags has the
  *name* for itself (`Alone`). `DiskInv` says that a handle is at the entry with
  that name and that the entry's version is in its file, so it has the *entry*
  for itself (`EntryAlone`), through the steps in which storage and list disagree
  on the name. `WriterOwns` follows from what each action does to the entries of
  the other clients (`EntriesKept`).

Only model-checked: liveness (`WaitersAreServed`, `ReleaseReturns`,
`CallsReturn`), which is outside what the prover does. The recursion in `Htree` is in
recursive functions over node numbers; what they compute is proved by a least
counterexample, which `HasLeast` takes from the well-founded order of finite
sets, since the library's induction cannot be used. The counter of a head has no
bound in the theorems and is 32 bits wide in the code.

## Not modelled

Of the TA manager: parameters and their checks, client identities,
cancellation timeouts, memory statistics and dumps, profiling, and pseudo TAs,
whose contexts are private to a session.

Of storage: reading and seeking, attributes and the object info, keys and
the encryption itself (a seal stands for it), data that normal world forges, the
copy of the directory's hash in RPMB, and the RPMB file system, whose FAT
entries and write counter are a system of their own. Notifications, the page
table cache, the handle database, the lock dependency checker and the recursive
mutex are planned (below).

Spinlocks, interrupt masks and the assembly of world switches are taken as the
atomicity they give. The SMC ABI without NS virtualization is the
configuration; FF-A and the SPMC are others. Cryptography, drivers, boot,
page table formats, ldelf, the user mode libraries and the trusted applications
are outside these models: pure functions, hardware access or sequential code.
They are most of the repository: nearly half a million lines, of which TLS and
cipher libraries, drivers and platform code, register definitions and test
code are by far the largest part and `core/kernel`, `core/tee` and the
architecture's thread and memory code, where these models are, a few per cent.
`mutex_destroy()` and `condvar_destroy()` only check that nobody waits.

## Plan

1. Done: `Mutex` with `Monitor`, `ThreadPool`, `RegShm`, `RpcArg`, `Sessions`, `Htree`
   with `AtomicFile`, `Storage`.
2. Proofs done: `Mutex` and its refinement of `Monitor`, `ThreadPool`, `RegShm`,
   `RpcArg`, `Sessions`, `Htree` and its refinement of `AtomicFile`, `Storage`.
3. `Notif` (events delivered while drivers come and go), `PgtCache` (threads that
   wait for tables), `RecursiveMutex`, `HandleDb`: one small module each, with
   their proofs. Left of `Sessions`: pseudo TA contexts.
4. The composition of `RpcArg` with `RegShm`, where the mobjs of the RPC argument
   are counted on its error path.
5. `Lockdep` and the timeout arithmetic of `set_invoke_timeout()` as pure
   algorithms against reference definitions; the RPMB file system on `AtomicFile`.
