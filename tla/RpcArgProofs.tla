---------------------------- MODULE RpcArgProofs ----------------------------
(***************************************************************************)
(* For any number of threads, buffers and users of the cache: the cookie   *)
(* an RPC sends names the argument it fills, and a thread that is free has *)
(* given everything back once the cache is disabled.  Every buffer that    *)
(* normal world lent is held in one place, and given back as what it was   *)
(* asked for.                                                              *)
(***************************************************************************)
EXTENDS RpcArg, FiniteSetTheorems, TLAPS

\* Only a thread in the middle of a call that makes RPCs has cached entries.
ShmInCall ==
  \A t \in Threads : pc[t] \notin {"run", "clear"} =>
    \A u \in CacheUsers : shm_cache[t][u] = NewEntry

\* A supplied argument is in use from the moment call_entry_std() takes it
\* until the shared memory cache is cleared.
SuppliedInCall ==
  \A t \in Threads : rpc_arg[t] = "supplied" => pc[t] \in {"run", "badcmd", "clear"}

\* A thread begins a call with an argument of its own only if the cache is on,
\* which does not change before the call ends.
OwnFromCache ==
  \A t \in Threads :
    ~thread_prealloc_rpc_cache /\ pc[t] \in {"free", "enter", "badcmd"}
      => rpc_arg[t] # "own"

IInv == CargMatchesArg /\ ShmInCall /\ SuppliedInCall /\ OwnFromCache

-----------------------------------------------------------------------------

\* What normal world is told to free keeps the account of the buffers typed.
LEMMA FreedType ==
  ASSUME NEW b, NEW for, NEW lnt \in [Buffers -> {"no", "arg", "mismatch"} \cup ShmTypes]
  PROVE  Freed(b, for, lnt) \in [Buffers -> {"no", "arg", "mismatch"} \cup ShmTypes]
BY DEF Freed, ShmTypes

LEMMA EntryFreedType ==
  ASSUME NEW t, NEW ce, NEW lnt \in [Buffers -> {"no", "arg", "mismatch"} \cup ShmTypes]
  PROVE  EntryFreed(t, ce, lnt) \in [Buffers -> {"no", "arg", "mismatch"} \cup ShmTypes]
BY FreedType DEF EntryFreed

\* get_shm_cache_entry() makes an entry.
LEMMA InitEntry == NewEntry \in Entries
BY DEF NewEntry, Entries, ShmTypes

LEMMA InitType == Init => TypeOK
<1> SUFFICES ASSUME Init PROVE TypeOK
  OBVIOUS
<1> USE DEF Init
<1>1. thread_prealloc_rpc_cache \in BOOLEAN
  OBVIOUS
<1>2. /\ rpc_arg \in [Threads -> {"null", "own", "supplied"}]
      /\ rpc_mobj \in [Threads -> Buffers \cup {NoBuf}]
  OBVIOUS
<1>3. shm_cache \in [Threads -> [CacheUsers -> Entries]]
  BY InitEntry
<1>4. lent \in [Buffers -> {"no", "arg", "mismatch"} \cup ShmTypes]
  OBVIOUS
<1>5. pc \in [Threads -> Locations]
  BY DEF Locations
<1> QED BY <1>1, <1>2, <1>3, <1>4, <1>5 DEF TypeOK

\* Type correctness of one step.
LEMMA TypeStep == TypeOK /\ [Next]_vars => TypeOK'
<1> SUFFICES ASSUME TypeOK, [Next]_vars PROVE TypeOK'
  OBVIOUS
<1> USE DEF TypeOK
<1>1. ASSUME NEW t \in Threads, StartCall(t) PROVE TypeOK'
  BY <1>1 DEF StartCall, Goto, Locations, argVars
<1>2. ASSUME NEW t \in Threads, EnterSupplied(t) PROVE TypeOK'
  <2>1. CASE thread_prealloc_rpc_cache
    <3>1. lent' \in [Buffers -> {"no", "arg", "mismatch"} \cup ShmTypes]
      BY <1>2, <2>1, FreedType DEF EnterSupplied, ClearArg
    <3>2. pc' \in [Threads -> Locations]
      BY <1>2 DEF EnterSupplied, Goto, Locations
    <3> QED BY <1>2, <2>1, <3>1, <3>2 DEF EnterSupplied, ClearArg
  <2>2. CASE ~thread_prealloc_rpc_cache
    BY <1>2, <2>2 DEF EnterSupplied, Goto, Locations
  <2> QED BY <2>1, <2>2
<1>3. ASSUME NEW t \in Threads, NEW b \in Buffers, GetArg(t, b) PROVE TypeOK'
  BY <1>3 DEF GetArg
<1>4. ASSUME NEW t \in Threads, NEW u \in CacheUsers, NEW b \in Buffers, ShmAlloc(t, u, b)
      PROVE TypeOK'
  <2>1. [mobj |-> b, type |-> TypeOf(u)] \in Entries
    BY DEF Entries, TypeOf, ShmTypes
  <2>2. EntryFreed(t, shm_cache[t][u], lent)
          \in [Buffers -> {"no", "arg", "mismatch"} \cup ShmTypes]
    BY EntryFreedType
  <2> QED BY <1>4, <2>1, <2>2 DEF ShmAlloc, argVars, TypeOf, ShmTypes
<1>5. ASSUME NEW t \in Threads, NEW u \in CacheUsers, ShmAllocFails(t, u) PROVE TypeOK'
  <2>1. [mobj |-> NoBuf, type |-> shm_cache[t][u].type] \in Entries
    BY DEF Entries
  <2> QED BY <1>5, <2>1, EntryFreedType DEF ShmAllocFails, argVars
<1>6. ASSUME NEW t \in Threads, NEW u \in CacheUsers, NEW b \in Buffers,
             ShmAllocBad(t, u, b)
      PROVE TypeOK'
  <2> DEFINE given == EntryFreed(t, shm_cache[t][u], lent)
  <2>1. [mobj |-> NoBuf, type |-> shm_cache[t][u].type] \in Entries
    BY DEF Entries
  <2>2. given \in [Buffers -> {"no", "arg", "mismatch"} \cup ShmTypes]
    BY EntryFreedType
  <2>3. [given EXCEPT ![b] = TypeOf(u)]
          \in [Buffers -> {"no", "arg", "mismatch"} \cup ShmTypes]
    BY <2>2 DEF TypeOf, ShmTypes
  <2> QED BY <1>6, <2>1, <2>3, FreedType DEF ShmAllocBad, argVars
<1>7. ASSUME NEW t \in Threads, EntryDone(t) PROVE TypeOK'
  BY <1>7 DEF EntryDone, Goto, Locations, argVars
<1>8. ASSUME NEW t \in Threads, NEW u \in CacheUsers, ClearShmEntry(t, u) PROVE TypeOK'
  BY <1>8, InitEntry, EntryFreedType DEF ClearShmEntry, argVars
<1>9. ASSUME NEW t \in Threads, ShmCleared(t) PROVE TypeOK'
  BY <1>9 DEF ShmCleared, Goto, Locations
<1>10. ASSUME NEW t \in Threads, LeaveCall(t) PROVE TypeOK'
  BY <1>10, FreedType DEF LeaveCall, ClearArg, Goto, Locations, argVars
<1>11. ASSUME NEW t \in Threads, DisableOne(t) PROVE TypeOK'
  BY <1>11, FreedType DEF DisableOne, ClearArg
<1>12. CASE DisableDone
  BY <1>12 DEF DisableDone, argVars
<1>13. CASE Enable
  BY <1>13 DEF Enable, argVars
<1>14. CASE UNCHANGED vars
  BY <1>14 DEF vars
<1> QED BY <1>1, <1>2, <1>3, <1>4, <1>5, <1>6, <1>7, <1>8, <1>9, <1>10, <1>11,
          <1>12, <1>13, <1>14 DEF Next, Step

\* RpcArg keeps the types of its variables (call_entry_std(), the RPCs that
\* allocate and free buffers, and the fast calls).
THEOREM TypeCorrect == Spec => []TypeOK
<1>1. Init => TypeOK
  BY InitType
<1> QED BY <1>1, TypeStep, PTL DEF Spec

-----------------------------------------------------------------------------

\* The invariant is inductive, given the types.
LEMMA InvStep == TypeOK /\ IInv /\ [Next]_vars => IInv'
<1> SUFFICES ASSUME TypeOK, IInv, [Next]_vars PROVE IInv'
  OBVIOUS
<1> USE RpcArgAssumption
<1> USE DEF TypeOK, IInv, CargMatchesArg, ShmInCall, SuppliedInCall, OwnFromCache
<1>1. ASSUME NEW t \in Threads, StartCall(t) PROVE IInv'
  BY <1>1 DEF StartCall, Goto, argVars
<1>2. ASSUME NEW t \in Threads, EnterSupplied(t) PROVE IInv'
  BY <1>2 DEF EnterSupplied, ClearArg, Goto
<1>3. ASSUME NEW t \in Threads, NEW b \in Buffers, GetArg(t, b) PROVE IInv'
  BY <1>3 DEF GetArg
\* The shared memory cache is used in the middle of a call, and its steps leave
\* the argument alone.
<1>4. ASSUME NEW t \in Threads, pc[t] \in {"run", "clear"},
             UNCHANGED << thread_prealloc_rpc_cache, argVars, pc >>,
             \A d \in Threads \ {t} : shm_cache'[d] = shm_cache[d]
      PROVE IInv'
  BY <1>4 DEF argVars
<1>5. ASSUME NEW t \in Threads, NEW u \in CacheUsers,
             \/ \E b \in Buffers : ShmAlloc(t, u, b) \/ ShmAllocBad(t, u, b)
             \/ ShmAllocFails(t, u) \/ ClearShmEntry(t, u)
      PROVE IInv'
  BY <1>5, <1>4 DEF ShmAlloc, ShmAllocBad, ShmAllocFails, ClearShmEntry
<1>6. ASSUME NEW t \in Threads, EntryDone(t) PROVE IInv'
  BY <1>6 DEF EntryDone, Goto, argVars
<1>7. ASSUME NEW t \in Threads, ShmCleared(t) PROVE IInv'
  BY <1>7 DEF ShmCleared, Goto
<1>8. ASSUME NEW t \in Threads, LeaveCall(t) PROVE IInv'
  BY <1>8 DEF LeaveCall, ClearArg, Goto, argVars
<1>9. ASSUME NEW t \in Threads, DisableOne(t) PROVE IInv'
  BY <1>9 DEF DisableOne, ClearArg
<1>10. CASE DisableDone
  BY <1>10 DEF DisableDone, argVars
<1>11. CASE Enable
  BY <1>11 DEF Enable, argVars
<1>12. CASE UNCHANGED vars
  BY <1>12 DEF vars
<1> QED BY <1>1, <1>2, <1>3, <1>5, <1>6, <1>7, <1>8, <1>9, <1>10, <1>11, <1>12
        DEF Next, Step

LEMMA Invariance == Spec => [](TypeOK /\ IInv)
<1>1. Init => IInv
  BY RpcArgAssumption
     DEF Init, IInv, CargMatchesArg, ShmInCall, SuppliedInCall, OwnFromCache
<1> QED BY <1>1, InitType, TypeStep, InvStep, PTL DEF Spec

\* get_rpc_arg() sends the cookie of the argument it fills, whichever calls
\* came before: with the cache on or off, an argument supplied or not.
THEOREM CookieSound == Spec => []CargMatchesArg
<1>1. IInv => CargMatchesArg
  BY DEF IInv
<1> QED BY <1>1, Invariance, PTL

\* After thread_disable_prealloc_rpc_cache() has returned the last cookie, no
\* free thread holds memory of normal world, however many threads there are.
THEOREM Drained == Spec => []IdleDrained
<1>1. TypeOK /\ IInv => IdleDrained
  BY DEF TypeOK, IInv, IdleDrained, CargMatchesArg, ShmInCall, SuppliedInCall,
         OwnFromCache
<1> QED BY <1>1, Invariance, PTL

-----------------------------------------------------------------------------
(* The account of the buffers.                                             *)

Places == [Threads -> Buffers \cup {NoBuf}]
Caches == [Threads -> [CacheUsers -> Entries]]
Accounts == [Buffers -> {"no", "arg", "mismatch"} \cup ShmTypes]

\* mo, ca and ln stand for rpc_mobj, shm_cache and lent: no buffer is in two
\* places, one that is in a place is lent for it, one that is lent is in one.
ArgOnce(mo) == \A t, d \in Threads : mo[t] = mo[d] /\ mo[t] # NoBuf => t = d
ShmOnce(ca) ==
  \A t, d \in Threads, u, w \in CacheUsers :
    ca[t][u].mobj = ca[d][w].mobj /\ ca[t][u].mobj # NoBuf => t = d /\ u = w
ArgLent(mo, ln) == \A t \in Threads : mo[t] # NoBuf => ln[mo[t]] = "arg"
ShmLent(ca, ln) ==
  \A t \in Threads, u \in CacheUsers :
    ca[t][u].mobj # NoBuf => ln[ca[t][u].mobj] = ca[t][u].type
LentHeld(mo, ca, ln) ==
  \A b \in Buffers : ln[b] # "no" =>
    \/ \E t \in Threads : mo[t] = b
    \/ \E t \in Threads, u \in CacheUsers : ca[t][u].mobj = b

Account(mo, ca, ln) ==
  ArgOnce(mo) /\ ShmOnce(ca) /\ ArgLent(mo, ln) /\ ShmLent(ca, ln) /\ LentHeld(mo, ca, ln)

\* new is the cache with buffer b and type for user u of thread t.
IsCacheWith(new, ca, t, u, b, type) ==
  \A d \in Threads, w \in CacheUsers :
    /\ new[d][w].mobj = IF d = t /\ w = u THEN b ELSE ca[d][w].mobj
    /\ new[d][w].type = IF d = t /\ w = u THEN type ELSE ca[d][w].type

\* The buffers of a cache.
LEMMA CacheBuffers ==
  ASSUME NEW ca \in Caches, NEW t \in Threads, NEW u \in CacheUsers
  PROVE  ca[t][u].mobj \in Buffers \cup {NoBuf} /\ ca[t][u].type \in ShmTypes
BY DEF Caches, Entries

\* What normal world is told to free.
LEMMA FreedAt ==
  ASSUME NEW ln \in Accounts, NEW b \in Buffers, NEW for, ln[b] = for
  PROVE  /\ \A x \in Buffers \ {b} : Freed(b, for, ln)[x] = ln[x]
         /\ Freed(b, for, ln)[b] = "no"
BY RpcArgAssumption DEF Accounts, Freed

\* The argument of a thread is given back.
LEMMA GiveArg ==
  ASSUME NEW mo \in Places, NEW ca \in Caches, NEW ln \in Accounts,
         NEW t \in Threads, Account(mo, ca, ln)
  PROVE  Account([mo EXCEPT ![t] = NoBuf], ca, Freed(mo[t], "arg", ln))
<1> DEFINE new == [mo EXCEPT ![t] = NoBuf]
           lnt == Freed(mo[t], "arg", ln)
<1> USE RpcArgAssumption DEF Account
<1>1. \A d \in Threads : new[d] = IF d = t THEN NoBuf ELSE mo[d]
  BY DEF Places
<1>2. \A d \in Threads : mo[d] \in Buffers \cup {NoBuf}
  BY DEF Places
<1>3. CASE mo[t] = NoBuf
  <2>1. new = mo /\ lnt = ln
    BY <1>3 DEF Freed, Places
  <2> QED BY <2>1
<1>4. CASE mo[t] # NoBuf
  <2>1. /\ \A x \in Buffers \ {mo[t]} : lnt[x] = ln[x]
        /\ lnt[mo[t]] = "no"
    BY <1>2, <1>4, FreedAt DEF ArgLent
  <2> HIDE DEF new, lnt
  <2>2. ArgOnce(new)
    BY <1>1 DEF ArgOnce
  <2>3. ArgLent(new, lnt)
    BY <1>1, <1>2, <1>4, <2>1 DEF ArgLent, ArgOnce
  <2>4. ShmLent(ca, lnt)
    <3>1. SUFFICES ASSUME NEW d \in Threads, NEW w \in CacheUsers, ca[d][w].mobj # NoBuf
                   PROVE  lnt[ca[d][w].mobj] = ca[d][w].type
      BY DEF ShmLent
    <3>2. ca[d][w].mobj \in Buffers /\ ca[d][w].type \in ShmTypes
      BY <3>1, CacheBuffers
    <3>3. ln[ca[d][w].mobj] # "arg"
      BY <3>1, <3>2 DEF ShmLent, ShmTypes
    <3>4. ln[mo[t]] = "arg"
      BY <1>4 DEF ArgLent
    <3> QED BY <3>1, <3>2, <3>3, <3>4, <2>1 DEF ShmLent
  <2>5. LentHeld(new, ca, lnt)
    <3>1. SUFFICES ASSUME NEW b \in Buffers, lnt[b] # "no"
                   PROVE  \/ \E d \in Threads : new[d] = b
                          \/ \E d \in Threads, w \in CacheUsers : ca[d][w].mobj = b
      BY DEF LentHeld
    <3>2. b # mo[t] /\ ln[b] # "no"
      BY <3>1, <2>1
    <3> QED BY <3>2, <1>1 DEF LentHeld
  <2> QED BY <2>2, <2>3, <2>4, <2>5 DEF new, lnt
<1> QED BY <1>3, <1>4

\* A thread gets an argument.
LEMMA TakeArg ==
  ASSUME NEW mo \in Places, NEW ca \in Caches, NEW ln \in Accounts,
         NEW t \in Threads, NEW b \in Buffers, Account(mo, ca, ln),
         mo[t] = NoBuf, ln[b] = "no"
  PROVE  Account([mo EXCEPT ![t] = b], ca, [ln EXCEPT ![b] = "arg"])
<1> DEFINE new == [mo EXCEPT ![t] = b]
           lnt == [ln EXCEPT ![b] = "arg"]
<1> USE RpcArgAssumption DEF Account
<1>1. \A d \in Threads : /\ new[d] = IF d = t THEN b ELSE mo[d]
                         /\ mo[d] \in Buffers \cup {NoBuf}
  BY DEF Places
<1>2. \A x \in Buffers : lnt[x] = IF x = b THEN "arg" ELSE ln[x]
  BY DEF Accounts
<1>3. \A d \in Threads : mo[d] # b
  BY DEF ArgLent
<1> HIDE DEF new, lnt
<1>4. ArgOnce(new)
  BY <1>1, <1>3 DEF ArgOnce
<1>5. ArgLent(new, lnt)
  BY <1>1, <1>2 DEF ArgLent
<1>6. ShmLent(ca, lnt)
  <2>1. SUFFICES ASSUME NEW d \in Threads, NEW w \in CacheUsers, ca[d][w].mobj # NoBuf
                 PROVE  lnt[ca[d][w].mobj] = ca[d][w].type
    BY DEF ShmLent
  <2>2. ca[d][w].mobj \in Buffers /\ ca[d][w].type \in ShmTypes
    BY <2>1, CacheBuffers
  <2>3. ca[d][w].mobj # b
    BY <2>1, <2>2 DEF ShmLent, ShmTypes
  <2> QED BY <2>1, <2>2, <2>3, <1>2 DEF ShmLent
<1>7. LentHeld(new, ca, lnt)
  BY <1>1, <1>2 DEF LentHeld
<1> QED BY <1>4, <1>5, <1>6, <1>7 DEF new, lnt

\* The buffer of an entry is given back.
LEMMA GiveShm ==
  ASSUME NEW mo \in Places, NEW ca \in Caches, NEW ln \in Accounts,
         NEW t \in Threads, NEW u \in CacheUsers, NEW type \in ShmTypes,
         NEW new \in Caches, IsCacheWith(new, ca, t, u, NoBuf, type),
         Account(mo, ca, ln)
  PROVE  Account(mo, new, Freed(ca[t][u].mobj, ca[t][u].type, ln))
<1> DEFINE lnt == Freed(ca[t][u].mobj, ca[t][u].type, ln)
<1> USE RpcArgAssumption DEF Account
<1>1. ShmOnce(new)
  BY DEF ShmOnce, IsCacheWith
<1>2. CASE ca[t][u].mobj = NoBuf
  <2>1. lnt = ln
    BY <1>2 DEF Freed
  <2>2. ShmLent(new, ln)
    BY DEF ShmLent, IsCacheWith
  <2>3. LentHeld(mo, new, ln)
    BY <1>2 DEF LentHeld, IsCacheWith
  <2> QED BY <1>1, <2>1, <2>2, <2>3
<1>3. CASE ca[t][u].mobj # NoBuf
  <2>1. /\ ca[t][u].mobj \in Buffers /\ ca[t][u].type \in ShmTypes
        /\ ln[ca[t][u].mobj] = ca[t][u].type
    BY <1>3, CacheBuffers DEF ShmLent
  <2>2. /\ \A x \in Buffers \ {ca[t][u].mobj} : lnt[x] = ln[x]
        /\ lnt[ca[t][u].mobj] = "no"
    BY <2>1, FreedAt
  <2> HIDE DEF lnt
  <2>3. ArgLent(mo, lnt)
    <3>1. SUFFICES ASSUME NEW d \in Threads, mo[d] # NoBuf PROVE lnt[mo[d]] = "arg"
      BY DEF ArgLent
    <3>2. mo[d] \in Buffers /\ ln[mo[d]] = "arg"
      BY <3>1 DEF ArgLent, Places
    <3>3. mo[d] # ca[t][u].mobj
      BY <3>2, <2>1 DEF ShmTypes
    <3> QED BY <3>2, <3>3, <2>2
  <2>4. ShmLent(new, lnt)
    <3>1. SUFFICES ASSUME NEW d \in Threads, NEW w \in CacheUsers, new[d][w].mobj # NoBuf
                   PROVE  lnt[new[d][w].mobj] = new[d][w].type
      BY DEF ShmLent
    <3>2. ~(d = t /\ w = u)
      BY <3>1 DEF IsCacheWith
    <3>3. new[d][w].mobj = ca[d][w].mobj /\ new[d][w].type = ca[d][w].type
      BY <3>2 DEF IsCacheWith
    <3>4. ca[d][w].mobj # ca[t][u].mobj
      BY <3>1, <3>2, <3>3 DEF ShmOnce
    <3>5. ca[d][w].mobj \in Buffers
      BY <3>1, <3>3, CacheBuffers
    <3> QED BY <3>1, <3>3, <3>4, <3>5, <2>2 DEF ShmLent
  <2>5. LentHeld(mo, new, lnt)
    <3>1. SUFFICES ASSUME NEW b \in Buffers, lnt[b] # "no"
                   PROVE  \/ \E d \in Threads : mo[d] = b
                          \/ \E d \in Threads, w \in CacheUsers : new[d][w].mobj = b
      BY DEF LentHeld
    <3>2. b # ca[t][u].mobj /\ ln[b] # "no"
      BY <3>1, <2>2
    <3> QED BY <3>2 DEF LentHeld, IsCacheWith
  <2> QED BY <1>1, <2>3, <2>4, <2>5 DEF lnt
<1> QED BY <1>2, <1>3

\* An entry without a buffer gets one.
LEMMA TakeShm ==
  ASSUME NEW mo \in Places, NEW ca \in Caches, NEW ln \in Accounts,
         NEW t \in Threads, NEW u \in CacheUsers, NEW type \in ShmTypes,
         NEW b \in Buffers,
         NEW new \in Caches, IsCacheWith(new, ca, t, u, b, type),
         Account(mo, ca, ln), ca[t][u].mobj = NoBuf, ln[b] = "no"
  PROVE  Account(mo, new, [ln EXCEPT ![b] = type])
<1> DEFINE lnt == [ln EXCEPT ![b] = type]
<1> USE RpcArgAssumption DEF Account
<1>1. \A x \in Buffers : lnt[x] = IF x = b THEN type ELSE ln[x]
  BY DEF Accounts
<1>2. ASSUME NEW d \in Threads, NEW w \in CacheUsers PROVE ca[d][w].mobj # b
  <2>1. ca[d][w].type # "no"
    BY CacheBuffers DEF ShmTypes
  <2> QED BY <2>1 DEF ShmLent
<1> HIDE DEF lnt
<1>3. ShmOnce(new)
  BY <1>2 DEF ShmOnce, IsCacheWith
<1>4. ArgLent(mo, lnt)
  BY <1>1 DEF ArgLent, Places
<1>5. ShmLent(new, lnt)
  <2>1. SUFFICES ASSUME NEW d \in Threads, NEW w \in CacheUsers, new[d][w].mobj # NoBuf
                 PROVE  lnt[new[d][w].mobj] = new[d][w].type
    BY DEF ShmLent
  <2>2. CASE d = t /\ w = u
    BY <2>2, <1>1 DEF IsCacheWith
  <2>3. CASE ~(d = t /\ w = u)
    <3>1. new[d][w].mobj = ca[d][w].mobj /\ new[d][w].type = ca[d][w].type
      BY <2>3 DEF IsCacheWith
    <3>2. ca[d][w].mobj \in Buffers
      BY <2>1, <3>1, CacheBuffers
    <3> QED BY <2>1, <3>1, <3>2, <1>1, <1>2 DEF ShmLent
  <2> QED BY <2>2, <2>3
<1>6. LentHeld(mo, new, lnt)
  <2>1. SUFFICES ASSUME NEW x \in Buffers, lnt[x] # "no"
                 PROVE  \/ \E d \in Threads : mo[d] = x
                        \/ \E d \in Threads, w \in CacheUsers : new[d][w].mobj = x
    BY DEF LentHeld
  <2>2. CASE x = b
    <3>1. new[t][u].mobj = b
      BY DEF IsCacheWith
    <3> QED BY <2>2, <3>1
  <2>3. CASE x # b
    <3>1. ln[x] # "no"
      BY <2>1, <2>3, <1>1
    <3> QED BY <3>1 DEF LentHeld, IsCacheWith
  <2> QED BY <2>2, <2>3
<1> QED BY <1>3, <1>4, <1>5, <1>6 DEF lnt

-----------------------------------------------------------------------------
(* The account in every reachable state.                                   *)

\* Whoever holds shared memory can tell normal world to free it.
ShmFreeable ==
  \A t \in Threads, u \in CacheUsers :
    shm_cache[t][u].mobj # NoBuf => rpc_arg[t] # "null"

\* What may come misaligned is an application's.
BadAreAppl ==
  \A t \in Threads, u \in BadFor : shm_cache[t][u].type = "appl"

Balanced == Account(rpc_mobj, shm_cache, lent)

AInv == Balanced /\ ShmFreeable /\ BadAreAppl

\* The steps that leave the caches, the buffers and the arguments alone.
LEMMA AccountStutter ==
  ASSUME TypeOK, AInv, UNCHANGED << argVars, shm_cache, lent >>
  PROVE  AInv'
BY DEF AInv, Balanced, Account, ArgOnce, ShmOnce, ArgLent, ShmLent, LentHeld,
       ShmFreeable, BadAreAppl, argVars

\* Giving the argument back, while the thread holds no shared memory or gets
\* another argument.
LEMMA AccountClearArg ==
  ASSUME TypeOK, AInv, NEW t \in Threads, ClearArg(t), UNCHANGED shm_cache,
         NEW a \in {"null", "supplied"}, rpc_arg' = [rpc_arg EXCEPT ![t] = a],
         \A u \in CacheUsers : shm_cache[t][u] = NewEntry
  PROVE  AInv'
<1>1. Balanced'
  <2>1. Account([rpc_mobj EXCEPT ![t] = NoBuf], shm_cache, Freed(rpc_mobj[t], "arg", lent))
    BY GiveArg DEF TypeOK, AInv, Balanced, Places, Caches, Accounts
  <2>2. /\ rpc_mobj' = [rpc_mobj EXCEPT ![t] = NoBuf]
        /\ lent' = Freed(rpc_mobj[t], "arg", lent)
        /\ shm_cache' = shm_cache
    BY DEF ClearArg
  <2>3. Account(rpc_mobj', shm_cache', lent')
    BY <2>1, <2>2
  <2> QED BY <2>3 DEF Balanced, Account, ArgOnce, ShmOnce, ArgLent, ShmLent, LentHeld
<1>2. ShmFreeable'
  BY DEF AInv, ShmFreeable, TypeOK, NewEntry
<1>3. BadAreAppl'
  BY DEF AInv, BadAreAppl
<1> QED BY <1>1, <1>2, <1>3 DEF AInv

\* An entry of the cache loses its buffer.
LEMMA AccountGiveShm ==
  ASSUME TypeOK, AInv, NEW t \in Threads, NEW u \in CacheUsers, NEW type \in ShmTypes,
         NEW new, new = [shm_cache EXCEPT ![t][u] = [mobj |-> NoBuf, type |-> type]],
         rpc_arg[t] # "null"
  PROVE  /\ new \in Caches
         /\ IsCacheWith(new, shm_cache, t, u, NoBuf, type)
         /\ EntryFreed(t, shm_cache[t][u], lent) \in Accounts
         /\ Account(rpc_mobj, new, EntryFreed(t, shm_cache[t][u], lent))
<1>1. [mobj |-> NoBuf, type |-> type] \in Entries
  BY DEF Entries
<1>2. new \in Caches
  BY <1>1 DEF TypeOK, Caches
<1>3. \A d \in Threads, w \in CacheUsers :
        new[d][w] = IF d = t /\ w = u THEN [mobj |-> NoBuf, type |-> type]
                    ELSE shm_cache[d][w]
  BY DEF TypeOK
<1>4. IsCacheWith(new, shm_cache, t, u, NoBuf, type)
  BY <1>3 DEF IsCacheWith
<1>5. EntryFreed(t, shm_cache[t][u], lent)
        = Freed(shm_cache[t][u].mobj, shm_cache[t][u].type, lent)
  BY DEF EntryFreed
<1>6. EntryFreed(t, shm_cache[t][u], lent) \in Accounts
  BY EntryFreedType DEF TypeOK, Accounts
<1>7. /\ rpc_mobj \in Places /\ shm_cache \in Caches /\ lent \in Accounts
      /\ Account(rpc_mobj, shm_cache, lent)
  BY DEF TypeOK, AInv, Balanced, Places, Caches, Accounts
<1>8. Account(rpc_mobj, new, Freed(shm_cache[t][u].mobj, shm_cache[t][u].type, lent))
  BY <1>2, <1>4, <1>7, GiveShm
<1> QED BY <1>2, <1>4, <1>5, <1>6, <1>8

\* The steps that change the cache of a thread with an argument.
LEMMA ShmStep ==
  ASSUME NEW t \in Threads, NEW u \in CacheUsers, TypeOK, AInv,
         rpc_arg[t] # "null", UNCHANGED argVars, shm_cache' \in Caches,
         NEW ce \in Entries, u \in BadFor => ce.type = "appl",
         \A d \in Threads, w \in CacheUsers :
           shm_cache'[d][w] = IF d = t /\ w = u THEN ce ELSE shm_cache[d][w],
         Account(rpc_mobj, shm_cache', lent')
  PROVE  AInv'
<1>1. Balanced'
  BY DEF Balanced, Account, ArgOnce, ShmOnce, ArgLent, ShmLent, LentHeld, argVars
<1>2. ShmFreeable'
  BY DEF AInv, ShmFreeable, argVars
<1>3. BadAreAppl'
  BY RpcArgAssumption DEF AInv, BadAreAppl
<1> QED BY <1>1, <1>2, <1>3 DEF AInv

LEMMA ShmAllocStep ==
  ASSUME NEW t \in Threads, NEW u \in CacheUsers, NEW b \in Buffers,
         TypeOK, TypeOK', AInv, ShmAlloc(t, u, b)
  PROVE  AInv'
<1> DEFINE mid == [shm_cache EXCEPT ![t][u] = [mobj |-> NoBuf, type |-> TypeOf(u)]]
           given == EntryFreed(t, shm_cache[t][u], lent)
           ce == [mobj |-> b, type |-> TypeOf(u)]
<1>1. /\ TypeOf(u) \in ShmTypes /\ ce \in Entries
      /\ u \in BadFor => ce.type = "appl"
  BY KernelBuffersMap DEF TypeOf, ShmTypes, Entries
<1>2. /\ mid \in Caches
      /\ IsCacheWith(mid, shm_cache, t, u, NoBuf, TypeOf(u))
      /\ given \in Accounts
      /\ Account(rpc_mobj, mid, given)
  BY <1>1, AccountGiveShm DEF ShmAlloc
<1>3. /\ shm_cache' \in Caches /\ rpc_mobj \in Places
      /\ \A d \in Threads, w \in CacheUsers :
           shm_cache'[d][w] = IF d = t /\ w = u THEN ce ELSE shm_cache[d][w]
  BY DEF ShmAlloc, TypeOK, Caches, Places
<1>4. IsCacheWith(shm_cache', mid, t, u, b, TypeOf(u))
  BY <1>2, <1>3 DEF IsCacheWith
<1>5. mid[t][u].mobj = NoBuf /\ given[b] = "no"
  BY <1>2 DEF IsCacheWith, ShmAlloc
<1>6. lent' = [given EXCEPT ![b] = TypeOf(u)]
  BY DEF ShmAlloc
<1>7. rpc_arg[t] # "null" /\ UNCHANGED argVars
  BY DEF ShmAlloc
<1> HIDE DEF mid, given
<1>8. Account(rpc_mobj, shm_cache', [given EXCEPT ![b] = TypeOf(u)])
  BY <1>1, <1>2, <1>3, <1>4, <1>5, TakeShm
<1>9. Account(rpc_mobj, shm_cache', lent')
  BY <1>6, <1>8
<1> HIDE DEF ce
<1> QED BY <1>1, <1>3, <1>7, <1>9, ShmStep

LEMMA ShmAllocFailsStep ==
  ASSUME NEW t \in Threads, NEW u \in CacheUsers,
         TypeOK, TypeOK', AInv, ShmAllocFails(t, u)
  PROVE  AInv'
<1> DEFINE ce == [mobj |-> NoBuf, type |-> shm_cache[t][u].type]
<1>1. /\ ce \in Entries /\ shm_cache[t][u].type \in ShmTypes
      /\ u \in BadFor => ce.type = "appl"
  BY DEF TypeOK, Entries, AInv, BadAreAppl
<1>2. /\ shm_cache' \in Caches
      /\ \A d \in Threads, w \in CacheUsers :
           shm_cache'[d][w] = IF d = t /\ w = u THEN ce ELSE shm_cache[d][w]
  BY DEF ShmAllocFails, TypeOK, Caches
<1>3. Account(rpc_mobj, shm_cache', lent')
  BY <1>1, AccountGiveShm DEF ShmAllocFails
<1>4. rpc_arg[t] # "null" /\ UNCHANGED argVars
  BY DEF ShmAllocFails
<1> HIDE DEF ce
<1> QED BY <1>1, <1>2, <1>3, <1>4, ShmStep

LEMMA ShmAllocBadStep ==
  ASSUME NEW t \in Threads, NEW u \in CacheUsers, NEW b \in Buffers,
         TypeOK, TypeOK', AInv, ShmAllocBad(t, u, b)
  PROVE  AInv'
<1> DEFINE ce == [mobj |-> NoBuf, type |-> shm_cache[t][u].type]
           given == EntryFreed(t, shm_cache[t][u], lent)
<1>1. /\ ce \in Entries /\ shm_cache[t][u].type \in ShmTypes
      /\ shm_cache[t][u].type = "appl" /\ TypeOf(u) = "appl"
  BY KernelBuffersMap DEF ShmAllocBad, TypeOK, Entries, AInv, BadAreAppl, TypeOf
<1>2. /\ shm_cache' \in Caches
      /\ \A d \in Threads, w \in CacheUsers :
           shm_cache'[d][w] = IF d = t /\ w = u THEN ce ELSE shm_cache[d][w]
  BY DEF ShmAllocBad, TypeOK, Caches
<1>3. given \in Accounts /\ Account(rpc_mobj, shm_cache', given)
  BY <1>1, AccountGiveShm DEF ShmAllocBad
<1>4. lent' = Freed(b, "appl", [given EXCEPT ![b] = "appl"]) /\ given[b] = "no"
  BY <1>1 DEF ShmAllocBad
<1> HIDE DEF given
<1>5. lent' = given
  BY <1>3, <1>4, RpcArgAssumption DEF Freed, Accounts
<1> QED BY <1>1, <1>2, <1>3, <1>5, ShmStep DEF ShmAllocBad

LEMMA ClearShmStep ==
  ASSUME NEW t \in Threads, NEW u \in CacheUsers,
         TypeOK, TypeOK', AInv, ClearShmEntry(t, u)
  PROVE  AInv'
<1>1. NewEntry \in Entries /\ NewEntry.type = "appl" /\ "appl" \in ShmTypes
  BY InitEntry DEF NewEntry, ShmTypes
<1>2. /\ shm_cache' \in Caches
      /\ \A d \in Threads, w \in CacheUsers :
           shm_cache'[d][w] = IF d = t /\ w = u THEN NewEntry ELSE shm_cache[d][w]
  BY <1>1 DEF ClearShmEntry, TypeOK, Caches
<1>3. CASE rpc_arg[t] # "null"
  <2>1. Account(rpc_mobj, shm_cache', lent')
    BY <1>1, <1>3, AccountGiveShm DEF ClearShmEntry, NewEntry
  <2> QED BY <1>1, <1>2, <1>3, <2>1, ShmStep DEF ClearShmEntry
<1>4. CASE rpc_arg[t] = "null"
  <2>1. shm_cache[t][u].mobj = NoBuf /\ lent' = lent
    BY <1>4 DEF AInv, ShmFreeable, ClearShmEntry, EntryFreed
  <2>2. IsCacheWith(shm_cache', shm_cache, t, u, NoBuf, "appl")
    BY <1>2 DEF IsCacheWith, NewEntry
  <2>3. Account(rpc_mobj, shm_cache', Freed(NoBuf, shm_cache[t][u].type, lent))
    BY <1>1, <1>2, <2>1, <2>2, GiveShm
       DEF TypeOK, Places, Caches, Accounts, AInv, Balanced
  <2>4. Balanced'
    BY <2>1, <2>3 DEF Freed, Balanced, ClearShmEntry, argVars, Account, ArgOnce,
                      ShmOnce, ArgLent, ShmLent, LentHeld
  <2>5. ShmFreeable'
    BY <1>2 DEF AInv, ShmFreeable, ClearShmEntry, argVars, NewEntry
  <2>6. BadAreAppl'
    BY <1>1, <1>2, RpcArgAssumption DEF AInv, BadAreAppl
  <2> QED BY <2>4, <2>5, <2>6 DEF AInv
<1> QED BY <1>3, <1>4

LEMMA AccountStep == TypeOK /\ IInv /\ AInv /\ [Next]_vars => AInv'
<1> SUFFICES ASSUME TypeOK, IInv, AInv, [Next]_vars PROVE AInv'
  OBVIOUS
<1>0. TypeOK'
  BY TypeStep
<1>1. ASSUME NEW t \in Threads, StartCall(t) PROVE AInv'
  BY <1>1, AccountStutter DEF StartCall
<1>2. ASSUME NEW t \in Threads, EnterSupplied(t) PROVE AInv'
  <2>1. \A u \in CacheUsers : shm_cache[t][u] = NewEntry
    BY <1>2 DEF EnterSupplied, IInv, ShmInCall
  <2>2. rpc_arg' = [rpc_arg EXCEPT ![t] = "supplied"] /\ UNCHANGED shm_cache
    BY <1>2 DEF EnterSupplied
  <2>3. CASE thread_prealloc_rpc_cache
    <3>1. ClearArg(t)
      BY <1>2, <2>3 DEF EnterSupplied
    <3> QED BY <2>1, <2>2, <3>1, AccountClearArg
  <2>4. CASE ~thread_prealloc_rpc_cache
    BY <1>2, <2>2, <2>4
       DEF EnterSupplied, TypeOK, AInv, Balanced, Account, ArgOnce, ShmOnce, ArgLent,
           ShmLent, LentHeld, ShmFreeable, BadAreAppl
  <2> QED BY <2>3, <2>4
<1>3. ASSUME NEW t \in Threads, NEW b \in Buffers, GetArg(t, b) PROVE AInv'
  <2>1. rpc_mobj[t] = NoBuf /\ lent[b] = "no"
    BY <1>3 DEF GetArg, IInv, CargMatchesArg, TypeOK
  <2>2. Account([rpc_mobj EXCEPT ![t] = b], shm_cache, [lent EXCEPT ![b] = "arg"])
    BY <2>1, TakeArg DEF TypeOK, AInv, Balanced, Places, Caches, Accounts
  <2>3. /\ rpc_mobj' = [rpc_mobj EXCEPT ![t] = b]
        /\ lent' = [lent EXCEPT ![b] = "arg"] /\ shm_cache' = shm_cache
        /\ rpc_arg' = [rpc_arg EXCEPT ![t] = "own"]
    BY <1>3 DEF GetArg
  <2>4. Account(rpc_mobj', shm_cache', lent')
    BY <2>2, <2>3
  <2>5. Balanced'
    BY <2>4 DEF Balanced, Account, ArgOnce, ShmOnce, ArgLent, ShmLent, LentHeld
  <2>6. ShmFreeable' /\ BadAreAppl'
    BY <2>3 DEF AInv, ShmFreeable, BadAreAppl, TypeOK
  <2> QED BY <2>5, <2>6 DEF AInv
<1>4. ASSUME NEW t \in Threads, NEW u \in CacheUsers,
             \/ \E b \in Buffers : ShmAlloc(t, u, b) \/ ShmAllocBad(t, u, b)
             \/ ShmAllocFails(t, u) \/ ClearShmEntry(t, u)
      PROVE AInv'
  BY <1>0, <1>4, ShmAllocStep, ShmAllocBadStep, ShmAllocFailsStep, ClearShmStep
<1>5. ASSUME NEW t \in Threads, EntryDone(t) PROVE AInv'
  BY <1>5, AccountStutter DEF EntryDone
<1>6. ASSUME NEW t \in Threads, ShmCleared(t) PROVE AInv'
  <2>1. Balanced'
    BY <1>6 DEF ShmCleared, AInv, Balanced, Account, ArgOnce, ShmOnce, ArgLent, ShmLent,
                LentHeld
  <2>2. ShmFreeable' /\ BadAreAppl'
    BY <1>6 DEF ShmCleared, AInv, ShmFreeable, BadAreAppl, TypeOK, NewEntry
  <2> QED BY <2>1, <2>2 DEF AInv
<1>7. ASSUME NEW t \in Threads, LeaveCall(t) PROVE AInv'
  <2>1. CASE thread_prealloc_rpc_cache
    BY <1>7, <2>1, AccountStutter DEF LeaveCall
  <2>2. CASE ~thread_prealloc_rpc_cache
    <3>1. \A u \in CacheUsers : shm_cache[t][u] = NewEntry
      BY <1>7 DEF LeaveCall, IInv, ShmInCall
    <3>2. /\ ClearArg(t) /\ UNCHANGED shm_cache
          /\ rpc_arg' = [rpc_arg EXCEPT ![t] = "null"]
      BY <1>7, <2>2 DEF LeaveCall
    <3> QED BY <3>1, <3>2, AccountClearArg
  <2> QED BY <2>1, <2>2
<1>8. ASSUME NEW t \in Threads, DisableOne(t) PROVE AInv'
  <2>1. \A u \in CacheUsers : shm_cache[t][u] = NewEntry
    BY <1>8 DEF DisableOne, AllFree, IInv, ShmInCall
  <2>2. /\ ClearArg(t) /\ UNCHANGED shm_cache
        /\ rpc_arg' = [rpc_arg EXCEPT ![t] = "null"]
    BY <1>8 DEF DisableOne
  <2> QED BY <2>1, <2>2, AccountClearArg
<1>9. CASE DisableDone
  BY <1>9, AccountStutter DEF DisableDone
<1>10. CASE Enable
  BY <1>10, AccountStutter DEF Enable
<1>11. CASE UNCHANGED vars
  BY <1>11, AccountStutter DEF vars, argVars
<1> QED BY <1>1, <1>2, <1>3, <1>4, <1>5, <1>6, <1>7, <1>8, <1>9, <1>10, <1>11
        DEF Next, Step

LEMMA AccountInit == Init => AInv
<1> SUFFICES ASSUME Init PROVE AInv
  OBVIOUS
<1>1. /\ \A t \in Threads : rpc_mobj[t] = NoBuf
      /\ \A t \in Threads, u \in CacheUsers :
           shm_cache[t][u].mobj = NoBuf /\ shm_cache[t][u].type = "appl"
      /\ \A b \in Buffers : lent[b] = "no"
  BY DEF Init, NewEntry
<1>2. Balanced
  BY <1>1 DEF Balanced, Account, ArgOnce, ShmOnce, ArgLent, ShmLent, LentHeld
<1>3. ShmFreeable /\ BadAreAppl
  BY <1>1, RpcArgAssumption DEF ShmFreeable, BadAreAppl
<1> QED BY <1>2, <1>3 DEF AInv

LEMMA AccountInvariance == Spec => [](TypeOK /\ AInv)
<1>1. TypeOK /\ IInv /\ AInv /\ [Next]_vars => (TypeOK /\ IInv /\ AInv)'
  BY TypeStep, InvStep, AccountStep
<1> QED BY <1>1, AccountInit, Invariance, PTL DEF Spec

\* Whatever fails in a call, normal world is told to free each buffer as what
\* it was asked for, with any number of threads, buffers and cache users.
THEOREM FreedAsAllocated == Spec => []FreeTypeMatches
<1>1. TypeOK /\ AInv => FreeTypeMatches
  <2> SUFFICES ASSUME TypeOK, AInv, NEW b \in Buffers, lent[b] = "mismatch" PROVE FALSE
    BY DEF FreeTypeMatches
  <2>1. \/ \E t \in Threads : rpc_mobj[t] = b
        \/ \E t \in Threads, u \in CacheUsers : shm_cache[t][u].mobj = b
    BY DEF AInv, Balanced, Account, LentHeld
  <2>2. \A t \in Threads : rpc_mobj[t] # b
    BY RpcArgAssumption DEF AInv, Balanced, Account, ArgLent
  <2>3. \A t \in Threads, u \in CacheUsers : shm_cache[t][u].type # "mismatch"
    BY DEF TypeOK, Entries, ShmTypes
  <2>4. \A t \in Threads, u \in CacheUsers : shm_cache[t][u].mobj # b
    BY <2>3, RpcArgAssumption DEF AInv, Balanced, Account, ShmLent
  <2> QED BY <2>1, <2>2, <2>4
<1> QED BY <1>1, AccountInvariance, PTL

\* Each buffer that normal world has lent is in one place, an RPC argument or
\* an entry of a cache, and each in a place is lent: no failing call leaks one.
THEOREM NothingLeaked == Spec => []LentMatchesHeld
<1>1. TypeOK /\ AInv => LentMatchesHeld
  <2> SUFFICES ASSUME TypeOK, AInv, NEW b \in Buffers
               PROVE  Cardinality(ArgHolders(b)) + Cardinality(ShmHolders(b))
                        = IF lent[b] \in {"no", "mismatch"} THEN 0 ELSE 1
    BY DEF LentMatchesHeld
  <2> DEFINE A == ArgHolders(b)
             S == ShmHolders(b)
  <2>1. \A t \in Threads : t \in A <=> rpc_mobj[t] = b
    BY DEF ArgHolders
  <2>2. \A t \in Threads, u \in CacheUsers : << t, u >> \in S <=> shm_cache[t][u].mobj = b
    BY DEF ShmHolders
  <2>3. A \subseteq Threads /\ S \subseteq Threads \X CacheUsers
    BY DEF ArgHolders, ShmHolders
  <2>4. A # {} => lent[b] = "arg"
    BY <2>1, <2>3, RpcArgAssumption DEF AInv, Balanced, Account, ArgLent
  <2>5. \A t \in Threads, u \in CacheUsers :
          shm_cache[t][u].mobj = b => lent[b] \in ShmTypes
    BY RpcArgAssumption DEF AInv, Balanced, Account, ShmLent, TypeOK, Entries
  <2>6. S # {} => lent[b] \in ShmTypes
    <3>1. SUFFICES ASSUME NEW h \in S PROVE lent[b] \in ShmTypes
      OBVIOUS
    <3>2. PICK t \in Threads, u \in CacheUsers : h = << t, u >>
      BY <2>3
    <3> QED BY <3>2, <2>2, <2>5
  <2>7. lent[b] # "no" => A # {} \/ S # {}
    <3>1. lent[b] # "no" => \/ \E t \in Threads : rpc_mobj[t] = b
                            \/ \E t \in Threads, u \in CacheUsers : shm_cache[t][u].mobj = b
      BY DEF AInv, Balanced, Account, LentHeld
    <3> QED BY <3>1, <2>1, <2>2
  <2>8. A # {} => \E t : A = {t}
    BY <2>1, <2>3, RpcArgAssumption DEF AInv, Balanced, Account, ArgOnce
  <2>9. S # {} => \E h : S = {h}
    <3>1. SUFFICES ASSUME NEW h \in S, NEW k \in S PROVE h = k
      OBVIOUS
    <3>2. PICK t \in Threads, u \in CacheUsers : h = << t, u >>
      BY <2>3
    <3>3. PICK d \in Threads, w \in CacheUsers : k = << d, w >>
      BY <2>3
    <3>4. shm_cache[t][u].mobj = b /\ shm_cache[d][w].mobj = b
      BY <3>2, <3>3, <2>2
    <3> QED BY <3>2, <3>3, <3>4, RpcArgAssumption DEF AInv, Balanced, Account, ShmOnce
  <2> HIDE DEF A, S
  <2>10. Cardinality(A) = IF A = {} THEN 0 ELSE 1
    BY <2>8, FS_EmptySet, FS_Singleton
  <2>11. Cardinality(S) = IF S = {} THEN 0 ELSE 1
    BY <2>9, FS_EmptySet, FS_Singleton
  <2>12. lent[b] # "mismatch"
    BY <2>4, <2>6, <2>7 DEF ShmTypes
  <2> QED BY <2>4, <2>6, <2>7, <2>10, <2>11, <2>12 DEF A, S, ShmTypes
<1> QED BY <1>1, AccountInvariance, PTL

=============================================================================
