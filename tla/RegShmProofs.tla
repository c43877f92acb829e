---------------------------- MODULE RegShmProofs ----------------------------
(***************************************************************************)
(* For any number of threads and buffers, and a normal world that keeps    *)
(* its side of the protocol (CarefulNW): the references of a mobj are      *)
(* counted, nothing is freed under a thread that uses it, the pages are    *)
(* mapped while they are counted on, and no release sleeps through the     *)
(* last put.                                                               *)
(*                                                                         *)
(* The heart of the invariant is who may have a mobj: one that is guarded  *)
(* has one user, one that is being released has one releaser, one that was *)
(* just found is neither; and what a count of 0 means: one thread is on    *)
(* its way from the last put to release_frees, or has set it, and then the *)
(* releaser is the only user left.                                         *)
(***************************************************************************)
EXTENDS RegShm, FiniteSetTheorems, TLAPS

\* Where a thread has a reference to its mobj.
RefLocs == {"unguard", "ref", "inc", "map", "mapped", "unmap", "put", "panic"}

\* Where it goes from the last put.
LastLocs == {"last", "free", "set_frees"}

\* Where each call can be, and whether it has a mobj there.
Shape ==
  \A t \in Threads :
    \/ call[t] = "none" /\ pc[t] = "idle" /\ obj[t] = NoCookie
    \/ call[t] = "register" /\ pc[t] = "unguard" /\ obj[t] \in Cookies
    \/ /\ call[t] = "temp" /\ obj[t] \in Cookies
       /\ pc[t] \in {"inc", "map", "mapped", "put", "last", "free"}
    \/ /\ call[t] = "use" /\ obj[t] \in Cookies
       /\ pc[t] \in {"found", "ref", "inc", "map", "mapped", "unmap", "put",
                     "last", "set_frees", "panic"}
    \/ call[t] = "use" /\ pc[t] = "broadcast" /\ obj[t] = NoCookie
    \/ /\ call[t] = "release" /\ obj[t] \in Cookies
       /\ pc[t] \in {"put", "last", "set_frees", "broadcast", "wait_lock",
                     "blocked", "woken"}

\* A mobj is guarded while it is set up or is a call's own, and has no other
\* user then; one thread releases it, once.
Kinds ==
  \A t \in Threads : obj[t] \in Cookies =>
    /\ call[t] \in {"register", "temp"} =>
         /\ guarded[obj[t]] /\ ~releasing[obj[t]]
         /\ \A u \in Threads : obj[u] = obj[t] => u = t
    /\ call[t] \in {"use", "release"} => ~guarded[obj[t]]
    /\ call[t] = "release" =>
         /\ releasing[obj[t]]
         /\ \A u \in Threads : obj[u] = obj[t] /\ call[u] = "release" => u = t

\* Normal world does not ask for a release before a cookie was looked up.
FoundOpen == \A t \in Threads : pc[t] = "found" => ~releasing[obj[t]]

Holders(c) == {t \in Threads : obj[t] = c /\ pc[t] \in RefLocs}
OwnRef(c) == IF guarded[c] \/ releasing[c] THEN 0 ELSE 1

\* The count: the references of threads, and that of the registration.
Counted ==
  \A c \in Cookies : listed[c] => refc[c] = Cardinality(Holders(c)) + OwnRef(c)

\* One thread is on its way from the last put.
Finishing ==
  \A t \in Threads : pc[t] \in LastLocs =>
    /\ refc[obj[t]] = 0 /\ ~release_frees[obj[t]]
    /\ \A u \in Threads : pc[u] \in LastLocs /\ obj[u] = obj[t] => u = t

FreesLast ==
  \A c \in Cookies : listed[c] /\ release_frees[c] => refc[c] = 0

RefInv ==
  /\ Shape /\ NoUseAfterFree /\ Kinds /\ FoundOpen
  /\ Counted /\ Finishing /\ FreesLast

-----------------------------------------------------------------------------
(* Counting threads.                                                       *)

LEMMA HoldersFinite ==
  ASSUME NEW c
  PROVE  /\ IsFiniteSet(Holders(c)) /\ Cardinality(Holders(c)) \in Nat
         /\ Cardinality(Holders(c)) = 0 <=> Holders(c) = {}
<1>1. Holders(c) \subseteq Threads /\ IsFiniteSet(Threads)
  BY RegShmAssumption DEF Holders
<1>2. IsFiniteSet(Holders(c))
  BY <1>1, FS_Subset
<1> QED BY <1>2, FS_CardinalityType, FS_EmptySet

\* A mobj with a count of 0 has no holder, and is guarded or being released.
LEMMA NoneLeft ==
  ASSUME RefInv, NEW c \in Cookies, listed[c], refc[c] = 0
  PROVE  (\A t \in Threads : obj[t] = c => pc[t] \notin RefLocs)
         /\ (guarded[c] \/ releasing[c])
<1>1. Cardinality(Holders(c)) = 0 /\ OwnRef(c) = 0
  BY HoldersFinite DEF RefInv, Counted, OwnRef
<1> QED BY <1>1, HoldersFinite DEF Holders, OwnRef

\* Whoever has a reference is counted.
LEMMA HolderCounted ==
  ASSUME TypeOK, RefInv, NEW t \in Threads, obj[t] \in Cookies, pc[t] \in RefLocs
  PROVE  refc[obj[t]] > 0
<1>1. listed[obj[t]]
  BY DEF RefInv, NoUseAfterFree
<1>2. refc[obj[t]] # 0
  BY <1>1, NoneLeft
<1> QED BY <1>2 DEF TypeOK

\* The registration's own reference is there as long as a mobj can be found.
LEMMA FoundCounted ==
  ASSUME TypeOK, RefInv, NEW t \in Threads, pc[t] = "found"
  PROVE  obj[t] \in Cookies /\ listed[obj[t]] /\ refc[obj[t]] > 0
<1>1. obj[t] \in Cookies /\ call[t] = "use"
  BY DEF RefInv, Shape
<1>2. listed[obj[t]] /\ ~guarded[obj[t]] /\ ~releasing[obj[t]]
  BY <1>1 DEF RefInv, NoUseAfterFree, Kinds, FoundOpen
<1>3. refc[obj[t]] # 0
  BY <1>1, <1>2, NoneLeft
<1> QED BY <1>1, <1>2, <1>3 DEF TypeOK

\* Once release_frees is set, the thread that releases the mobj is alone.
LEMMA ReleaserAlone ==
  ASSUME RefInv, NEW t \in Threads, obj[t] \in Cookies, call[t] = "release",
         release_frees[obj[t]], NEW u \in Threads, obj[u] = obj[t]
  PROVE  u = t
<1>1. listed[obj[t]] /\ refc[obj[t]] = 0 /\ releasing[obj[t]]
  BY DEF RefInv, NoUseAfterFree, FreesLast, Kinds
<1>2. pc[u] \notin RefLocs
  BY <1>1, NoneLeft
<1>3. pc[u] \notin LastLocs
  BY DEF RefInv, Finishing
<1>4. pc[u] # "found"
  BY <1>1 DEF RefInv, FoundOpen
<1>5. CASE call[u] \in {"register", "temp"}
  BY <1>5 DEF RefInv, Kinds
<1>6. CASE call[u] = "use"
  BY <1>2, <1>3, <1>4, <1>6, RegShmAssumption DEF RefInv, Shape, RefLocs, LastLocs
<1>7. CASE call[u] = "release"
  BY <1>7 DEF RefInv, Kinds
<1> QED BY <1>5, <1>6, <1>7, RegShmAssumption DEF RefInv, Shape

-----------------------------------------------------------------------------
(* The references.                                                         *)

\* A step that leaves the mobjs alone, and in which threads move between
\* places that have a reference or between places that do not.
LEMMA RefsKept ==
  ASSUME TypeOK, RefInv, UNCHANGED refVars, Shape',
         \A u \in Threads :
           /\ obj'[u] = obj[u]
           /\ obj[u] \in Cookies => call'[u] = call[u]
           /\ pc'[u] \in RefLocs <=> pc[u] \in RefLocs
           /\ pc'[u] = "found" => pc[u] = "found"
           /\ pc'[u] \in LastLocs => pc[u] \in LastLocs
  PROVE  RefInv'
<1>1. NoUseAfterFree' /\ FoundOpen'
  BY DEF RefInv, NoUseAfterFree, FoundOpen, refVars, TypeOK
<1>2. Kinds'
  BY DEF RefInv, Kinds, refVars, TypeOK
<1>3. Counted'
  <2>1. \A c \in Cookies : Holders(c)' = Holders(c) /\ OwnRef(c)' = OwnRef(c)
    BY DEF Holders, OwnRef, refVars
  <2> QED BY <2>1 DEF RefInv, Counted, refVars
<1>4. Finishing' /\ FreesLast'
  BY DEF RefInv, Finishing, FreesLast, refVars
<1> QED BY <1>1, <1>2, <1>3, <1>4 DEF RefInv

\* The count of one mobj changes, or it is freed.
LEMMA CountedBut ==
  ASSUME Counted, NEW c \in Cookies,
         listed'[c] => refc'[c] = Cardinality(Holders(c)') + OwnRef(c)',
         \A d \in Cookies : d # c =>
           /\ listed'[d] = listed[d] /\ refc'[d] = refc[d]
           /\ Holders(d)' = Holders(d) /\ OwnRef(d)' = OwnRef(d)
  PROVE  Counted'
<1> SUFFICES ASSUME NEW d \in Cookies, listed'[d]
             PROVE  refc'[d] = Cardinality(Holders(d)') + OwnRef(d)'
  BY DEF Counted
<1>1. CASE d = c
  BY <1>1
<1>2. CASE d # c
  BY <1>2 DEF Counted
<1> QED BY <1>1, <1>2

\* A new mobj has the thread that made it as its one user.
LEMMA RefAlloc ==
  ASSUME TypeOK, RefInv, NEW t \in Threads, NEW c \in Cookies,
         Register(t, c) \/ AllocMapped(t, c)
  PROVE  RefInv'
<1> USE RegShmAssumption
<1>1. /\ pc[t] = "idle" /\ obj[t] = NoCookie /\ ~listed[c]
      /\ \A u \in Threads : obj[u] # c
      /\ pc' = [pc EXCEPT ![t] = pc'[t]] /\ call' = [call EXCEPT ![t] = call'[t]]
      /\ obj' = [obj EXCEPT ![t] = c]
      /\ \/ pc'[t] = "unguard" /\ call'[t] = "register"
         \/ pc'[t] = "inc" /\ call'[t] = "temp"
  BY DEF Register, AllocMapped, Alloc, Start, Goto, RefInv, Shape, TypeOK
<1>2. /\ listed' = [listed EXCEPT ![c] = TRUE]
      /\ refc' = [refc EXCEPT ![c] = 1]
      /\ guarded' = [guarded EXCEPT ![c] = TRUE]
      /\ releasing' = [releasing EXCEPT ![c] = FALSE]
      /\ release_frees' = [release_frees EXCEPT ![c] = FALSE]
  BY DEF Register, AllocMapped, Alloc
<1>3. Shape'
  BY <1>1 DEF RefInv, Shape, TypeOK
<1>4. NoUseAfterFree' /\ FoundOpen'
  BY <1>1, <1>2, <1>3 DEF RefInv, NoUseAfterFree, FoundOpen, TypeOK, Shape
<1>5. Kinds'
  BY <1>1, <1>2 DEF RefInv, Kinds, TypeOK
<1>6. Counted'
  <2>1. Holders(c)' = {t} /\ OwnRef(c)' = 0
    BY <1>1, <1>2 DEF Holders, OwnRef, TypeOK, RefLocs
  <2>2. \A d \in Cookies : d # c => Holders(d)' = Holders(d) /\ OwnRef(d)' = OwnRef(d)
    BY <1>1, <1>2 DEF Holders, OwnRef, TypeOK
  <2>3. Cardinality({t}) = 1
    BY FS_Singleton
  <2>4. refc'[c] = Cardinality(Holders(c)') + OwnRef(c)'
    BY <1>2, <2>1, <2>3 DEF TypeOK
  <2>5. \A d \in Cookies : d # c => listed'[d] = listed[d] /\ refc'[d] = refc[d]
    BY <1>2 DEF TypeOK
  <2> QED BY <2>2, <2>4, <2>5, CountedBut DEF RefInv
<1>7. Finishing' /\ FreesLast'
  BY <1>1, <1>2 DEF RefInv, Finishing, FreesLast, LastLocs, TypeOK, Shape
<1> QED BY <1>3, <1>4, <1>5, <1>6, <1>7 DEF RefInv

\* The reference of the call becomes that of the registration.
LEMMA RefUnguard ==
  ASSUME TypeOK, RefInv, NEW t \in Threads, Unguard(t)
  PROVE  RefInv'
<1> USE RegShmAssumption
<1>1. PICK c \in Cookies : c = obj[t]
  BY DEF Unguard, RefInv, Shape
<1>2. /\ pc[t] = "unguard" /\ call[t] = "register"
      /\ guarded[c] /\ ~releasing[c] /\ listed[c]
      /\ \A u \in Threads : obj[u] = c => u = t
  BY <1>1 DEF Unguard, RefInv, Shape, Kinds, NoUseAfterFree
<1>3. /\ guarded' = [guarded EXCEPT ![c] = FALSE]
      /\ pc' = [pc EXCEPT ![t] = "idle"] /\ call' = [call EXCEPT ![t] = "none"]
      /\ obj' = [obj EXCEPT ![t] = NoCookie]
      /\ UNCHANGED << listed, refc, releasing, release_frees >>
  BY <1>1 DEF Unguard, Return, Goto
<1>4. Shape'
  BY <1>2, <1>3 DEF RefInv, Shape, TypeOK
<1>5. NoUseAfterFree' /\ FoundOpen'
  BY <1>3 DEF RefInv, NoUseAfterFree, FoundOpen, TypeOK
<1>6. Kinds'
  BY <1>1, <1>2, <1>3 DEF RefInv, Kinds, TypeOK
<1>7. Counted'
  <2>1. /\ Holders(c) = {t} /\ Holders(c)' = {} /\ OwnRef(c) = 0 /\ OwnRef(c)' = 1
    BY <1>1, <1>2, <1>3 DEF Holders, OwnRef, TypeOK, RefLocs
  <2>2. \A d \in Cookies : d # c => Holders(d)' = Holders(d) /\ OwnRef(d)' = OwnRef(d)
    BY <1>1, <1>3 DEF Holders, OwnRef, TypeOK
  <2>3. refc[c] = Cardinality({t}) + 0 /\ Cardinality({t}) = 1 /\ Cardinality({}) = 0
    BY <1>2, <2>1, FS_Singleton, FS_EmptySet DEF RefInv, Counted
  <2>4. refc'[c] = Cardinality(Holders(c)') + OwnRef(c)'
    BY <1>3, <2>1, <2>3
  <2> QED BY <1>3, <2>2, <2>4, CountedBut DEF RefInv
<1>8. Finishing' /\ FreesLast'
  BY <1>2, <1>3 DEF RefInv, Finishing, FreesLast, LastLocs, TypeOK
<1> QED BY <1>4, <1>5, <1>6, <1>7, <1>8 DEF RefInv

\* A cookie that normal world may pass names a mobj nobody sets up or releases.
LEMMA RefFind ==
  ASSUME CarefulNW, TypeOK, RefInv, NEW t \in Threads, NEW c \in Cookies, Find(t, c)
  PROVE  RefInv'
<1> USE RegShmAssumption
<1>1. /\ pc[t] = "idle" /\ call[t] = "none" /\ obj[t] = NoCookie
      /\ listed[c] /\ ~guarded[c] /\ ~releasing[c]
      /\ pc' = [pc EXCEPT ![t] = "found"] /\ call' = [call EXCEPT ![t] = "use"]
      /\ obj' = [obj EXCEPT ![t] = c] /\ UNCHANGED refVars
  BY DEF Find, Start, Goto, RefInv, Shape
<1>2. Shape'
  BY <1>1 DEF RefInv, Shape, TypeOK
<1>3. NoUseAfterFree' /\ FoundOpen'
  BY <1>1 DEF RefInv, NoUseAfterFree, FoundOpen, TypeOK, refVars
<1>4. Kinds'
  BY <1>1 DEF RefInv, Kinds, TypeOK, refVars
<1>5. Counted'
  <2>1. \A d \in Cookies : Holders(d)' = Holders(d) /\ OwnRef(d)' = OwnRef(d)
    BY <1>1 DEF Holders, OwnRef, TypeOK, RefLocs, refVars
  <2> QED BY <1>1, <2>1 DEF RefInv, Counted, refVars
<1>6. Finishing' /\ FreesLast'
  BY <1>1 DEF RefInv, Finishing, FreesLast, LastLocs, TypeOK, refVars
<1> QED BY <1>2, <1>3, <1>4, <1>5, <1>6 DEF RefInv

\* What was found still has the reference of its registration.
LEMMA RefGet ==
  ASSUME TypeOK, RefInv, NEW t \in Threads, Get(t)
  PROVE  RefInv'
<1>1. PICK c \in Cookies : c = obj[t] /\ listed[c] /\ refc[c] > 0
  BY FoundCounted DEF Get
<1>2. pc[t] = "found" /\ call[t] = "use"
  BY DEF Get, RefInv, Shape
<1>3. /\ refc' = [refc EXCEPT ![c] = @ + 1] /\ pc' = [pc EXCEPT ![t] = "ref"]
      /\ UNCHANGED << listed, guarded, releasing, release_frees, call, obj >>
  BY <1>1 DEF Get, Goto
<1>4. Shape'
  BY <1>2, <1>3 DEF RefInv, Shape, TypeOK
<1>5. NoUseAfterFree' /\ FoundOpen'
  BY <1>3 DEF RefInv, NoUseAfterFree, FoundOpen, TypeOK
<1>6. Kinds'
  BY <1>3 DEF RefInv, Kinds
<1>7. Counted'
  <2>1. Holders(c)' = Holders(c) \cup {t} /\ t \notin Holders(c) /\ OwnRef(c)' = OwnRef(c)
    BY <1>1, <1>2, <1>3 DEF Holders, OwnRef, TypeOK, RefLocs
  <2>2. \A d \in Cookies : d # c => Holders(d)' = Holders(d) /\ OwnRef(d)' = OwnRef(d)
    BY <1>1, <1>3 DEF Holders, OwnRef, TypeOK
  <2>3. Cardinality(Holders(c)') = Cardinality(Holders(c)) + 1
    BY <2>1, HoldersFinite, FS_AddElement
  <2>4. refc'[c] = Cardinality(Holders(c)') + OwnRef(c)'
    BY <1>1, <1>3, <2>1, <2>3, HoldersFinite DEF RefInv, Counted, TypeOK, OwnRef
  <2>5. \A d \in Cookies : d # c => refc'[d] = refc[d] /\ listed'[d] = listed[d]
    BY <1>3 DEF TypeOK
  <2> QED BY <2>2, <2>4, <2>5, CountedBut DEF RefInv
<1>8. Finishing' /\ FreesLast'
  <2>1. ~release_frees[c] /\ \A u \in Threads : obj[u] = c => pc[u] \notin LastLocs
    BY <1>1 DEF RefInv, FreesLast, Finishing
  <2> QED BY <1>3, <2>1 DEF RefInv, Finishing, FreesLast, LastLocs, TypeOK
<1> QED BY <1>4, <1>5, <1>6, <1>7, <1>8 DEF RefInv

\* A put brings the count to 0 once, and its thread is then alone on its way.
LEMMA RefPut ==
  ASSUME TypeOK, RefInv, NEW t \in Threads, Put(t)
  PROVE  RefInv'
<1> USE RegShmAssumption
<1>1. PICK c \in Cookies : c = obj[t]
  BY DEF Put, RefInv, Shape
<1>2. /\ pc[t] \in {"ref", "put", "mapped"} /\ call[t] \in {"temp", "use", "release"}
      /\ call[t] = "release" => pc[t] = "put"
      /\ listed[c] /\ refc[c] > 0
  <2>1. pc[t] \in {"ref", "put", "mapped"}
    BY DEF Put
  <2>2. listed[c] /\ refc[c] > 0
    BY <1>1, <2>1, HolderCounted DEF RefInv, NoUseAfterFree, RefLocs
  <2> QED BY <2>1, <2>2 DEF RefInv, Shape
<1>3. /\ refc' = [refc EXCEPT ![c] = @ - 1]
      /\ UNCHANGED << listed, guarded, releasing, release_frees >>
  BY <1>1 DEF Put
<1>4. \/ /\ refc[c] = 1 /\ pc' = [pc EXCEPT ![t] = "last"] /\ UNCHANGED << call, obj >>
      \/ /\ refc[c] # 1 /\ call[t] = "release"
         /\ pc' = [pc EXCEPT ![t] = "wait_lock"] /\ UNCHANGED << call, obj >>
      \/ /\ refc[c] # 1 /\ call[t] # "release"
         /\ pc' = [pc EXCEPT ![t] = "idle"]
         /\ call' = [call EXCEPT ![t] = "none"]
         /\ obj' = [obj EXCEPT ![t] = NoCookie]
  BY <1>1 DEF Put, AfterPut, Return, Goto
<1>5. Shape'
  BY <1>1, <1>2, <1>4 DEF RefInv, Shape, TypeOK
<1>6. NoUseAfterFree' /\ FoundOpen'
  BY <1>3, <1>4 DEF RefInv, NoUseAfterFree, FoundOpen, TypeOK
<1>7. Kinds'
  BY <1>3, <1>4 DEF RefInv, Kinds, TypeOK
<1>8. Counted'
  <2>1. Holders(c)' = Holders(c) \ {t} /\ t \in Holders(c) /\ OwnRef(c)' = OwnRef(c)
    BY <1>1, <1>2, <1>3, <1>4 DEF Holders, OwnRef, TypeOK, RefLocs
  <2>2. \A d \in Cookies : d # c => Holders(d)' = Holders(d) /\ OwnRef(d)' = OwnRef(d)
    BY <1>1, <1>3, <1>4 DEF Holders, OwnRef, TypeOK
  <2>3. Cardinality(Holders(c)') = Cardinality(Holders(c)) - 1
    BY <2>1, HoldersFinite, FS_RemoveElement
  <2>4. refc'[c] = Cardinality(Holders(c)') + OwnRef(c)'
    BY <1>2, <1>3, <2>1, <2>3, HoldersFinite DEF RefInv, Counted, TypeOK, OwnRef
  <2>5. \A d \in Cookies : d # c => refc'[d] = refc[d] /\ listed'[d] = listed[d]
    BY <1>3 DEF TypeOK
  <2> QED BY <2>2, <2>4, <2>5, CountedBut DEF RefInv
<1>9. Finishing' /\ FreesLast'
  <2>1. ~release_frees[c] /\ \A u \in Threads : obj[u] = c => pc[u] \notin LastLocs
    BY <1>2 DEF RefInv, FreesLast, Finishing
  <2> QED BY <1>1, <1>3, <1>4, <2>1 DEF RefInv, Finishing, FreesLast, LastLocs, TypeOK
<1> QED BY <1>5, <1>6, <1>7, <1>8, <1>9 DEF RefInv

\* A user maps and unmaps the mobj under the reference it has.
LEMMA RefMap ==
  ASSUME TypeOK, RefInv, NEW t \in Threads,
         \/ Map(t) \/ IncMap(t) \/ IncMapAgain(t) \/ IncMapFirst(t)
         \/ IncMapFails(t) \/ DecMap(t) \/ DecMapUnmap(t)
  PROVE  RefInv'
<1>1. UNCHANGED << listed, refc, guarded, releasing, release_frees, call, obj >>
  BY DEF Map, IncMap, IncMapAgain, IncMapFirst, IncMapFails, DecMap, DecMapUnmap, refVars
<1>2. \/ /\ pc[t] \in {"ref", "inc", "map"}
         /\ pc' = [pc EXCEPT ![t] = pc'[t]] /\ pc'[t] \in {"inc", "map", "mapped", "put"}
      \/ /\ pc[t] \in {"mapped", "unmap"} /\ call[t] = "use"
         /\ pc' = [pc EXCEPT ![t] = pc'[t]] /\ pc'[t] \in {"unmap", "put", "panic"}
  <2>1. CASE Map(t) \/ IncMap(t) \/ IncMapAgain(t) \/ IncMapFirst(t) \/ IncMapFails(t)
    BY <2>1 DEF Map, IncMap, IncMapAgain, IncMapFirst, IncMapFails, Goto, TypeOK
  <2>2. CASE DecMap(t) \/ DecMapUnmap(t)
    <3>1. call[t] = "use"
      BY <2>2 DEF DecMap, DecMapUnmap, RefInv, Shape
    <3> QED BY <2>2, <3>1 DEF DecMap, DecMapUnmap, Goto, TypeOK
  <2> QED BY <2>1, <2>2
<1>3. Shape'
  BY <1>1, <1>2 DEF RefInv, Shape, TypeOK
<1>4. \A u \in Threads :
        /\ pc'[u] \in RefLocs <=> pc[u] \in RefLocs
        /\ pc'[u] = "found" => pc[u] = "found"
        /\ pc'[u] \in LastLocs => pc[u] \in LastLocs
  BY <1>2 DEF RefLocs, LastLocs, TypeOK
<1> QED BY <1>1, <1>3, <1>4, RefsKept DEF refVars

LEMMA RefLast ==
  ASSUME TypeOK, RefInv, NEW t \in Threads, Last(t)
  PROVE  RefInv'
<1>1. UNCHANGED << listed, refc, guarded, releasing, release_frees, call, obj >>
  BY DEF Last, refVars
<1>2. /\ pc[t] = "last"
      /\ pc' = [pc EXCEPT ![t] = IF guarded[obj[t]] /\ ~releasing[obj[t]] THEN "free"
                                ELSE "set_frees"]
  BY DEF Last, Goto
<1>3. /\ call[t] = "temp" => pc'[t] = "free"
      /\ call[t] \in {"use", "release"} => pc'[t] = "set_frees"
  BY <1>2 DEF RefInv, Shape, Kinds, TypeOK
<1>4. Shape'
  BY <1>1, <1>2, <1>3 DEF RefInv, Shape, TypeOK
<1>5. \A u \in Threads :
        /\ pc'[u] \in RefLocs <=> pc[u] \in RefLocs
        /\ pc'[u] = "found" => pc[u] = "found"
        /\ pc'[u] \in LastLocs => pc[u] \in LastLocs
  BY <1>2 DEF RefLocs, LastLocs, TypeOK
<1> QED BY <1>1, <1>4, <1>5, RefsKept DEF refVars

\* A step that leaves the references alone and in which thread t leaves a mobj
\* it has no reference of.
LEMMA RefLeft ==
  ASSUME TypeOK, RefInv, NEW t \in Threads, NEW c \in Cookies, obj[t] = c,
         pc[t] \notin RefLocs, pc'[t] \notin RefLocs, Shape',
         \A d \in Cookies : d # c => listed'[d] = listed[d],
         listed'[c] => listed[c],
         \A u \in Threads : u # t => listed'[c] \/ obj[u] # c,
         \A u \in Threads : u # t => pc'[u] = pc[u] /\ call'[u] = call[u] /\ obj'[u] = obj[u],
         obj'[t] = NoCookie, pc'[t] = "idle" \/ pc'[t] = "broadcast",
         UNCHANGED << refc, guarded, releasing >>,
         \A d \in Cookies : d # c => release_frees'[d] = release_frees[d],
         \/ release_frees'[c] = release_frees[c]
         \/ release_frees'[c] /\ refc[c] = 0 /\ pc[t] \in LastLocs
  PROVE  RefInv'
<1> USE RegShmAssumption
<1>1. NoUseAfterFree' /\ FoundOpen'
  BY DEF RefInv, NoUseAfterFree, FoundOpen, TypeOK
<1>2. Kinds'
  BY DEF RefInv, Kinds, TypeOK
<1>3. Counted'
  <2>1. \A d \in Cookies : Holders(d)' = Holders(d) /\ OwnRef(d)' = OwnRef(d)
    BY DEF Holders, OwnRef
  <2>2. \A d \in Cookies : listed'[d] => listed[d]
    OBVIOUS
  <2> QED BY <2>1, <2>2 DEF RefInv, Counted
<1>4. Finishing'
  BY DEF RefInv, Finishing, LastLocs, Shape
<1>5. FreesLast'
  BY DEF RefInv, FreesLast
<1> QED BY <1>1, <1>2, <1>3, <1>4, <1>5 DEF RefInv

\* A guarded mobj is freed by its one user.
LEMMA RefFreeGuarded ==
  ASSUME TypeOK, RefInv, NEW t \in Threads, FreeGuarded(t)
  PROVE  RefInv'
<1>1. PICK c \in Cookies : c = obj[t]
  BY DEF FreeGuarded, RefInv, Shape
<1>2. /\ pc[t] = "free" /\ call[t] = "temp"
      /\ \A u \in Threads : u # t => obj[u] # c
  BY <1>1 DEF FreeGuarded, RefInv, Shape, Kinds
<1>3. /\ listed' = [listed EXCEPT ![c] = FALSE]
      /\ pc' = [pc EXCEPT ![t] = "idle"] /\ call' = [call EXCEPT ![t] = "none"]
      /\ obj' = [obj EXCEPT ![t] = NoCookie]
      /\ UNCHANGED << refc, guarded, releasing, release_frees >>
  BY <1>1, <1>2 DEF FreeGuarded, FreeHelper, AfterPut, Return, Goto
<1>4. Shape'
  BY <1>2, <1>3 DEF RefInv, Shape, TypeOK
<1>5. /\ \A d \in Cookies : d # c => listed'[d] = listed[d]
      /\ ~listed'[c]
      /\ \A u \in Threads : u # t => pc'[u] = pc[u] /\ call'[u] = call[u] /\ obj'[u] = obj[u]
      /\ obj'[t] = NoCookie /\ pc'[t] = "idle"
  BY <1>3 DEF TypeOK
<1> QED BY <1>1, <1>2, <1>3, <1>4, <1>5, RefLeft DEF RefLocs

\* Nobody else is on the way from the last put when release_frees is set.
LEMMA RefSetReleaseFrees ==
  ASSUME TypeOK, RefInv, NEW t \in Threads, SetReleaseFrees(t)
  PROVE  RefInv'
<1> USE RegShmAssumption
<1>1. PICK c \in Cookies : c = obj[t]
  BY DEF SetReleaseFrees, RefInv, Shape
<1>2. /\ pc[t] = "set_frees" /\ call[t] \in {"use", "release"} /\ refc[c] = 0
      /\ \A u \in Threads : u # t /\ obj[u] = c => pc[u] \notin LastLocs
  BY <1>1 DEF SetReleaseFrees, RefInv, Shape, Finishing, LastLocs
<1>3. /\ release_frees' = [release_frees EXCEPT ![c] = TRUE]
      /\ pc' = [pc EXCEPT ![t] = "broadcast"]
      /\ obj' = IF call[t] = "release" THEN obj ELSE [obj EXCEPT ![t] = NoCookie]
      /\ UNCHANGED << listed, refc, guarded, releasing, call >>
  BY <1>1 DEF SetReleaseFrees, Goto
<1>4. Shape'
  BY <1>1, <1>2, <1>3 DEF RefInv, Shape, TypeOK
<1>5. NoUseAfterFree' /\ FoundOpen'
  BY <1>3 DEF RefInv, NoUseAfterFree, FoundOpen, TypeOK
<1>6. Kinds'
  BY <1>3 DEF RefInv, Kinds, TypeOK
<1>7. Counted'
  <2>1. \A d \in Cookies : Holders(d)' = Holders(d) /\ OwnRef(d)' = OwnRef(d)
    BY <1>2, <1>3 DEF Holders, OwnRef, TypeOK, RefLocs
  <2> QED BY <1>3, <2>1 DEF RefInv, Counted
<1>8. Finishing' /\ FreesLast'
  BY <1>1, <1>2, <1>3 DEF RefInv, Finishing, FreesLast, LastLocs, TypeOK
<1> QED BY <1>4, <1>5, <1>6, <1>7, <1>8 DEF RefInv

\* Nobody that is broadcasting or waiting has a reference.
LEMMA RefBroadcast ==
  ASSUME TypeOK, RefInv, NEW t \in Threads, Broadcast(t)
  PROVE  RefInv'
<1> USE RegShmAssumption
<1>1. UNCHANGED << listed, refc, guarded, releasing, release_frees, obj >>
  BY DEF Broadcast, Wake, refVars
<1>2. /\ pc[t] = "broadcast"
      /\ \/ call[t] = "use" /\ obj[t] = NoCookie
         \/ call[t] = "release" /\ obj[t] \in Cookies
  BY DEF Broadcast, RefInv, Shape
<1>3. /\ call'[t] = IF call[t] = "release" THEN "release" ELSE "none"
      /\ pc'[t] = IF call[t] = "release" THEN "wait_lock" ELSE "idle"
      /\ \A u \in Threads : u # t =>
           /\ call'[u] = call[u]
           /\ pc'[u] = pc[u] \/ (pc[u] = "blocked" /\ pc'[u] = "woken")
  <2>1. PICK W \in SUBSET Blocked : Wake(t, W)
    BY DEF Broadcast
  <2>2. \A u \in Threads :
          pc'[u] = IF u = t THEN IF call[t] = "release" THEN "wait_lock" ELSE "idle"
                   ELSE IF u \in W THEN "woken" ELSE pc[u]
    BY <2>1 DEF Wake
  <2>3. call' = IF call[t] = "release" THEN call ELSE [call EXCEPT ![t] = "none"]
    BY <2>1 DEF Wake
  <2>4. call'[t] = (IF call[t] = "release" THEN "release" ELSE "none")
        /\ \A u \in Threads : u # t => call'[u] = call[u]
    BY <2>3 DEF TypeOK
  <2>5. \A u \in Threads : u # t =>
          pc'[u] = pc[u] \/ (pc[u] = "blocked" /\ pc'[u] = "woken")
    BY <2>2 DEF Blocked
  <2> QED BY <2>2, <2>4, <2>5
<1>4. Shape'
  BY <1>1, <1>2, <1>3 DEF RefInv, Shape
<1>5. \A u \in Threads :
        /\ obj'[u] = obj[u]
        /\ obj[u] \in Cookies => call'[u] = call[u]
        /\ pc'[u] \in RefLocs <=> pc[u] \in RefLocs
        /\ pc'[u] = "found" => pc[u] = "found"
        /\ pc'[u] \in LastLocs => pc[u] \in LastLocs
  BY <1>1, <1>2, <1>3 DEF RefLocs, LastLocs
<1> QED BY <1>1, <1>4, <1>5, RefsKept DEF refVars

\* A release takes over the reference of the registration.
LEMMA RefRelease ==
  ASSUME CarefulNW, TypeOK, RefInv, NEW t \in Threads, NEW c \in Cookies, Release(t, c)
  PROVE  RefInv'
<1> USE RegShmAssumption
<1>1. /\ pc[t] = "idle" /\ call[t] = "none" /\ obj[t] = NoCookie
      /\ listed[c] /\ ~guarded[c] /\ ~releasing[c]
      /\ \A u \in Threads : pc[u] = "found" => obj[u] # c
  BY DEF Release, Start, RefInv, Shape
<1>2. /\ releasing' = [releasing EXCEPT ![c] = TRUE]
      /\ pc' = [pc EXCEPT ![t] = "put"] /\ call' = [call EXCEPT ![t] = "release"]
      /\ obj' = [obj EXCEPT ![t] = c]
      /\ UNCHANGED << listed, refc, guarded, release_frees >>
  BY DEF Release, Start, Goto
<1>3. Shape'
  BY <1>1, <1>2 DEF RefInv, Shape, TypeOK
<1>4. NoUseAfterFree' /\ FoundOpen'
  BY <1>1, <1>2 DEF RefInv, NoUseAfterFree, FoundOpen, TypeOK
<1>5. Kinds'
  BY <1>1, <1>2 DEF RefInv, Kinds, TypeOK
<1>6. Counted'
  <2>1. /\ Holders(c)' = Holders(c) \cup {t} /\ t \notin Holders(c)
        /\ OwnRef(c) = 1 /\ OwnRef(c)' = 0
    BY <1>1, <1>2 DEF Holders, OwnRef, TypeOK, RefLocs
  <2>2. \A d \in Cookies : d # c => Holders(d)' = Holders(d) /\ OwnRef(d)' = OwnRef(d)
    BY <1>1, <1>2 DEF Holders, OwnRef, TypeOK
  <2>3. Cardinality(Holders(c)') = Cardinality(Holders(c)) + 1
    BY <2>1, HoldersFinite, FS_AddElement
  <2>4. refc'[c] = Cardinality(Holders(c)') + OwnRef(c)'
    BY <1>1, <1>2, <2>1, <2>3, HoldersFinite DEF RefInv, Counted
  <2> QED BY <1>2, <2>2, <2>4, CountedBut DEF RefInv
<1>7. Finishing' /\ FreesLast'
  BY <1>1, <1>2 DEF RefInv, Finishing, FreesLast, LastLocs, TypeOK
<1> QED BY <1>3, <1>4, <1>5, <1>6, <1>7 DEF RefInv

\* The mobj is freed when its releaser is the only user left.
LEMMA RefReleaseWait ==
  ASSUME TypeOK, RefInv, NEW t \in Threads, ReleaseWait(t)
  PROVE  RefInv'
<1> USE RegShmAssumption
<1>1. PICK c \in Cookies : c = obj[t]
  BY DEF ReleaseWait, RefInv, Shape
<1>2. pc[t] \in {"wait_lock", "woken"} /\ call[t] = "release"
  BY DEF ReleaseWait, RefInv, Shape
<1>3. UNCHANGED << refc, guarded, releasing, release_frees >>
  BY DEF ReleaseWait
<1>4. CASE release_frees[c]
  <2>1. \A u \in Threads : u # t => obj[u] # c
    BY <1>1, <1>2, <1>4, ReleaserAlone
  <2>2. /\ listed' = [listed EXCEPT ![c] = FALSE]
        /\ pc' = [pc EXCEPT ![t] = "idle"] /\ call' = [call EXCEPT ![t] = "none"]
        /\ obj' = [obj EXCEPT ![t] = NoCookie]
    BY <1>1, <1>4 DEF ReleaseWait, FreeHelper, Return, Goto
  <2>3. Shape'
    BY <1>2, <2>2 DEF RefInv, Shape, TypeOK
  <2>4. /\ \A d \in Cookies : d # c => listed'[d] = listed[d]
        /\ ~listed'[c]
        /\ \A u \in Threads : u # t => pc'[u] = pc[u] /\ call'[u] = call[u] /\ obj'[u] = obj[u]
        /\ obj'[t] = NoCookie /\ pc'[t] = "idle"
    BY <2>2 DEF TypeOK
  <2> QED BY <1>1, <1>2, <1>3, <2>1, <2>3, <2>4, RefLeft DEF RefLocs
<1>5. CASE ~release_frees[c]
  <2>1. pc' = [pc EXCEPT ![t] = "blocked"] /\ UNCHANGED << listed, call, obj >>
    BY <1>1, <1>5 DEF ReleaseWait, Goto
  <2>2. Shape'
    BY <1>1, <1>2, <2>1 DEF RefInv, Shape, TypeOK
  <2>3. \A u \in Threads :
          /\ pc'[u] \in RefLocs <=> pc[u] \in RefLocs
          /\ pc'[u] = "found" => pc[u] = "found"
          /\ pc'[u] \in LastLocs => pc[u] \in LastLocs
    BY <1>2, <2>1 DEF RefLocs, LastLocs, TypeOK
  <2> QED BY <1>3, <2>1, <2>2, <2>3, RefsKept DEF refVars
<1> QED BY <1>4, <1>5

LEMMA RefNext ==
  ASSUME CarefulNW, TypeOK, RefInv, Next
  PROVE  RefInv'
<1> SUFFICES ASSUME NEW t \in Threads, Progress(t) \/ Call(t)
             PROVE  RefInv'
  BY DEF Next
<1>1. CASE Progress(t)
  BY <1>1, RefUnguard, RefGet, RefMap, RefPut, RefLast, RefFreeGuarded,
     RefSetReleaseFrees, RefBroadcast, RefReleaseWait DEF Progress
<1>2. CASE Call(t)
  BY <1>2, RefAlloc, RefFind, RefRelease, RefMap DEF Call
<1> QED BY <1>1, <1>2

-----------------------------------------------------------------------------
(* The mapping.                                                            *)

Mappers(c) == {t \in Threads : obj[t] = c /\ pc[t] = "mapped"}
HasTemp(c) == \E t \in Threads : obj[t] = c /\ call[t] = "temp"
Unmapping(c) == \E t \in Threads : obj[t] = c /\ pc[t] = "unmap"

\* The count of mappings, that of a mobj the call owns aside, which is freed
\* with its mapping.
MapInv ==
  /\ \A c \in Cookies : listed[c] /\ mapcount[c] > 0 => mm[c]
  /\ \A c \in Cookies : listed[c] /\ ~HasTemp(c) => mapcount[c] = Cardinality(Mappers(c))
  /\ \A t \in Threads : pc[t] = "mapped" => mapcount[obj[t]] > 0
  /\ \A c \in Cookies : listed[c] /\ mm[c] /\ mapcount[c] = 0 => Halted \/ Unmapping(c)

LEMMA MappersFinite ==
  ASSUME NEW c
  PROVE  IsFiniteSet(Mappers(c)) /\ Cardinality(Mappers(c)) \in Nat
         /\ (Cardinality(Mappers(c)) = 0 <=> Mappers(c) = {})
<1>1. Mappers(c) \subseteq Threads /\ IsFiniteSet(Threads)
  BY RegShmAssumption DEF Mappers
<1>2. IsFiniteSet(Mappers(c))
  BY <1>1, FS_Subset
<1> QED BY <1>2, FS_CardinalityType, FS_EmptySet

\* A call's own mobj has one user, which has its one reference.
LEMMA TempAlone ==
  ASSUME RefInv, NEW t \in Threads, call[t] = "temp", pc[t] \in RefLocs
  PROVE  refc[obj[t]] = 1
<1>1. PICK c \in Cookies : c = obj[t]
  BY DEF RefInv, Shape
<1>2. listed[c] /\ guarded[c] /\ \A u \in Threads : obj[u] = c => u = t
  BY <1>1 DEF RefInv, NoUseAfterFree, Kinds
<1>3. Holders(c) = {t} /\ OwnRef(c) = 0
  BY <1>1, <1>2 DEF Holders, OwnRef
<1>4. Cardinality({t}) = 1
  BY FS_Singleton
<1> QED BY <1>1, <1>2, <1>3, <1>4 DEF RefInv, Counted

\* A step that neither maps nor unmaps, and may free a mobj.
LEMMA MapKept ==
  ASSUME TypeOK, MapInv, ~Halted, mapcount' = mapcount,
         \A c \in Cookies : listed'[c] => listed[c] /\ mm'[c] = mm[c],
         \A u \in Threads : pc'[u] = "mapped" => pc[u] = "mapped" /\ obj'[u] = obj[u],
         \A u \in Threads : pc[u] = "mapped" =>
            obj'[u] = obj[u] /\ (pc'[u] = "mapped" \/ call'[u] = "temp"),
         \A u \in Threads : call[u] = "temp" =>
            \/ obj'[u] = obj[u] /\ call'[u] = "temp"
            \/ obj[u] \in Cookies => ~listed'[obj[u]],
         \A u \in Threads : pc[u] = "unmap" => pc'[u] = "unmap" /\ obj'[u] = obj[u]
  PROVE  MapInv'
<1>1. \A c \in Cookies : listed'[c] /\ ~HasTemp(c)' => ~HasTemp(c)
  BY DEF HasTemp
<1>2. \A c \in Cookies : ~HasTemp(c)' => Mappers(c)' = Mappers(c)
  BY DEF HasTemp, Mappers
<1>3. \A c \in Cookies : Unmapping(c) => Unmapping(c)'
  BY DEF Unmapping
<1>4. \A c \in Cookies : listed'[c] /\ ~HasTemp(c)' => mapcount'[c] = Cardinality(Mappers(c)')
  BY <1>1, <1>2 DEF MapInv
<1>5. \A c \in Cookies : listed'[c] /\ mapcount'[c] > 0 => mm'[c]
  BY DEF MapInv
<1>6. \A t \in Threads : pc'[t] = "mapped" => mapcount'[obj'[t]] > 0
  BY DEF MapInv
<1>7. \A c \in Cookies : listed'[c] /\ mm'[c] /\ mapcount'[c] = 0 => Unmapping(c)'
  BY <1>3 DEF MapInv
<1> QED BY <1>4, <1>5, <1>6, <1>7 DEF MapInv

\* A step of the count of one mobj, on which the thread that takes it has a
\* reference.
LEMMA MapBut ==
  ASSUME TypeOK, RefInv, MapInv, ~Halted,
         NEW c \in Cookies, NEW t \in Threads, obj[t] = c,
         UNCHANGED << listed, call, obj >>,
         mapcount' = [mapcount EXCEPT ![c] = mapcount'[c]], mapcount'[c] \in Nat,
         mm' = [mm EXCEPT ![c] = mm'[c]],
         pc' = [pc EXCEPT ![t] = pc'[t]],
         mapcount'[c] > 0 => mm'[c],
         ~HasTemp(c) /\ listed[c] => mapcount'[c] = Cardinality(Mappers(c)'),
         \A u \in Threads : obj[u] = c /\ pc'[u] = "mapped" => mapcount'[c] > 0,
         mm'[c] /\ mapcount'[c] = 0 => Halted' \/ Unmapping(c)'
  PROVE  MapInv'
<1>1. \A d \in Cookies : d # c => /\ Mappers(d)' = Mappers(d)
                                /\ Unmapping(d)' = Unmapping(d)
                                /\ mapcount'[d] = mapcount[d] /\ mm'[d] = mm[d]
  BY DEF Mappers, Unmapping, TypeOK
<1>2. \A d \in Cookies : HasTemp(d)' = HasTemp(d)
  BY DEF HasTemp
<1>3. \A d \in Cookies : listed'[d] /\ mapcount'[d] > 0 => mm'[d]
  BY <1>1 DEF MapInv
<1>4. \A d \in Cookies : listed'[d] /\ ~HasTemp(d)' => mapcount'[d] = Cardinality(Mappers(d)')
  BY <1>1, <1>2 DEF MapInv
<1>5. \A u \in Threads : pc'[u] = "mapped" => mapcount'[obj'[u]] > 0
  <2> SUFFICES ASSUME NEW u \in Threads, pc'[u] = "mapped", obj[u] # c
               PROVE  mapcount'[obj[u]] > 0
    OBVIOUS
  <2>1. pc[u] = "mapped" /\ obj[u] \in Cookies
    BY DEF RefInv, Shape, TypeOK
  <2> QED BY <1>1, <2>1 DEF MapInv
<1>6. \A d \in Cookies : listed'[d] /\ mm'[d] /\ mapcount'[d] = 0 => Halted' \/ Unmapping(d)'
  BY <1>1 DEF MapInv
<1> QED BY <1>3, <1>4, <1>5, <1>6 DEF MapInv

LEMMA MapAlloc ==
  ASSUME TypeOK, RefInv, MapInv, NEW t \in Threads, NEW c \in Cookies,
         ~Halted, Register(t, c) \/ AllocMapped(t, c)
  PROVE  MapInv'
<1> USE RegShmAssumption
<1>1. /\ obj[t] = NoCookie /\ call[t] = "none" /\ pc[t] = "idle"
      /\ \A u \in Threads : obj[u] # c
      /\ pc' = [pc EXCEPT ![t] = pc'[t]] /\ call' = [call EXCEPT ![t] = call'[t]]
      /\ obj' = [obj EXCEPT ![t] = c] /\ pc'[t] \in {"unguard", "inc"}
      /\ listed' = [listed EXCEPT ![c] = TRUE]
      /\ mapcount' = [mapcount EXCEPT ![c] = 0] /\ mm' = [mm EXCEPT ![c] = FALSE]
  BY DEF Register, AllocMapped, Alloc, Start, Goto, RefInv, Shape, TypeOK
<1>2. Mappers(c)' = {} /\ Cardinality({}) = 0
  BY <1>1, FS_EmptySet DEF Mappers, TypeOK
<1>3. \A d \in Cookies : d # c =>
        /\ Mappers(d)' = Mappers(d) /\ HasTemp(d)' = HasTemp(d)
        /\ Unmapping(d)' = Unmapping(d) /\ mapcount'[d] = mapcount[d]
        /\ mm'[d] = mm[d] /\ listed'[d] = listed[d]
  BY <1>1 DEF Mappers, HasTemp, Unmapping, TypeOK
<1>4. mapcount'[c] = 0 /\ ~mm'[c]
  BY <1>1 DEF TypeOK
<1>5. \A d \in Cookies : listed'[d] /\ mapcount'[d] > 0 => mm'[d]
  BY <1>3, <1>4 DEF MapInv
<1>6. \A d \in Cookies : listed'[d] /\ ~HasTemp(d)' => mapcount'[d] = Cardinality(Mappers(d)')
  BY <1>2, <1>3, <1>4 DEF MapInv
<1>7. \A u \in Threads : pc'[u] = "mapped" => mapcount'[obj'[u]] > 0
  <2> SUFFICES ASSUME NEW u \in Threads, pc'[u] = "mapped"
               PROVE  mapcount'[obj'[u]] > 0
    OBVIOUS
  <2>1. pc[u] = "mapped" /\ obj[u] \in Cookies /\ obj[u] # c /\ obj'[u] = obj[u]
    BY <1>1 DEF RefInv, Shape, TypeOK
  <2> QED BY <1>3, <2>1 DEF MapInv
<1>8. \A d \in Cookies : listed'[d] /\ mm'[d] /\ mapcount'[d] = 0 => Unmapping(d)'
  BY <1>3, <1>4 DEF MapInv
<1> QED BY <1>5, <1>6, <1>7, <1>8 DEF MapInv

\* One more mapping: the first under the lock, or on top of another.
LEMMA MapInc ==
  ASSUME TypeOK, RefInv, MapInv, ~Halted, NEW t \in Threads,
         IncMapFirst(t) \/ (IncMap(t) /\ mapcount[obj[t]] > 0)
  PROVE  MapInv'
<1>1. PICK c \in Cookies : c = obj[t] /\ listed[c]
  BY DEF IncMap, IncMapFirst, RefInv, Shape, NoUseAfterFree
<1>2. /\ pc[t] \in {"inc", "map"} /\ pc' = [pc EXCEPT ![t] = "mapped"]
      /\ mapcount' = [mapcount EXCEPT ![c] = @ + 1]
      /\ UNCHANGED << listed, call, obj >>
      /\ \/ mapcount[c] > 0 /\ mm' = mm
         \/ mm' = [mm EXCEPT ![c] = TRUE]
  BY <1>1 DEF IncMap, IncMapFirst, Goto, refVars, TypeOK
<1>3. mm'[c] /\ mm' = [mm EXCEPT ![c] = mm'[c]]
  BY <1>1, <1>2 DEF MapInv, TypeOK
<1>4. mapcount'[c] = mapcount[c] + 1 /\ mapcount' = [mapcount EXCEPT ![c] = mapcount'[c]]
  BY <1>2 DEF TypeOK
<1>5. Mappers(c)' = Mappers(c) \cup {t} /\ t \notin Mappers(c)
  BY <1>1, <1>2 DEF Mappers, TypeOK
<1>6. Cardinality(Mappers(c)') = Cardinality(Mappers(c)) + 1
  BY <1>5, MappersFinite, FS_AddElement
<1>7. ~HasTemp(c) => mapcount'[c] = Cardinality(Mappers(c)')
  BY <1>1, <1>4, <1>6 DEF MapInv
<1>8. mapcount'[c] \in Nat /\ mapcount'[c] > 0 /\ mapcount'[c] # 0
  BY <1>4 DEF TypeOK
<1>9. pc' = [pc EXCEPT ![t] = pc'[t]]
  BY <1>2 DEF TypeOK
<1> QED BY <1>1, <1>2, <1>3, <1>4, <1>7, <1>8, <1>9, MapBut

\* The count of a shared mobj is above 0 as long as another mapping is used.
LEMMA MapDec ==
  ASSUME TypeOK, RefInv, MapInv, ~Halted, NEW t \in Threads, DecMap(t)
  PROVE  MapInv' /\ mapcount[obj[t]] > 0
<1>1. PICK c \in Cookies : c = obj[t] /\ listed[c]
  BY DEF DecMap, RefInv, Shape, NoUseAfterFree
<1>2. /\ pc[t] = "mapped" /\ call[t] = "use" /\ mapcount[c] > 0
      /\ pc' = [pc EXCEPT ![t] = IF mapcount[c] = 1 THEN "unmap" ELSE "put"]
      /\ mapcount' = [mapcount EXCEPT ![c] = @ - 1]
      /\ UNCHANGED << listed, call, obj, mm >>
  BY <1>1 DEF DecMap, Goto, refVars, MapInv
<1>3. ~HasTemp(c)
  BY <1>1, <1>2 DEF HasTemp, RefInv, Kinds
<1>4. mapcount'[c] = mapcount[c] - 1 /\ mapcount' = [mapcount EXCEPT ![c] = mapcount'[c]]
  BY <1>2 DEF TypeOK
<1>5. Mappers(c)' = Mappers(c) \ {t} /\ t \in Mappers(c)
  BY <1>1, <1>2 DEF Mappers, TypeOK
<1>6. Cardinality(Mappers(c)') = Cardinality(Mappers(c)) - 1 /\ IsFiniteSet(Mappers(c)')
  BY <1>5, MappersFinite, FS_RemoveElement
<1>7. mapcount'[c] = Cardinality(Mappers(c)')
  BY <1>1, <1>3, <1>4, <1>6 DEF MapInv
<1>8. mapcount'[c] \in Nat
  BY <1>2, <1>4 DEF TypeOK
<1>9. \A u \in Threads : obj[u] = c /\ pc'[u] = "mapped" => mapcount'[c] > 0
  <2> SUFFICES ASSUME NEW u \in Threads, obj[u] = c, pc'[u] = "mapped"
               PROVE  mapcount'[c] > 0
    OBVIOUS
  <2>1. u \in Mappers(c)'
    BY <1>2 DEF Mappers
  <2>2. Cardinality(Mappers(c)') # 0
    BY <1>6, <2>1, FS_EmptySet
  <2> QED BY <1>7, <1>8, <2>2
<1>10. mapcount'[c] = 0 => Unmapping(c)'
  <2> SUFFICES ASSUME mapcount'[c] = 0
               PROVE  Unmapping(c)'
    OBVIOUS
  <2>1. pc'[t] = "unmap" /\ obj'[t] = c
    BY <1>1, <1>2, <1>4 DEF TypeOK
  <2> QED BY <2>1 DEF Unmapping
<1>11. mapcount'[c] > 0 => mm'[c]
  BY <1>1, <1>2 DEF MapInv
<1>12. pc' = [pc EXCEPT ![t] = pc'[t]] /\ mm' = [mm EXCEPT ![c] = mm'[c]]
  BY <1>2 DEF TypeOK
<1>13. MapInv'
  BY <1>1, <1>2, <1>4, <1>7, <1>8, <1>9, <1>10, <1>11, <1>12, MapBut
<1> QED BY <1>1, <1>2, <1>13

\* The pages are unmapped when nobody has mapped them again.
LEMMA MapUnmap ==
  ASSUME TypeOK, RefInv, MapInv, ~Halted, NEW t \in Threads, DecMapUnmap(t)
  PROVE  MapInv'
<1>1. PICK c \in Cookies : c = obj[t] /\ listed[c]
  BY DEF DecMapUnmap, RefInv, Shape, NoUseAfterFree
<1>2. /\ pc[t] = "unmap" /\ pc'[t] \in {"put", "panic"}
      /\ pc' = [pc EXCEPT ![t] = pc'[t]]
      /\ UNCHANGED << listed, call, obj, mapcount >>
      /\ mm' = IF mapcount[c] = 0 THEN [mm EXCEPT ![c] = FALSE] ELSE mm
  BY <1>1 DEF DecMapUnmap, Goto, refVars, TypeOK
<1>3. Mappers(c)' = Mappers(c)
  BY <1>2 DEF Mappers, TypeOK
<1>4. /\ mapcount' = [mapcount EXCEPT ![c] = mapcount'[c]] /\ mapcount'[c] \in Nat
      /\ mm' = [mm EXCEPT ![c] = mm'[c]]
      /\ ~(mm'[c] /\ mapcount'[c] = 0)
  BY <1>2 DEF TypeOK
<1>5. mapcount'[c] > 0 => mm'[c]
  BY <1>1, <1>2 DEF MapInv
<1>6. ~HasTemp(c) => mapcount'[c] = Cardinality(Mappers(c)')
  BY <1>1, <1>2, <1>3 DEF MapInv
<1>7. \A u \in Threads : obj[u] = c /\ pc'[u] = "mapped" => mapcount'[c] > 0
  BY <1>2 DEF MapInv, TypeOK
<1> QED BY <1>1, <1>2, <1>4, <1>5, <1>6, <1>7, MapBut

\* Every other step leaves the mappings to those that have them.
LEMMA MapOther ==
  ASSUME TypeOK, RefInv, MapInv, ~Halted, NEW t \in Threads,
         \/ Unguard(t) \/ Get(t) \/ Map(t) \/ IncMapAgain(t) \/ IncMapFails(t)
         \/ (IncMap(t) /\ ~(mapcount[obj[t]] > 0))
         \/ Last(t) \/ SetReleaseFrees(t) \/ Broadcast(t)
         \/ \E c \in Cookies : Find(t, c) \/ Release(t, c)
  PROVE  MapInv'
<1>1. UNCHANGED << listed, mapcount, mm >>
  BY DEF Unguard, Get, Map, IncMapAgain, IncMapFails, IncMap, Last, SetReleaseFrees,
         Broadcast, Find, Release, refVars, mapVars
<1>2. pc[t] \notin {"mapped", "unmap"} /\ pc'[t] # "mapped"
  BY DEF Unguard, Get, Map, IncMapAgain, IncMapFails, IncMap, Last, SetReleaseFrees,
         Broadcast, Find, Release, Goto, Return, Start, Wake, TypeOK
<1>3. call[t] = "temp" => call'[t] = "temp" /\ obj'[t] = obj[t]
  BY DEF Unguard, Get, Map, IncMapAgain, IncMapFails, IncMap, Last, SetReleaseFrees,
         Broadcast, Find, Release, Start, RefInv, Shape
<1>4. \A u \in Threads : u # t =>
        /\ obj'[u] = obj[u] /\ call'[u] = call[u]
        /\ pc'[u] = pc[u] \/ (pc[u] = "blocked" /\ pc'[u] = "woken")
  <2>1. CASE Broadcast(t)
    BY <2>1 DEF Broadcast, Wake, Blocked, TypeOK
  <2>2. CASE ~Broadcast(t)
    BY <2>2 DEF Unguard, Get, Map, IncMapAgain, IncMapFails, IncMap, Last,
         SetReleaseFrees, Find, Release, Goto, Return, Start, TypeOK
  <2> QED BY <2>1, <2>2
<1>5. \A u \in Threads : pc'[u] = "mapped" => pc[u] = "mapped" /\ obj'[u] = obj[u]
  BY <1>2, <1>4
<1>6. \A u \in Threads : pc[u] = "mapped" => obj'[u] = obj[u] /\ pc'[u] = "mapped"
  BY <1>2, <1>4
<1>7. \A u \in Threads : call[u] = "temp" => obj'[u] = obj[u] /\ call'[u] = "temp"
  BY <1>3, <1>4
<1>8. \A u \in Threads : pc[u] = "unmap" => pc'[u] = "unmap" /\ obj'[u] = obj[u]
  BY <1>2, <1>4
<1> QED BY <1>1, <1>5, <1>6, <1>7, <1>8, MapKept

\* A call's own mobj stays mapped until it is freed with the last put, which
\* is the call's.
LEMMA MapPut ==
  ASSUME TypeOK, RefInv, MapInv, ~Halted, NEW t \in Threads,
         Put(t) \/ FreeGuarded(t) \/ ReleaseWait(t)
  PROVE  MapInv'
<1> USE RegShmAssumption
<1>1. PICK c \in Cookies : c = obj[t]
  BY DEF Put, FreeGuarded, ReleaseWait, RefInv, Shape
<1>2. mapcount' = mapcount /\ \A d \in Cookies : listed'[d] => listed[d] /\ mm'[d] = mm[d]
  BY <1>1 DEF Put, FreeGuarded, ReleaseWait, FreeHelper, mapVars, TypeOK
<1>3. \A u \in Threads : u # t => obj'[u] = obj[u] /\ call'[u] = call[u] /\ pc'[u] = pc[u]
  BY DEF Put, FreeGuarded, ReleaseWait, AfterPut, Goto, Return, TypeOK
<1>4. pc[t] # "unmap" /\ pc'[t] # "mapped"
  BY DEF Put, FreeGuarded, ReleaseWait, AfterPut, Goto, Return, TypeOK
<1>5. CASE Put(t) /\ call[t] = "temp"
  <2>1. pc[t] \in RefLocs /\ refc[obj[t]] = 1
    BY <1>5, TempAlone DEF Put, RefLocs
  <2>2. call'[t] = "temp" /\ obj'[t] = obj[t]
    BY <1>5, <2>1 DEF Put
  <2> QED BY <1>2, <1>3, <1>4, <2>2, MapKept
<1>6. CASE call[t] # "temp"
  <2>1. pc[t] # "mapped"
    BY <1>6 DEF Put, FreeGuarded, ReleaseWait
  <2> QED BY <1>2, <1>3, <1>4, <1>6, <2>1, MapKept
<1>7. CASE FreeGuarded(t)
  <2>1. ~listed'[obj[t]] /\ pc[t] # "mapped"
    BY <1>1, <1>7 DEF FreeGuarded, FreeHelper, TypeOK
  <2> QED BY <1>2, <1>3, <1>4, <2>1, MapKept
<1>8. CASE ReleaseWait(t)
  <2>1. call[t] = "release"
    BY <1>8 DEF ReleaseWait, RefInv, Shape
  <2> QED BY <1>6, <2>1
<1> QED BY <1>5, <1>6, <1>7, <1>8

LEMMA MapNext ==
  ASSUME TypeOK, RefInv, MapInv, Next
  PROVE  MapInv'
<1> SUFFICES ASSUME NEW t \in Threads, ~Halted, Progress(t) \/ Call(t)
             PROVE  MapInv'
  BY DEF Next
<1>1. CASE Progress(t)
  BY <1>1, MapOther, MapInc, MapDec, MapUnmap, MapPut DEF Progress
<1>2. CASE Call(t)
  BY <1>2, MapOther, MapAlloc DEF Call
<1> QED BY <1>1, <1>2

-----------------------------------------------------------------------------
(* The wait for the last put.                                              *)

Sleepers == {t \in Threads : pc[t] \in {"blocked", "woken"}}

\* The waiters of all mobjs are counted, so that a broadcast misses none.
WaitInv == shm_release_waiters = Cardinality(Sleepers) /\ NoLostRelease

LEMMA SleepersFinite ==
  IsFiniteSet(Sleepers) /\ (Cardinality(Sleepers) = 0 <=> Sleepers = {})
<1>1. Sleepers \subseteq Threads /\ IsFiniteSet(Threads)
  BY RegShmAssumption DEF Sleepers
<1> QED BY <1>1, FS_Subset, FS_EmptySet

\* Every step but a broadcast and a turn of the waiting loop.
LEMMA WaitOther ==
  ASSUME TypeOK, RefInv, WaitInv, NEW t \in Threads,
         Progress(t) \/ Call(t), ~Broadcast(t), ~ReleaseWait(t)
  PROVE  WaitInv' /\ shm_release_waiters' \in Nat
<1> USE RegShmAssumption
<1> USE DEF Unguard, Get, Map, IncMap, IncMapAgain, IncMapFirst, IncMapFails,
            DecMap, DecMapUnmap, Put, Last, FreeGuarded, FreeHelper, SetReleaseFrees,
            Find, Release, Register, AllocMapped, Alloc, AfterPut, Goto, Return, Start
<1>1. shm_release_waiters' = shm_release_waiters
  BY DEF Progress, Call
<1>2. /\ pc[t] \notin {"blocked", "woken", "broadcast"}
      /\ pc'[t] \notin {"blocked", "woken"}
      /\ \A u \in Threads : u # t => pc'[u] = pc[u] /\ obj'[u] = obj[u]
  <2>1. CASE Progress(t)
    BY <2>1 DEF Progress, TypeOK
  <2>2. CASE Call(t)
    BY <2>2 DEF Call, TypeOK
  <2> QED BY <2>1, <2>2
<1>3. Sleepers' = Sleepers
  BY <1>2 DEF Sleepers
<1>4. ASSUME NEW u \in Threads, pc'[u] = "blocked", release_frees'[obj'[u]]
      PROVE  \E v \in Threads : pc'[v] = "broadcast"
  <2>1. u # t /\ pc[u] = "blocked" /\ obj'[u] = obj[u] /\ obj[u] \in Cookies
    BY <1>2, <1>4 DEF RefInv, Shape
  <2>2. CASE SetReleaseFrees(t)
    <3>1. pc'[t] = "broadcast"
      BY <2>2 DEF TypeOK
    <3> QED BY <3>1
  <2>3. CASE ~SetReleaseFrees(t)
    <3>1. release_frees[obj[u]]
      BY <1>4, <2>1, <2>3 DEF Progress, Call, TypeOK, refVars
    <3>2. PICK v \in Threads : pc[v] = "broadcast"
      BY <2>1, <3>1 DEF WaitInv, NoLostRelease
    <3>3. pc'[v] = "broadcast"
      BY <1>2, <3>2
    <3> QED BY <3>3
  <2> QED BY <2>2, <2>3
<1>5. NoLostRelease'
  BY <1>4 DEF NoLostRelease
<1> QED BY <1>1, <1>3, <1>5 DEF WaitInv, TypeOK

LEMMA WaitBroadcast ==
  ASSUME TypeOK, WaitInv, NEW t \in Threads, Broadcast(t)
  PROVE  WaitInv' /\ shm_release_waiters' \in Nat
<1>1. PICK W \in SUBSET Blocked :
        /\ Wake(t, W)
        /\ W = IF shm_release_waiters > 0 THEN Blocked ELSE {}
  BY DEF Broadcast
<1>2. pc[t] = "broadcast" /\ shm_release_waiters' = shm_release_waiters
  BY DEF Broadcast
<1>3. /\ pc'[t] \in {"wait_lock", "idle"}
      /\ \A u \in Threads : u # t => pc'[u] = IF u \in W THEN "woken" ELSE pc[u]
  BY <1>1 DEF Wake
<1>4. Sleepers' = Sleepers
  BY <1>2, <1>3 DEF Sleepers, Blocked
<1>5. Blocked \subseteq W
  <2>1. Blocked \subseteq Sleepers
    BY DEF Blocked, Sleepers
  <2>2. CASE ~(shm_release_waiters > 0)
    <3>1. Cardinality(Sleepers) = 0
      BY <2>2 DEF WaitInv, TypeOK
    <3> QED BY <2>1, <3>1, SleepersFinite
  <2>3. CASE shm_release_waiters > 0
    BY <1>1, <2>3
  <2> QED BY <2>2, <2>3
<1>6. \A u \in Threads : pc'[u] # "blocked"
  BY <1>3, <1>5 DEF Blocked
<1> QED BY <1>2, <1>4, <1>6 DEF WaitInv, NoLostRelease, TypeOK

LEMMA WaitTurn ==
  ASSUME TypeOK, RefInv, WaitInv, NEW t \in Threads, ReleaseWait(t)
  PROVE  WaitInv' /\ shm_release_waiters' \in Nat
<1> USE RegShmAssumption
<1>1. PICK c \in Cookies : c = obj[t]
  BY DEF ReleaseWait, RefInv, Shape
<1>2. /\ pc[t] \in {"wait_lock", "woken"} /\ release_frees' = release_frees
      /\ \A u \in Threads : u # t => pc'[u] = pc[u] /\ obj'[u] = obj[u]
  BY DEF ReleaseWait, Return, Goto, TypeOK
<1>3. IsFiniteSet(Sleepers) /\ Cardinality(Sleepers) \in Nat
  BY SleepersFinite, FS_CardinalityType
<1>4. CASE release_frees[c]
  <2>1. pc'[t] = "idle"
    BY <1>1, <1>4 DEF ReleaseWait, Return, Goto, TypeOK
  <2>2. shm_release_waiters' = shm_release_waiters
                               + (IF pc[t] = "wait_lock" THEN 1 ELSE 0) - 1
    BY <1>1, <1>4 DEF ReleaseWait, TypeOK
  <2>3. Sleepers' = Sleepers \ {t}
    BY <1>2, <2>1 DEF Sleepers
  <2>4. t \in Sleepers <=> pc[t] = "woken"
    BY <1>2 DEF Sleepers
  <2>5. Cardinality(Sleepers') = IF pc[t] = "woken" THEN Cardinality(Sleepers) - 1
                                ELSE Cardinality(Sleepers)
    BY <1>3, <2>3, <2>4, FS_RemoveElement
  <2>6. shm_release_waiters' = Cardinality(Sleepers')
    BY <1>2, <1>3, <2>2, <2>5 DEF WaitInv
  <2>7. IsFiniteSet(Sleepers')
    BY <1>3, <2>3, FS_RemoveElement
  <2>8. NoLostRelease'
    BY <1>2, <2>1 DEF WaitInv, NoLostRelease
  <2> QED BY <2>6, <2>7, <2>8, FS_CardinalityType DEF WaitInv
<1>5. CASE ~release_frees[c]
  <2>1. pc'[t] = "blocked" /\ obj'[t] = c
    BY <1>1, <1>5 DEF ReleaseWait, Goto, TypeOK
  <2>2. shm_release_waiters' = shm_release_waiters + IF pc[t] = "wait_lock" THEN 1 ELSE 0
    BY <1>1, <1>5 DEF ReleaseWait
  <2>3. Sleepers' = Sleepers \cup {t}
    BY <1>2, <2>1 DEF Sleepers
  <2>4. t \in Sleepers <=> pc[t] = "woken"
    BY <1>2 DEF Sleepers
  <2>5. Cardinality(Sleepers') = IF pc[t] = "woken" THEN Cardinality(Sleepers)
                                ELSE Cardinality(Sleepers) + 1
    BY <1>3, <2>3, <2>4, FS_AddElement
  <2>6. shm_release_waiters' = Cardinality(Sleepers')
    BY <1>2, <1>3, <2>2, <2>5 DEF WaitInv
  <2>7. IsFiniteSet(Sleepers')
    BY <1>3, <2>3, FS_AddElement
  <2>8. NoLostRelease'
    BY <1>2, <1>5, <2>1 DEF WaitInv, NoLostRelease
  <2> QED BY <2>6, <2>7, <2>8, FS_CardinalityType DEF WaitInv
<1> QED BY <1>4, <1>5

LEMMA WaitNext ==
  ASSUME TypeOK, RefInv, WaitInv, Next
  PROVE  WaitInv' /\ shm_release_waiters' \in Nat
<1> SUFFICES ASSUME NEW t \in Threads, Progress(t) \/ Call(t)
             PROVE  WaitInv' /\ shm_release_waiters' \in Nat
  BY DEF Next
<1> QED BY WaitOther, WaitBroadcast, WaitTurn

-----------------------------------------------------------------------------
(* The types: no count goes below 0.                                       *)

LEMMA TypeNext ==
  ASSUME CarefulNW, TypeOK, RefInv, MapInv, WaitInv, Next
  PROVE  TypeOK'
<1> USE RegShmAssumption DEF TypeOK
<1> SUFFICES ASSUME NEW t \in Threads, ~Halted, Progress(t) \/ Call(t)
             PROVE  TypeOK'
  BY DEF Next
<1>1. shm_release_waiters' \in Nat
  BY WaitNext
<1>2. CASE \E c \in Cookies : Register(t, c) \/ AllocMapped(t, c)
  <2>1. PICK c \in Cookies : Register(t, c) \/ AllocMapped(t, c)
    BY <1>2
  <2>2. /\ pc' \in [Threads -> Locations] /\ call' \in [Threads -> Calls]
        /\ obj' \in [Threads -> Cookies \cup {NoCookie}]
    BY <2>1 DEF Register, AllocMapped, Start, Goto, Calls, Locations
  <2>3. Alloc(c)
    BY <2>1 DEF Register, AllocMapped
  <2>4. refc' \in [Cookies -> Nat] /\ mapcount' \in [Cookies -> Nat]
    BY <2>3 DEF Alloc
  <2>5. listed' \in [Cookies -> BOOLEAN] /\ guarded' \in [Cookies -> BOOLEAN]
    BY <2>3 DEF Alloc
  <2>6. releasing' \in [Cookies -> BOOLEAN] /\ release_frees' \in [Cookies -> BOOLEAN]
    BY <2>3 DEF Alloc
  <2>7. mm' \in [Cookies -> BOOLEAN]
    BY <2>3 DEF Alloc
  <2> QED BY <1>1, <2>2, <2>4, <2>5, <2>6, <2>7
<1>3. CASE \E c \in Cookies : Find(t, c) \/ Release(t, c)
  <2>1. PICK c \in Cookies : Find(t, c) \/ Release(t, c)
    BY <1>3
  <2>2. /\ pc' \in [Threads -> Locations] /\ call' \in [Threads -> Calls]
        /\ obj' \in [Threads -> Cookies \cup {NoCookie}]
    BY <2>1 DEF Find, Release, Start, Goto, Calls, Locations
  <2> QED BY <1>1, <2>1, <2>2 DEF Find, Release, refVars, mapVars
<1>4. CASE Map(t) \/ IncMapAgain(t) \/ IncMapFails(t)
  BY <1>1, <1>4 DEF Map, IncMapAgain, IncMapFails, Goto, refVars, mapVars, Locations
<1>5. CASE IncMap(t)
  <2>1. mapcount' \in [Cookies -> Nat]
    <3>1. PICK c \in Cookies : c = obj[t]
      BY <1>5 DEF IncMap, RefInv, Shape
    <3>2. \/ mapcount' = mapcount
          \/ mapcount' = [mapcount EXCEPT ![c] = mapcount[c] + 1]
      BY <1>5, <3>1 DEF IncMap
    <3>3. mapcount[c] + 1 \in Nat
      OBVIOUS
    <3> QED BY <3>2, <3>3
  <2>2. pc' \in [Threads -> Locations]
    BY <1>5 DEF IncMap, Goto, Locations
  <2> QED BY <1>1, <1>5, <2>1, <2>2 DEF IncMap, refVars
<1>6. CASE IncMapFirst(t)
  BY <1>1, <1>6 DEF IncMapFirst, Goto, refVars, Locations
<1>7. CASE DecMapUnmap(t)
  BY <1>1, <1>7 DEF DecMapUnmap, Goto, refVars, Locations
<1>8. CASE DecMap(t)
  <2>1. PICK c \in Cookies : c = obj[t] /\ mapcount[c] > 0
    BY <1>8, MapDec DEF DecMap, RefInv, Shape
  <2> QED BY <1>1, <1>8, <2>1 DEF DecMap, Goto, refVars, Locations
<1>9. CASE Put(t)
  <2>1. PICK c \in Cookies : c = obj[t]
    BY <1>9 DEF Put, RefInv, Shape
  <2>2. refc[c] > 0
    BY <1>9, <2>1, HolderCounted DEF Put, RefLocs
  <2> QED BY <1>1, <1>9, <2>1, <2>2 DEF Put, AfterPut, Return, Goto, mapVars, Locations, Calls
<1>10. CASE Unguard(t) \/ Last(t) \/ SetReleaseFrees(t)
  BY <1>1, <1>10 DEF Unguard, Last, SetReleaseFrees, Return, Goto, refVars, mapVars,
     Locations, Calls
<1>11. CASE Get(t)
  <2>1. refc' \in [Cookies -> Nat]
    <3>1. PICK c \in Cookies : c = obj[t]
      BY <1>11 DEF Get, RefInv, Shape
    <3>2. \/ refc' = refc
          \/ refc' = [refc EXCEPT ![c] = refc[c] + 1]
      BY <1>11, <3>1 DEF Get
    <3>3. refc[c] + 1 \in Nat
      OBVIOUS
    <3> QED BY <3>2, <3>3
  <2>2. pc' \in [Threads -> Locations]
    BY <1>11 DEF Get, Goto, Locations
  <2> QED BY <1>1, <1>11, <2>1, <2>2 DEF Get, mapVars
<1>12. CASE FreeGuarded(t)
  BY <1>1, <1>12 DEF FreeGuarded, FreeHelper, AfterPut, Return, Goto, Locations, Calls
<1>13. CASE Broadcast(t)
  BY <1>1, <1>13 DEF Broadcast, Wake, refVars, mapVars, Locations, Calls
<1>14. CASE ReleaseWait(t)
  <2>1. UNCHANGED << refc, guarded, releasing, release_frees, mapcount >>
    BY <1>14 DEF ReleaseWait
  <2>2. CASE release_frees[obj[t]]
    <3>1. FreeHelper(obj[t]) /\ Return(t)
      BY <1>14, <2>2 DEF ReleaseWait
    <3>2. listed' \in [Cookies -> BOOLEAN] /\ mm' \in [Cookies -> BOOLEAN]
      BY <3>1 DEF FreeHelper
    <3>3. /\ pc' \in [Threads -> Locations] /\ call' \in [Threads -> Calls]
          /\ obj' \in [Threads -> Cookies \cup {NoCookie}]
      BY <3>1 DEF Return, Goto, Locations, Calls
    <3> QED BY <1>1, <2>1, <3>2, <3>3
  <2>3. CASE ~release_frees[obj[t]]
    BY <1>1, <1>14, <2>1, <2>3 DEF ReleaseWait, Goto, Locations
  <2> QED BY <2>2, <2>3
<1> HIDE DEF TypeOK
<1> QED BY <1>2, <1>3, <1>4, <1>5, <1>6, <1>7, <1>8, <1>9, <1>10, <1>11, <1>12,
           <1>13, <1>14 DEF Progress, Call

-----------------------------------------------------------------------------
(* The invariant, and what follows from it.                                *)

IInv == TypeOK /\ RefInv /\ MapInv /\ WaitInv

LEMMA InvInit == Init => IInv
<1> USE RegShmAssumption DEF Init
<1> SUFFICES ASSUME Init
             PROVE  IInv
  OBVIOUS
<1>1. TypeOK
  BY DEF TypeOK, Locations, Calls
<1>2. RefInv
  BY DEF RefInv, Shape, NoUseAfterFree, Kinds, FoundOpen, Counted, Finishing,
         FreesLast, LastLocs
<1>3. MapInv
  BY DEF MapInv
<1>4. WaitInv
  <2>1. Sleepers = {} /\ Cardinality({}) = 0
    BY FS_EmptySet DEF Sleepers
  <2> QED BY <2>1 DEF WaitInv, NoLostRelease
<1> QED BY <1>1, <1>2, <1>3, <1>4 DEF IInv

LEMMA InvNext ==
  ASSUME CarefulNW, IInv, [Next]_vars
  PROVE  IInv'
<1>1. CASE Next
  BY <1>1, TypeNext, RefNext, MapNext, WaitNext DEF IInv
<1>2. CASE UNCHANGED vars
  <2> USE <1>2 DEF vars
  <2>1. TypeOK'
    BY DEF IInv, TypeOK
  <2>2. RefInv'
    BY DEF IInv, RefInv, Shape, NoUseAfterFree, Kinds, FoundOpen, Counted, Holders,
           OwnRef, Finishing, FreesLast
  <2>3. MapInv'
    BY DEF IInv, MapInv, HasTemp, Mappers, Unmapping, Halted
  <2>4. WaitInv'
    BY DEF IInv, WaitInv, NoLostRelease, Sleepers
  <2> QED BY <2>1, <2>2, <2>3, <2>4 DEF IInv
<1> QED BY <1>1, <1>2

LEMMA Invariant ==
  ASSUME CarefulNW
  PROVE  Spec => []IInv
<1>1. Init => IInv
  BY InvInit
<1>2. IInv /\ [Next]_vars => IInv'
  BY InvNext
<1> QED BY <1>1, <1>2, PTL DEF Spec

\* Every count stays a natural number, and every variable keeps its type, for
\* any number of threads and buffers.
THEOREM TypeCorrect ==
  ASSUME CarefulNW
  PROVE  Spec => []TypeOK
<1>1. IInv => TypeOK
  BY DEF IInv
<1> QED BY <1>1, Invariant, PTL

\* The reference count of a mobj in the list is the number of its references.
THEOREM CountsRight ==
  ASSUME CarefulNW
  PROVE  Spec => []RefsCounted
<1>1. IInv => RefsCounted
  <2> SUFFICES ASSUME IInv, NEW c \in Cookies, listed[c]
               PROVE  refc[c] = Cardinality(Refs(c))
    BY DEF RefsCounted
  <2> USE RegShmAssumption
  <2>1. refc[c] = Cardinality(Holders(c)) + OwnRef(c)
    BY DEF IInv, RefInv, Counted
  <2>2. NoCookie \notin Holders(c)
    BY DEF Holders
  <2>3. CASE OwnRef(c) = 1
    <3>1. ~guarded[c] /\ ~releasing[c]
      BY <2>3 DEF OwnRef
    <3>2. \A t \in Users(c) : call[t] \notin {"register", "release"}
      BY <3>1 DEF Users, IInv, RefInv, Kinds
    <3>3. Refs(c) = Holders(c) \cup {NoCookie}
      BY <3>1, <3>2 DEF Refs, Users, Holders, RefLocs
    <3>4. Cardinality(Holders(c) \cup {NoCookie}) = Cardinality(Holders(c)) + 1
      BY <2>2, HoldersFinite, FS_AddElement
    <3> QED BY <2>1, <2>3, <3>3, <3>4
  <2>4. CASE OwnRef(c) = 0
    <3>1. guarded[c] \/ releasing[c]
      BY <2>4 DEF OwnRef
    <3>2. Refs(c) = Holders(c)
      BY <3>1 DEF Refs, Users, Holders, RefLocs
    <3> QED BY <2>1, <2>4, <3>2, HoldersFinite
  <2> QED BY <2>3, <2>4 DEF OwnRef
<1> QED BY <1>1, Invariant, PTL

\* Nothing is freed under a thread that uses it, releases it, or is about to
\* tell the one that does.
THEOREM FreedAlone ==
  ASSUME CarefulNW
  PROVE  Spec => []NoUseAfterFree
<1>1. IInv => NoUseAfterFree
  BY DEF IInv, RefInv
<1> QED BY <1>1, Invariant, PTL

\* What get_by_cookie() found still has a reference when it takes its own.
THEOREM FoundInTime ==
  ASSUME CarefulNW
  PROVE  Spec => []FoundIsReferenced
<1>1. IInv => FoundIsReferenced
  BY FoundCounted DEF IInv, FoundIsReferenced
<1> QED BY <1>1, Invariant, PTL

\* A mobj is mapped as long as a mapping of it is counted on, and not for ever.
THEOREM MappedInTime ==
  ASSUME CarefulNW
  PROVE  Spec => []MappedWhileCounted
<1>1. IInv => MappedWhileCounted
  <2> SUFFICES ASSUME IInv, NEW c \in Cookies, listed[c]
               PROVE  /\ \A t \in Threads : obj[t] = c /\ pc[t] = "mapped" =>
                           mm[c] /\ mapcount[c] > 0
                      /\ mm[c] /\ mapcount[c] = 0 => Halted \/ Unmapping(c)
                      /\ mapcount[c] = Cardinality(Mappers(c)) \/ HasTemp(c)
    <3>1. \A c \in Cookies : {t \in Users(c) : pc[t] = "mapped"} = Mappers(c)
      BY DEF Users, Mappers
    <3> QED BY <3>1 DEF MappedWhileCounted, Users, HasTemp, Unmapping, Mappers
  <2> QED BY DEF IInv, MapInv
<1> QED BY <1>1, Invariant, PTL

\* No release sleeps through the last put of its mobj.
THEOREM ReleaseIsTold ==
  ASSUME CarefulNW
  PROVE  Spec => []NoLostRelease
<1>1. IInv => NoLostRelease
  BY DEF IInv, WaitInv
<1> QED BY <1>1, Invariant, PTL

=============================================================================
