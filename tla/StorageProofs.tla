--------------------------- MODULE StorageProofs ---------------------------
(***************************************************************************)
(* Theorems about Storage for any clients, names and modes, however the    *)
(* TAs behave: the values of the variables and the two reference counts,   *)
(* through errors and resets.                                              *)
(*                                                                         *)
(* RefsCounted is not inductive: a release must know which object a call   *)
(* works on (Shape), a commit that the directory is still open and that    *)
(* nobody else changes it (Mutex), and a create that a hash, an index and  *)
(* an object are left to take (Unique, Coherent and the counts).  Each     *)
(* action has a lemma ...Step, which shows that the counts move as the     *)
(* references of the one client that acts; PobjStep and DirStep sum up.    *)
(***************************************************************************)
EXTENDS Storage, FiniteSetTheorems, TLAPS

\* The flags of tee_storage_api.h that the model tells apart.
Flags == {"R", "W", "META", "SHARE_R", "SHARE_W"}

\* The values of an entry of dirf.db, of ree_fs_dirh, of a file handle, of a
\* tee_obj, of a tee_pobj and of what a call works on.
Entry  == [name : Names, fn : FileNos, hash : Hashes]
DirRec == [ents : [Idxs -> Entry \cup {None}], bits : SUBSET FileNos]
Handle == [idx : Idxs \cup {-1}, fn : FileNos, hash : Hashes, live : BOOLEAN]
Object == [po : Pobjs, flags : SUBSET Flags, failed : BOOLEAN, fh : Handle]
Pobj   == [name : Names, refcnt : Nat \ {0}, flags : SUBSET Flags, creating : BOOLEAN]
Work   == [po : Pobjs, flags : SUBSET Flags, overwrite : BOOLEAN, old : FileNos]

\* Where a call has ree_fs_mutex, and where it works on an object.
LockPcs == {"set_name", "remove_old", "commit", "remove_file"}
WorkPcs == {"open", "create", "release", "set_name", "remove_old", "created",
            "remove", "remove_file", "rename", "prename", "enum_open", "close"}

\* The values of the variables.
Types ==
  /\ file \in [FileNos -> SUBSET Hashes]
  /\ \A n \in FileNos : Cardinality(file[n]) <= 2
  /\ dirf \in [Idxs -> Entry \cup {None}]
  /\ dirh \in DirRec \cup {None}
  /\ refs \in Nat
  /\ pobj \in [Pobjs -> Pobj \cup {None}]
  /\ obj \in [Clients -> Object \cup {None}]
  /\ dir \in [Clients -> [idx : Idxs \cup {-1}, live : BOOLEAN] \cup {None}]
  /\ pc \in [Clients -> WorkPcs \cup {"idle", "enum", "commit"}]
  /\ arg \in [Clients -> Work \cup Names \cup {None}]

\* What a call has at each of its places.
ShapeOf(c) ==
  /\ pc[c] \in WorkPcs => arg[c] \in Work
  /\ pc[c] = "enum" => arg[c] \in Names
  /\ pc[c] \in {"open", "create"} => obj[c] = None
  /\ pc[c] \in {"set_name", "remove_old", "created", "commit", "rename", "prename",
                "close"} => obj[c] # None
  /\ pc[c] \in {"set_name", "remove_old", "created", "remove", "remove_file"}
       /\ obj[c] # None => arg[c].po = obj[c].po
  /\ obj[c] # None => (obj[c].fh.idx = -1 <=> pc[c] = "set_name")
\* Each client is somewhere in a call with what that place needs.
Shape == \A c \in Clients : ShapeOf(c)

\* The files that entries name.
Numbers(ents) == {ents[i].fn : i \in Entries(ents)}

\* No two entries of the directory share a name or a file.
Unique ==
  \A i, j \in Entries(dirf) :
    i # j => dirf[i].name # dirf[j].name /\ dirf[i].fn # dirf[j].fn

\* The handle of the directory has its entries, and a bit for each file.
Coherent ==
  /\ dirh # None => dirh.ents = dirf /\ Numbers(dirf) \subseteq dirh.bits
  /\ \A c \in Clients : dir[c] # None /\ dir[c].live => dirh # None

\* What the owner of ree_fs_mutex relies on.
OwnerOf(c) ==
  /\ pc[c] \in LockPcs => dirh # None
  /\ pc[c] = "set_name" => obj[c].fh.fn \in dirh.bits \ Numbers(dirf)
  /\ pc[c] \in {"remove_old", "remove_file"} => arg[c].old \notin Numbers(dirf)
\* ree_fs_mutex has one owner at most, and each owner what it relies on.
Mutex ==
  /\ \A c \in Clients : OwnerOf(c)
  /\ \A c, d \in Clients : pc[c] \in LockPcs /\ pc[d] \in LockPcs => c = d

\* The two counts.
PobjCounted ==
  \A p \in Pobjs :
    Cardinality({c \in Clients : obj[c] # None /\ obj[c].po = p})
      + Cardinality({c \in Clients : CallHolds(c, p)})
    = IF pobj[p] = None THEN 0 ELSE pobj[p].refcnt
\* ree_fs_dirh_refcount counts what needs the directory open.
DirCounted ==
  refs = Cardinality({c \in Clients : obj[c] # None})
       + Cardinality({c \in Clients : dir[c] # None})
       + Cardinality({c \in Clients : pc[c] \in {"commit", "remove_file"}})

\* The inductive invariant of this module.
SInv == Types /\ Shape /\ Unique /\ Coherent /\ Mutex /\ PobjCounted /\ DirCounted

-----------------------------------------------------------------------------
(* Least elements, and counting.                                           *)

\* A set of numbers has a least one, so that Min() is one of them.
LEMMA MinIn ==
  ASSUME NEW W, W \subseteq Nat, W # {}
  PROVE  Min(W) \in W
<1> DEFINE upto(i) == W \cap (0..i)
           segments == {upto(i) : i \in W}
<1>1. segments \subseteq FiniteSubsetsOf(Nat)
  <2>1. ASSUME NEW i \in W PROVE IsFiniteSet(upto(i)) /\ upto(i) \subseteq Nat
    <3>1. IsFiniteSet(0..i)
      BY FS_Interval
    <3>2. upto(i) \subseteq 0..i
      OBVIOUS
    <3> QED BY <3>1, <3>2, FS_Subset
  <2> QED BY <2>1 DEF FiniteSubsetsOf
<1>2. segments # {}
  OBVIOUS
<1>3. PICK s \in segments :
        \A r \in segments : << r, s >> \notin StrictSubsetOrdering(Nat)
  <2> HIDE DEF segments
  <2> QED BY <1>1, <1>2, FS_StrictSubsetOrderingWellFounded, WFMin
<1>4. PICK i \in W : s = upto(i)
  OBVIOUS
<1>5. ASSUME NEW j \in W, j < i PROVE FALSE
  <2>1. upto(j) \in segments /\ upto(j) \subseteq upto(i) /\ upto(j) # upto(i)
    BY <1>5
  <2>2. << upto(j), s >> \in StrictSubsetOrdering(Nat)
    BY <1>4, <2>1 DEF StrictSubsetOrdering
  <2> QED BY <1>3, <2>1, <2>2
<1>6. \E k \in W : \A j \in W : k =< j
  BY <1>4, <1>5
<1> QED BY <1>6 DEF Min

\* A set of clients that changes in one place.
LEMMA CountOne ==
  ASSUME NEW c \in Clients, NEW S \in SUBSET Clients, NEW T \in SUBSET Clients,
         \A k \in Clients : k # c => (k \in S <=> k \in T)
  PROVE  /\ Cardinality(S) \in Nat /\ Cardinality(T) \in Nat
         /\ Cardinality(T) + (IF c \in S THEN 1 ELSE 0)
              = Cardinality(S) + (IF c \in T THEN 1 ELSE 0)
<1>1. IsFiniteSet(S) /\ IsFiniteSet(T)
  BY StorageAssumption, FS_Subset
<1>2. Cardinality(S) \in Nat /\ Cardinality(T) \in Nat
  BY <1>1, FS_CardinalityType
<1>3. CASE c \in S <=> c \in T
  <2>1. S = T
    BY <1>3
  <2> QED BY <1>2, <2>1
<1>4. CASE c \in S /\ c \notin T
  <2>1. S = T \cup {c}
    BY <1>4
  <2> QED BY <1>1, <1>2, <1>4, <2>1, FS_AddElement
<1>5. CASE c \notin S /\ c \in T
  <2>1. T = S \cup {c}
    BY <1>5
  <2> QED BY <1>1, <1>2, <1>5, <2>1, FS_AddElement
<1> QED BY <1>3, <1>4, <1>5

\* A set of clients with a member counts.
LEMMA CountAny ==
  ASSUME NEW S \in SUBSET Clients
  PROVE  /\ IsFiniteSet(S) /\ Cardinality(S) \in Nat
         /\ (Cardinality(S) = 0 <=> S = {})
<1>1. IsFiniteSet(S)
  BY StorageAssumption, FS_Subset
<1> QED BY <1>1, FS_CardinalityType, FS_EmptySet

-----------------------------------------------------------------------------
(* What the operators of the model choose from.                            *)

\* None is no value of the sorts that a variable may have instead.
LEMMA NoneApart ==
  /\ None \notin Entry /\ None \notin DirRec /\ None \notin Object /\ None \notin Pobj
  /\ None \notin [idx : Idxs \cup {-1}, live : BOOLEAN]
BY DEF None, Entry, DirRec, Object, Pobj

\* The numbers that the model takes for places are natural numbers.
LEMMA Numerals ==
  /\ FileNos \subseteq Nat /\ Idxs \subseteq Nat /\ Pobjs \subseteq Nat
  /\ Hashes \subseteq Nat /\ 0 \in FileNos
<1>1. Cardinality(Names) \in Nat /\ Cardinality(Clients) \in Nat
  BY StorageAssumption, FS_CardinalityType
<1> QED BY <1>1, StorageAssumption DEF FileNos, Idxs, Pobjs, Hashes

\* The directory that an operation works on is the one that is committed.
LEMMA DirhIs ==
  ASSUME Types, Unique, Coherent
  PROVE  /\ Dirh \in DirRec /\ Dirh # None /\ Dirh.ents = dirf
         /\ Numbers(dirf) \subseteq Dirh.bits /\ Dirh.bits \subseteq FileNos
         /\ dirh # None => Dirh = dirh
<1>1. CASE dirh = None
  <2>1. \A i, j \in Entries(dirf) : i # j => dirf[j].fn # dirf[i].fn
    BY DEF Unique
  <2>2. \A i \in Idxs : ~(dirf[i] # None /\ \E j \in Entries(dirf) :
                                              j < i /\ dirf[j].fn = dirf[i].fn)
    BY <2>1, Numerals DEF Entries
  <2>3. [i \in Idxs |->
           IF dirf[i] # None /\ (\E j \in Entries(dirf) : j < i /\ dirf[j].fn = dirf[i].fn)
           THEN None ELSE dirf[i]] = dirf
    BY <2>2 DEF Types
  <2>4. OpenedDir = [ents |-> dirf, bits |-> {dirf[i].fn : i \in Entries(dirf)}]
    BY <2>3 DEF OpenedDir
  <2>5. {dirf[i].fn : i \in Entries(dirf)} \subseteq FileNos
    BY NoneApart DEF Types, Entries, Entry
  <2>6. Dirh = [ents |-> dirf, bits |-> {dirf[i].fn : i \in Entries(dirf)}]
    BY <1>1, <2>4 DEF Dirh
  <2>7. dirf \in [Idxs -> Entry \cup {None}]
    BY DEF Types
  <2> QED BY <1>1, <2>5, <2>6, <2>7, NoneApart DEF DirRec, Numbers
<1>2. CASE dirh # None
  <2>1. dirh \in DirRec
    BY <1>2 DEF Types
  <2> QED BY <1>2, <2>1 DEF Dirh, Coherent, DirRec
<1> QED BY <1>1, <1>2

\* What a client refers to is in the list of objects, with its count.
LEMMA Referenced ==
  ASSUME Types, PobjCounted, NEW c \in Clients, NEW p \in Pobjs,
         (obj[c] # None /\ obj[c].po = p) \/ CallHolds(c, p)
  PROVE  pobj[p] \in Pobj /\ pobj[p] # None
<1> DEFINE O == {d \in Clients : obj[d] # None /\ obj[d].po = p}
           C == {d \in Clients : CallHolds(d, p)}
<1>1. /\ Cardinality(O) \in Nat /\ Cardinality(C) \in Nat
      /\ (Cardinality(O) = 0 <=> O = {}) /\ (Cardinality(C) = 0 <=> C = {})
  BY CountAny
<1>2. c \in O \cup C
  OBVIOUS
<1>3. Cardinality(O) + Cardinality(C) # 0
  BY <1>1, <1>2
<1>4. Cardinality(O) + Cardinality(C) = IF pobj[p] = None THEN 0 ELSE pobj[p].refcnt
  BY DEF PobjCounted
<1>5. pobj[p] # None
  BY <1>3, <1>4
<1> QED BY <1>5 DEF Types

\* While c has no call that holds an object, one in the list is free: each
\* client refers to one at most with its handle, and with its call.
LEMMA FreePobj ==
  ASSUME Types, PobjCounted, NEW c \in Clients, \A p \in Pobjs : ~CallHolds(c, p)
  PROVE  NewPobj \in Pobjs /\ pobj[NewPobj] = None
<1> DEFINE holds(p, h) ==
             \/ h[2] = 1 /\ obj[h[1]] # None /\ obj[h[1]].po = p
             \/ h[2] = 2 /\ CallHolds(h[1], p)
           places == Clients \X {1, 2}
           left == places \ {<< c, 2 >>}
<1>1. Cardinality(Clients) \in Nat
  BY StorageAssumption, FS_CardinalityType
<1>2. /\ IsFiniteSet(places) /\ Cardinality(places) = Cardinality(Clients) * 2
  <2>1. IsFiniteSet({1, 2}) /\ Cardinality({1, 2}) = 2
    <3>1. IsFiniteSet({1}) /\ Cardinality({1}) = 1
      BY FS_Singleton
    <3>2. {1, 2} = {1} \cup {2} /\ 2 \notin {1}
      OBVIOUS
    <3> QED BY <3>1, <3>2, FS_AddElement
  <2> QED BY <2>1, StorageAssumption, FS_Product
<1>3. IsFiniteSet(left) /\ Cardinality(left) = Cardinality(Clients) * 2 - 1
  <2>1. << c, 2 >> \in places
    OBVIOUS
  <2> HIDE DEF places
  <2>2. IsFiniteSet(left) /\ Cardinality(left) = Cardinality(places) - 1
    BY <1>2, <2>1, FS_RemoveElement
  <2> QED BY <1>2, <2>2
<1>4. IsFiniteSet(Pobjs) /\ Cardinality(Pobjs) = 2 * Cardinality(Clients)
  <2>1. 2 * Cardinality(Clients) \in Nat /\ 1 \in Int
    BY <1>1
  <2> QED BY <1>1, <2>1, FS_Interval DEF Pobjs
<1>5. ASSUME \A p \in Pobjs : pobj[p] # None PROVE FALSE
  <2>1. \A p \in Pobjs : \E h \in left : holds(p, h)
    <3> SUFFICES ASSUME NEW p \in Pobjs PROVE \E h \in left : holds(p, h)
      OBVIOUS
    <3> DEFINE O == {d \in Clients : obj[d] # None /\ obj[d].po = p}
               C == {d \in Clients : CallHolds(d, p)}
    <3>1. Cardinality(O) + Cardinality(C) = pobj[p].refcnt
      BY <1>5 DEF PobjCounted
    <3>2. pobj[p].refcnt \in Nat /\ pobj[p].refcnt # 0
      BY <1>5 DEF Types, Pobj
    <3>3. O # {} \/ C # {}
      BY <3>1, <3>2, CountAny
    <3>4. CASE O # {}
      <4>1. PICK d \in Clients : obj[d] # None /\ obj[d].po = p
        BY <3>4
      <4>2. << d, 1 >> \in left /\ holds(p, << d, 1 >>)
        BY <4>1
      <4> QED BY <4>2
    <3>5. CASE C # {}
      <4>1. PICK d \in Clients : CallHolds(d, p)
        BY <3>5
      <4>2. << d, 2 >> \in left /\ holds(p, << d, 2 >>)
        BY <4>1
      <4> QED BY <4>2
    <3> QED BY <3>3, <3>4, <3>5
  <2> DEFINE f == [p \in Pobjs |-> CHOOSE h \in left : holds(p, h)]
  <2>2. f \in [Pobjs -> left] /\ \A p \in Pobjs : holds(p, f[p])
    BY <2>1
  <2>3. PICK p \in Pobjs, q \in Pobjs : p # q /\ f[p] = f[q]
    <3> HIDE DEF f, left, holds
    <3> QED BY <1>1, <1>3, <1>4, <2>2, FS_PigeonHole
  <2>4. holds(p, f[p]) /\ holds(q, f[p])
    BY <2>2, <2>3
  <2> HIDE DEF f
  <2> QED BY <2>3, <2>4 DEF CallHolds
<1>6. {p \in Pobjs : pobj[p] = None} # {}
  BY <1>5
<1> HIDE DEF places, left
<1>7. NewPobj \in {p \in Pobjs : pobj[p] = None}
  BY <1>6, MinIn, Numerals DEF NewPobj
<1> QED BY <1>7

\* A name that the directory does not have finds a place in it.
LEMMA FreeIdx ==
  ASSUME Types, Unique, NEW name \in Names, Find(dirf, name) = {}
  PROVE  EmptyIdx(dirf) \in Idxs /\ dirf[EmptyIdx(dirf)] = None
<1> DEFINE others == Names \ {name}
<1>1. Cardinality(Names) \in Nat /\ IsFiniteSet(Names)
  BY StorageAssumption, FS_CardinalityType
<1>2. IsFiniteSet(others) /\ Cardinality(others) = Cardinality(Names) - 1
  BY <1>1, FS_RemoveElement
<1>3. IsFiniteSet(Idxs) /\ Cardinality(Idxs) = Cardinality(Names)
  BY <1>1, FS_Interval DEF Idxs
<1>4. ASSUME Idxs \subseteq Entries(dirf) PROVE FALSE
  <2> DEFINE f == [i \in Idxs |-> dirf[i].name]
  <2>1. f \in [Idxs -> others]
    BY <1>4, NoneApart DEF Types, Entries, Find, Entry
  <2>2. PICK i \in Idxs, j \in Idxs : i # j /\ f[i] = f[j]
    <3> HIDE DEF f, others
    <3> QED BY <1>1, <1>2, <1>3, <2>1, FS_PigeonHole
  <2> QED BY <1>4, <2>2 DEF Unique
<1>5. EmptyIdx(dirf) \in Idxs \ Entries(dirf)
  BY <1>4, MinIn, Numerals DEF EmptyIdx
<1> QED BY <1>5 DEF Entries

\* The versions that the handles of file n are based on.
HandleHashes(n) ==
  {obj[c].fh.hash : c \in {k \in Clients : obj[k] # None /\ obj[k].fh.fn = n}}

\* There is a hash for a new version of a file: besides that of the entry, the
\* handles have at most one each.
LEMMA HashLeft ==
  ASSUME Types, Unique, NEW n \in FileNos, NEW kept \in SUBSET HandleHashes(n)
  PROVE  /\ NewHash(n, kept) \in Hashes /\ NewHash(n, kept) \notin kept
         /\ \A i \in Entries(dirf) : dirf[i].fn = n => dirf[i].hash # NewHash(n, kept)
<1> DEFINE S == {k \in Clients : obj[k] # None /\ obj[k].fh.fn = n}
           H == HandleHashes(n)
           E == {dirf[i].hash : i \in {k \in Entries(dirf) : dirf[k].fn = n}}
           used == kept \cup E \cup H
<1>1. Cardinality(Clients) \in Nat
  BY StorageAssumption, FS_CardinalityType
<1>2. IsFiniteSet(H) /\ Cardinality(H) \in Nat /\ Cardinality(H) <= Cardinality(Clients)
  <2> DEFINE f == [k \in S |-> obj[k].fh.hash]
  <2>1. IsFiniteSet(S) /\ Cardinality(S) <= Cardinality(Clients) /\ Cardinality(S) \in Nat
    <3>1. S \in SUBSET Clients
      OBVIOUS
    <3> QED BY <3>1, StorageAssumption, FS_Subset, FS_CardinalityType
  <2>2. f \in Surjection(S, H)
    BY DEF Surjection, HandleHashes
  <2>3. IsFiniteSet(H) /\ Cardinality(H) <= Cardinality(S)
    <3> HIDE DEF f, S, H
    <3> QED BY <2>1, <2>2, FS_Surjection
  <2> QED BY <1>1, <2>1, <2>3, FS_CardinalityType
<1>3. IsFiniteSet(E) /\ Cardinality(E) \in Nat /\ Cardinality(E) <= 1
  <2>1. CASE E = {}
    BY <2>1, FS_EmptySet
  <2>2. CASE E # {}
    <3>1. PICK e : e \in E
      BY <2>2
    <3>2. PICK i \in Entries(dirf) : dirf[i].fn = n /\ e = dirf[i].hash
      BY <3>1
    <3>3. \A j \in Entries(dirf) : dirf[j].fn = n => j = i
      BY <3>2 DEF Unique
    <3>4. E = {e}
      BY <3>1, <3>2, <3>3
    <3>5. IsFiniteSet({e}) /\ Cardinality({e}) = 1
      BY FS_Singleton
    <3> HIDE DEF E
    <3> QED BY <3>4, <3>5
  <2> QED BY <2>1, <2>2
<1>4. used = E \cup H
  OBVIOUS
<1>5. IsFiniteSet(used) /\ Cardinality(used) \in Nat /\ Cardinality(used) < MaxHash
  <2> HIDE DEF E, H, used
  <2>1. /\ IsFiniteSet(E \cup H)
        /\ Cardinality(E \cup H) = Cardinality(E) + Cardinality(H) - Cardinality(E \cap H)
    BY <1>2, <1>3, FS_Union
  <2>2. IsFiniteSet(E \cap H)
    BY <1>3, FS_Intersection
  <2>3. Cardinality(E \cap H) \in Nat /\ Cardinality(E \cup H) \in Nat
    BY <2>1, <2>2, FS_CardinalityType
  <2> QED BY <1>1, <1>2, <1>3, <1>4, <2>1, <2>3, StorageAssumption
<1>6. Hashes \ used # {}
  <2> HIDE DEF used
  <2>1. Cardinality(Hashes) = MaxHash
    BY StorageAssumption, FS_Interval DEF Hashes
  <2>2. ASSUME Hashes \subseteq used PROVE FALSE
    <3>1. Cardinality(Hashes) <= Cardinality(used)
      BY <1>5, <2>2, FS_Subset
    <3> QED BY <1>5, <2>1, <3>1, StorageAssumption
  <2> QED BY <2>2
<1>7. NewHash(n, kept) \in Hashes \ used
  <2>1. Min(Hashes \ used) \in Hashes \ used
    <3> HIDE DEF used
    <3> QED BY <1>6, MinIn, Numerals
  <2> QED BY <2>1 DEF NewHash, HandleHashes
<1> QED BY <1>7

-----------------------------------------------------------------------------
(* A step of one client.                                                   *)

\* The other clients are where they were, with what they had.
OneStep(c) ==
  \A k \in Clients : k # c =>
    obj'[k] = obj[k] /\ pc'[k] = pc[k] /\ arg'[k] = arg[k]

\* What c has of the two counts.
ObjRef(c, p)  == IF obj[c] # None /\ obj[c].po = p THEN 1 ELSE 0
CallRef(c, p) == IF CallHolds(c, p) THEN 1 ELSE 0
Count(p)      == IF pobj[p] = None THEN 0 ELSE pobj[p].refcnt
ObjDir(c)     == IF obj[c] # None THEN 1 ELSE 0
EnumDir(c)    == IF dir[c] # None THEN 1 ELSE 0
CallDir(c)    == IF pc[c] \in {"commit", "remove_file"} THEN 1 ELSE 0

\* The count of each object, and that of the directory, moves as the references
\* of c do.
PobjMoves(c) ==
  \A p \in Pobjs : Count(p)' + ObjRef(c, p) + CallRef(c, p)
                   = Count(p) + ObjRef(c, p)' + CallRef(c, p)'
DirMoves(c) ==
  /\ \A k \in Clients : k # c => (dir'[k] = None <=> dir[k] = None)
  /\ refs' + ObjDir(c) + EnumDir(c) + CallDir(c)
     = refs + ObjDir(c)' + EnumDir(c)' + CallDir(c)'

\* Three counts that move as x, y and z do, and their sum.
LEMMA Moved ==
  ASSUME NEW a \in Nat, NEW b \in Nat, NEW d \in Nat,
         NEW a1 \in Nat, NEW b1 \in Nat, NEW d1 \in Nat,
         NEW x \in Nat, NEW y \in Nat, NEW z \in Nat,
         NEW x1 \in Nat, NEW y1 \in Nat, NEW z1 \in Nat, NEW sum, NEW sum1 \in Nat,
         a1 + x = a + x1, b1 + y = b + y1, d1 + z = d + z1, sum = a + b + d,
         sum1 + x + y + z = sum + x1 + y1 + z1
  PROVE  sum1 = a1 + b1 + d1
OBVIOUS

\* The counts stay right if they move as the references of c do.
LEMMA PobjStep ==
  ASSUME Types, Types', PobjCounted, NEW c \in Clients, OneStep(c), PobjMoves(c)
  PROVE  PobjCounted'
<1> SUFFICES ASSUME NEW p \in Pobjs
             PROVE  Cardinality({d \in Clients : obj[d] # None /\ obj[d].po = p})'
                      + Cardinality({d \in Clients : CallHolds(d, p)})'
                    = Count(p)'
  BY DEF PobjCounted, Count
<1> DEFINE O == {d \in Clients : obj[d] # None /\ obj[d].po = p}
           C == {d \in Clients : CallHolds(d, p)}
<1>1. /\ Cardinality(O) \in Nat /\ Cardinality(O') \in Nat
      /\ Cardinality(O') + ObjRef(c, p) = Cardinality(O) + ObjRef(c, p)'
  <2>1. \A k \in Clients : k # c => (k \in O <=> k \in O')
    BY DEF OneStep
  <2>2. (c \in O <=> obj[c] # None /\ obj[c].po = p)
        /\ (c \in O' <=> obj'[c] # None /\ obj'[c].po = p)
    OBVIOUS
  <2>3. O \in SUBSET Clients /\ O' \in SUBSET Clients
    OBVIOUS
  <2> HIDE DEF O
  <2> QED BY <2>1, <2>2, <2>3, CountOne DEF ObjRef
<1>2. /\ Cardinality(C) \in Nat /\ Cardinality(C') \in Nat
      /\ Cardinality(C') + CallRef(c, p) = Cardinality(C) + CallRef(c, p)'
  <2>1. \A k \in Clients : k # c => (k \in C <=> k \in C')
    BY DEF OneStep, CallHolds
  <2>2. (c \in C <=> CallHolds(c, p)) /\ (c \in C' <=> CallHolds(c, p)')
    OBVIOUS
  <2>3. C \in SUBSET Clients /\ C' \in SUBSET Clients
    OBVIOUS
  <2> HIDE DEF C
  <2> QED BY <2>1, <2>2, <2>3, CountOne DEF CallRef
<1>3. Cardinality(O) + Cardinality(C) = Count(p)
  BY DEF PobjCounted, Count
<1>4. /\ Count(p)' \in Nat
      /\ Count(p)' + ObjRef(c, p) + CallRef(c, p) = Count(p) + ObjRef(c, p)' + CallRef(c, p)'
  BY DEF PobjMoves, Types, Pobj, Count
<1>5. /\ ObjRef(c, p) \in Nat /\ CallRef(c, p) \in Nat
      /\ ObjRef(c, p)' \in Nat /\ CallRef(c, p)' \in Nat
  BY DEF ObjRef, CallRef
<1>6. Cardinality(O') + Cardinality(C') = Count(p)'
  <2> HIDE DEF O, C
  <2>1. Count(p)' = Cardinality(O') + Cardinality(C') + 0
    BY <1>1, <1>2, <1>3, <1>4, <1>5, Moved
  <2> QED BY <1>1, <1>2, <2>1
<1> QED BY <1>6

\* The count of the directory stays right if it moves as what c needs does.
LEMMA DirStep ==
  ASSUME Types, Types', DirCounted, NEW c \in Clients, OneStep(c), DirMoves(c)
  PROVE  DirCounted'
<1> DEFINE O == {d \in Clients : obj[d] # None}
           D == {d \in Clients : dir[d] # None}
           C == {d \in Clients : pc[d] \in {"commit", "remove_file"}}
<1>1. /\ Cardinality(O) \in Nat /\ Cardinality(O') \in Nat
      /\ Cardinality(O') + ObjDir(c) = Cardinality(O) + ObjDir(c)'
  <2>1. \A k \in Clients : k # c => (k \in O <=> k \in O')
    BY DEF OneStep
  <2>2. (c \in O <=> obj[c] # None) /\ (c \in O' <=> obj'[c] # None)
        /\ O \in SUBSET Clients /\ O' \in SUBSET Clients
    OBVIOUS
  <2> HIDE DEF O
  <2> QED BY <2>1, <2>2, CountOne DEF ObjDir
<1>2. /\ Cardinality(D) \in Nat /\ Cardinality(D') \in Nat
      /\ Cardinality(D') + EnumDir(c) = Cardinality(D) + EnumDir(c)'
  <2>1. \A k \in Clients : k # c => (k \in D <=> k \in D')
    BY DEF DirMoves
  <2>2. (c \in D <=> dir[c] # None) /\ (c \in D' <=> dir'[c] # None)
        /\ D \in SUBSET Clients /\ D' \in SUBSET Clients
    OBVIOUS
  <2> HIDE DEF D
  <2> QED BY <2>1, <2>2, CountOne DEF EnumDir
<1>3. /\ Cardinality(C) \in Nat /\ Cardinality(C') \in Nat
      /\ Cardinality(C') + CallDir(c) = Cardinality(C) + CallDir(c)'
  <2>1. \A k \in Clients : k # c => (k \in C <=> k \in C')
    BY DEF OneStep
  <2>2. /\ (c \in C <=> pc[c] \in {"commit", "remove_file"})
        /\ (c \in C' <=> pc'[c] \in {"commit", "remove_file"})
        /\ C \in SUBSET Clients /\ C' \in SUBSET Clients
    OBVIOUS
  <2> HIDE DEF C
  <2> QED BY <2>1, <2>2, CountOne DEF CallDir
<1>4. /\ refs = Cardinality(O) + Cardinality(D) + Cardinality(C)
      /\ refs' + ObjDir(c) + EnumDir(c) + CallDir(c)
         = refs + ObjDir(c)' + EnumDir(c)' + CallDir(c)'
      /\ refs \in Nat /\ refs' \in Nat
  BY DEF DirCounted, DirMoves, Types
<1>5. /\ ObjDir(c) \in Nat /\ EnumDir(c) \in Nat /\ CallDir(c) \in Nat
      /\ ObjDir(c)' \in Nat /\ EnumDir(c)' \in Nat /\ CallDir(c)' \in Nat
  BY DEF ObjDir, EnumDir, CallDir
<1>6. refs' = Cardinality(O') + Cardinality(D') + Cardinality(C')
  <2> HIDE DEF O, D, C
  <2> QED BY <1>1, <1>2, <1>3, <1>4, <1>5, Moved
<1> QED BY <1>6 DEF DirCounted

\* What is left to show of a step of c.
LEMMA Step ==
  ASSUME SInv, Types', NEW c \in Clients, OneStep(c), ShapeOf(c)', Unique', Coherent',
         OwnerOf(c)',
         \/ \A k \in Clients : k # c => pc[k] \notin LockPcs
         \/ pc'[c] \notin LockPcs /\ UNCHANGED << dirf, dirh >>,
         PobjMoves(c), DirMoves(c)
  PROVE  SInv'
<1>1. Shape'
  BY DEF SInv, Shape, ShapeOf, OneStep
<1>2. Mutex'
  <2>1. \A k \in Clients : k # c => OwnerOf(k)'
    <3> SUFFICES ASSUME NEW k \in Clients, k # c PROVE OwnerOf(k)'
      OBVIOUS
    <3>1. OwnerOf(k) /\ obj'[k] = obj[k] /\ pc'[k] = pc[k] /\ arg'[k] = arg[k]
      BY DEF SInv, Mutex, OneStep
    <3>2. CASE pc[k] \notin LockPcs
      BY <3>1, <3>2 DEF OwnerOf, LockPcs
    <3>3. CASE UNCHANGED << dirf, dirh >>
      BY <3>1, <3>3 DEF OwnerOf, Numbers, Entries
    <3> QED BY <3>2, <3>3
  <2>2. \A k, d \in Clients : pc'[k] \in LockPcs /\ pc'[d] \in LockPcs => k = d
    BY DEF SInv, Mutex, OneStep
  <2> QED BY <2>1, <2>2 DEF Mutex
<1>3. PobjCounted' /\ DirCounted'
  BY PobjStep, DirStep DEF SInv
<1> QED BY <1>1, <1>2, <1>3 DEF SInv

\* After put_dirh().
LEMMA Put ==
  ASSUME Types, Coherent, NEW d, d \in DirRec \cup {None}, NEW n \in Nat, NEW close,
         PutDirh(d, n, close), dirh # None => d # None,
         d # None => d.ents = dirf' /\ Numbers(dirf') \subseteq d.bits
  PROVE  /\ Coherent' /\ refs' \in Nat /\ dirh' \in DirRec \cup {None}
         /\ dir' \in [Clients -> [idx : Idxs \cup {-1}, live : BOOLEAN] \cup {None}]
         /\ \A k \in Clients : dir'[k] = None <=> dir[k] = None
<1>1. /\ refs' = n /\ dirh' \in {d, None}
      /\ dir' = [k \in Clients |->
                   IF (close \/ n = 0) /\ dir[k] # None
                   THEN [idx |-> -1, live |-> FALSE] ELSE dir[k]]
      /\ ~(close \/ n = 0) => dirh' = d
  BY DEF PutDirh
<1>2. /\ dir' \in [Clients -> [idx : Idxs \cup {-1}, live : BOOLEAN] \cup {None}]
      /\ \A k \in Clients : dir'[k] = None <=> dir[k] = None
  <2>1. [idx |-> -1, live |-> FALSE] \in [idx : Idxs \cup {-1}, live : BOOLEAN]
    OBVIOUS
  <2>2. dir \in [Clients -> [idx : Idxs \cup {-1}, live : BOOLEAN] \cup {None}]
    BY DEF Types
  <2> QED BY <1>1, <2>1, <2>2, NoneApart
<1>3. dirh' # None => dirh'.ents = dirf' /\ Numbers(dirf)' \subseteq dirh'.bits
  BY <1>1 DEF Numbers, Entries
<1>4. \A k \in Clients : dir'[k] # None /\ dir'[k].live => dirh' # None
  BY <1>1, NoneApart DEF Coherent, Types
<1> QED BY <1>1, <1>2, <1>3, <1>4 DEF Coherent

-----------------------------------------------------------------------------
(* The list of objects.                                                    *)

\* What tee_pobj_get() does: an object that is new, or one of the name.
LEMMA Got ==
  ASSUME Types, PobjCounted, NEW c \in Clients, NEW name \in Names, NEW flags,
         NEW usage, NEW overwrite, NEW next, pc[c] \in {"idle", "enum"},
         PobjGet(c, name, flags, usage, overwrite, next)
  PROVE  /\ pc' = [pc EXCEPT ![c] = next]
         /\ \E p \in Pobjs :
              /\ arg' = [arg EXCEPT ![c] = [po |-> p, flags |-> flags,
                                            overwrite |-> overwrite, old |-> 0]]
              /\ \/ /\ pobj[p] = None /\ Listed(name) = {}
                    /\ pobj' = [pobj EXCEPT ![p] = [name |-> name, refcnt |-> 1,
                                  flags |-> flags, creating |-> usage = "create"]]
                 \/ /\ pobj[p] # None /\ p \in Listed(name)
                    /\ usage # "enum" =>
                         ~pobj[p].creating /\ Compatible(pobj[p].flags, flags)
                    /\ pobj' = [pobj EXCEPT ![p].refcnt = @ + 1]
<1>1. NewPobj \in Pobjs /\ pobj[NewPobj] = None
  <2>1. \A p \in Pobjs : ~CallHolds(c, p)
    BY DEF CallHolds
  <2> QED BY <2>1, FreePobj
<1>2. Listed(name) \subseteq Pobjs /\ \A p \in Listed(name) : pobj[p] # None
  BY DEF Listed
<1>3. PICK p \in Listed(name) \cup (IF Listed(name) = {} THEN {NewPobj} ELSE {}) :
        PobjGet(c, name, flags, usage, overwrite, next)!(p)
  BY DEF PobjGet
<1>4. p \in Pobjs
  BY <1>1, <1>2, <1>3
<1>5. pobj[p] = None => Listed(name) = {}
  BY <1>2, <1>3
<1>6. pobj[p] # None => p \in Listed(name)
  BY <1>1, <1>3
<1> QED BY <1>3, <1>4, <1>5, <1>6 DEF Goto

\* tee_pobj_get(), in each of the calls that begin with it.
LEMMA GetStep ==
  ASSUME SInv, NEW c \in Clients, NEW name \in Names, NEW flags \in SUBSET Flags,
         NEW usage, NEW overwrite \in BOOLEAN,
         NEW next \in {"open", "create", "rename", "enum_open"},
         pc[c] \in {"idle", "enum"}, next \in {"open", "create"} => obj[c] = None,
         next = "rename" => obj[c] # None,
         PobjGet(c, name, flags, usage, overwrite, next),
         UNCHANGED << disk, mem, obj >>
  PROVE  SInv'
<1>1. PICK p \in Pobjs :
        /\ pc' = [pc EXCEPT ![c] = next]
        /\ arg' = [arg EXCEPT ![c] = [po |-> p, flags |-> flags,
                                      overwrite |-> overwrite, old |-> 0]]
        /\ \/ /\ pobj[p] = None
              /\ pobj' = [pobj EXCEPT ![p] = [name |-> name, refcnt |-> 1,
                            flags |-> flags, creating |-> usage = "create"]]
           \/ /\ pobj[p] # None
              /\ pobj' = [pobj EXCEPT ![p].refcnt = @ + 1]
  BY Got DEF SInv
<1>2. /\ [po |-> p, flags |-> flags, overwrite |-> overwrite, old |-> 0] \in Work
      /\ [name |-> name, refcnt |-> 1, flags |-> flags,
          creating |-> usage = "create"] \in Pobj
  BY Numerals DEF Work, Pobj
<1>0. /\ pobj' \in [Pobjs -> Pobj \cup {None}] /\ pobj'[p] # None
      /\ \A q \in Pobjs : q # p => pobj'[q] = pobj[q]
      /\ pobj'[p].refcnt = (IF pobj[p] = None THEN 0 ELSE pobj[p].refcnt) + 1
  <2>1. CASE pobj[p] = None
    <3> DEFINE new == [name |-> name, refcnt |-> 1, flags |-> flags,
                       creating |-> usage = "create"]
    <3>1. pobj' = [pobj EXCEPT ![p] = new] /\ pobj \in [Pobjs -> Pobj \cup {None}]
      BY <1>1, <2>1 DEF SInv, Types
    <3>2. new \in Pobj /\ new.refcnt = 1
      BY <1>2
    <3> HIDE DEF new
    <3> QED BY <2>1, <3>1, <3>2, NoneApart
  <2>2. CASE pobj[p] # None
    <3> DEFINE new == [pobj[p] EXCEPT !.refcnt = pobj[p].refcnt + 1]
    <3>1. pobj' = [pobj EXCEPT ![p] = new] /\ pobj \in [Pobjs -> Pobj \cup {None}]
      BY <1>1, <2>2 DEF SInv, Types
    <3>2. new \in Pobj /\ new.refcnt = pobj[p].refcnt + 1
      BY <2>2 DEF SInv, Types, Pobj
    <3> HIDE DEF new
    <3> QED BY <2>2, <3>1, <3>2, NoneApart
  <2> QED BY <2>1, <2>2
<1>3. Types'
  <2>1. pobj' \in [Pobjs -> Pobj \cup {None}]
    BY <1>0
  <2>2. arg' \in [Clients -> Work \cup Names \cup {None}]
    BY <1>1, <1>2 DEF SInv, Types
  <2>3. pc' \in [Clients -> WorkPcs \cup {"idle", "enum", "commit"}]
    BY <1>1 DEF SInv, Types, WorkPcs
  <2> QED BY <2>1, <2>2, <2>3 DEF SInv, Types, disk, mem
<1>4. /\ OneStep(c) /\ pc'[c] = next /\ arg'[c].po = p /\ arg'[c] \in Work
      /\ UNCHANGED << dirf, dirh, dir, refs, obj >>
  BY <1>1, <1>2 DEF SInv, Types, OneStep, disk, mem
<1>5. ShapeOf(c)'
  BY <1>4 DEF SInv, Shape, ShapeOf
<1>6. Unique' /\ Coherent'
  BY <1>4 DEF SInv, Unique, Coherent, Entries, Numbers
<1>7. OwnerOf(c)' /\ pc'[c] \notin LockPcs
  BY <1>4 DEF OwnerOf, LockPcs
<1>8. PobjMoves(c)
  <2> SUFFICES ASSUME NEW q \in Pobjs
               PROVE  Count(q)' + ObjRef(c, q) + CallRef(c, q)
                      = Count(q) + ObjRef(c, q)' + CallRef(c, q)'
    BY DEF PobjMoves
  <2>1. ObjRef(c, q)' = ObjRef(c, q) /\ ObjRef(c, q) \in Nat
    BY <1>4 DEF ObjRef
  <2>2. CallRef(c, q) = 0 /\ CallRef(c, q)' = IF q = p THEN 1 ELSE 0
    BY <1>4 DEF CallRef, CallHolds
  <2>3. Count(q)' = Count(q) + (IF q = p THEN 1 ELSE 0) /\ Count(q) \in Nat
    BY <1>0 DEF SInv, Types, Count, Pobj
  <2> QED BY <2>1, <2>2, <2>3
<1>9. DirMoves(c)
  BY <1>4 DEF DirMoves, ObjDir, EnumDir, CallDir
<1> QED BY <1>3, <1>4, <1>5, <1>6, <1>7, <1>8, <1>9, Step

\* tee_pobj_release()
LEMMA ReleaseStep ==
  ASSUME SInv, NEW c \in Clients, Release(c)
  PROVE  SInv'
<1> DEFINE p == arg[c].po
<1>1. /\ pc[c] \in {"release", "open", "create"} /\ arg[c] \in Work /\ p \in Pobjs
      /\ pobj[p] \in Pobj /\ pobj[p] # None
  <2>1. pc[c] \in {"release", "open", "create"} /\ arg[c] \in Work
    BY DEF Release, SInv, Shape, ShapeOf, WorkPcs
  <2>2. p \in Pobjs /\ CallHolds(c, p)
    BY <2>1 DEF Work, CallHolds
  <2> QED BY <2>1, <2>2, Referenced DEF SInv
<1>2. /\ pobj' = Released(p)
      /\ pc' = [pc EXCEPT ![c] = "idle"] /\ arg' = [arg EXCEPT ![c] = None]
      /\ UNCHANGED << file, dirf, dirh, refs, dir, obj >>
  BY DEF Release, Return, Goto, disk, mem
<1>3. /\ \A q \in Pobjs : q # p => pobj'[q] = pobj[q]
      /\ pobj[p].refcnt = 1 => pobj'[p] = None
      /\ pobj[p].refcnt # 1 => /\ pobj'[p] \in Pobj
                               /\ pobj'[p].refcnt = pobj[p].refcnt - 1
      /\ pobj' \in [Pobjs -> Pobj \cup {None}]
  <2>1. CASE pobj[p].refcnt = 1
    <3>1. pobj' = [pobj EXCEPT ![p] = None]
      BY <1>2, <2>1 DEF Released
    <3> QED BY <1>1, <2>1, <3>1 DEF SInv, Types
  <2>2. CASE pobj[p].refcnt # 1
    <3> DEFINE new == [pobj[p] EXCEPT !.refcnt = pobj[p].refcnt - 1]
    <3>1. pobj' = [pobj EXCEPT ![p] = new] /\ pobj \in [Pobjs -> Pobj \cup {None}]
      BY <1>2, <2>2 DEF SInv, Types, Released
    <3>2. new \in Pobj /\ new.refcnt = pobj[p].refcnt - 1
      BY <1>1, <2>2 DEF Pobj
    <3> HIDE DEF new
    <3> QED BY <1>1, <2>2, <3>1, <3>2
  <2> QED BY <2>1, <2>2
<1>4. Types'
  BY <1>2, <1>3 DEF SInv, Types, WorkPcs
<1>5. OneStep(c) /\ pc'[c] = "idle"
  BY <1>2 DEF SInv, Types, OneStep
<1>6. ShapeOf(c)'
  BY <1>1, <1>2, <1>5 DEF SInv, Shape, ShapeOf, WorkPcs
<1>7. Unique' /\ Coherent'
  BY <1>2 DEF SInv, Unique, Coherent, Entries, Numbers
<1>8. OwnerOf(c)' /\ pc'[c] \notin LockPcs
  BY <1>5 DEF OwnerOf, LockPcs
<1>9. PobjMoves(c)
  <2> SUFFICES ASSUME NEW q \in Pobjs
               PROVE  Count(q)' + ObjRef(c, q) + CallRef(c, q)
                      = Count(q) + ObjRef(c, q)' + CallRef(c, q)'
    BY DEF PobjMoves
  <2>1. ObjRef(c, q)' = ObjRef(c, q) /\ ObjRef(c, q) \in Nat
    BY <1>2 DEF ObjRef
  <2>2. CallRef(c, q)' = 0 /\ CallRef(c, q) = IF q = p THEN 1 ELSE 0
    BY <1>1, <1>5 DEF CallRef, CallHolds
  <2>3. Count(q) = Count(q)' + (IF q = p THEN 1 ELSE 0) /\ Count(q)' \in Nat
    BY <1>1, <1>3, NoneApart DEF SInv, Types, Count, Pobj
  <2> QED BY <2>1, <2>2, <2>3
<1>10. DirMoves(c)
  BY <1>1, <1>2, <1>5 DEF DirMoves, ObjDir, EnumDir, CallDir
<1> QED BY <1>2, <1>4, <1>5, <1>6, <1>7, <1>8, <1>9, <1>10, Step

-----------------------------------------------------------------------------
(* The directory.                                                          *)

\* The directory stays open.
LEMMA Keep ==
  ASSUME Types, NEW d \in DirRec, NEW n \in Nat, KeepDirh(d, n),
         d.ents = dirf' /\ Numbers(dirf') \subseteq d.bits
  PROVE  /\ Coherent' /\ refs' = n /\ refs' \in Nat /\ dirh' = d /\ dirh' # None
         /\ dirh' \in DirRec \cup {None} /\ dir' = dir
<1>1. refs' = n /\ dirh' = d /\ dir' = dir /\ dirh' # None
  BY NoneApart DEF KeepDirh
<1> QED BY <1>1 DEF Coherent, Numbers, Entries

\* Who refers to the directory is counted.
LEMMA DirReferenced ==
  ASSUME Types, DirCounted, NEW c \in Clients,
         obj[c] # None \/ dir[c] # None \/ pc[c] \in {"commit", "remove_file"}
  PROVE  refs - 1 \in Nat
<1> DEFINE O == {d \in Clients : obj[d] # None}
           D == {d \in Clients : dir[d] # None}
           C == {d \in Clients : pc[d] \in {"commit", "remove_file"}}
<1>1. c \in O \/ c \in D \/ c \in C
  OBVIOUS
<1>2. refs = Cardinality(O) + Cardinality(D) + Cardinality(C)
  BY DEF DirCounted
<1>3. /\ Cardinality(O) \in Nat /\ Cardinality(D) \in Nat /\ Cardinality(C) \in Nat
      /\ (Cardinality(O) = 0 <=> O = {}) /\ (Cardinality(D) = 0 <=> D = {})
      /\ (Cardinality(C) = 0 <=> C = {})
  BY CountAny
<1>4. Cardinality(O) # 0 \/ Cardinality(D) # 0 \/ Cardinality(C) # 0
  BY <1>1, <1>3
<1> HIDE DEF O, D, C
<1> QED BY <1>2, <1>3, <1>4

\* An entry of a name.
LEMMA FindIs ==
  ASSUME Types, NEW name
  PROVE  /\ Find(dirf, name) \subseteq Idxs
         /\ Find(dirf, name) # {} => /\ Min(Find(dirf, name)) \in Find(dirf, name)
                                     /\ Min(Find(dirf, name)) \in Entries(dirf)
         /\ \A i \in Entries(dirf) : i \in Idxs /\ dirf[i] \in Entry /\ dirf[i] # None
         /\ \A i \in Find(dirf, name) : i \in Entries(dirf) /\ dirf[i].name = name
<1>1. Find(dirf, name) \subseteq Entries(dirf) /\ Entries(dirf) \subseteq Idxs
      /\ \A i \in Find(dirf, name) : dirf[i].name = name
  BY DEF Find, Entries
<1>2. Find(dirf, name) # {} => Min(Find(dirf, name)) \in Find(dirf, name)
  BY <1>1, MinIn, Numerals
<1>3. \A i \in Entries(dirf) : dirf[i] \in Entry /\ dirf[i] # None
  BY DEF Types, Entries
<1> QED BY <1>1, <1>2, <1>3

\* ree_fs_open()
LEMMA FsOpenStep ==
  ASSUME SInv, NEW c \in Clients, FsOpen(c)
  PROVE  SInv'
<1> DEFINE idx == Find(Dirh.ents, NameOf(c))
           i == Min(idx)
           entry == Dirh.ents[i]
           h == [po |-> arg[c].po, flags |-> arg[c].flags, failed |-> FALSE,
                 fh |-> [idx |-> i, fn |-> entry.fn, hash |-> entry.hash,
                         live |-> TRUE]]
<1>1. /\ pc[c] = "open" /\ arg[c] \in Work /\ arg[c].po \in Pobjs /\ obj[c] = None
      /\ \A k \in Clients : pc[k] \notin LockPcs
  BY DEF FsOpen, SInv, Shape, ShapeOf, WorkPcs, Work, Locked, LockPcs
<1>2. /\ Dirh \in DirRec /\ Dirh # None /\ Dirh.ents = dirf
      /\ Numbers(dirf) \subseteq Dirh.bits /\ refs \in Nat
  BY DirhIs DEF SInv, Types
<1>3. UNCHANGED << file, dirf, pobj >>
  BY DEF FsOpen, disk
<1>4. CASE /\ idx # {} /\ obj' = [obj EXCEPT ![c] = h]
           /\ KeepDirh(Dirh, refs + 1) /\ Return(c)
  <2>1. i \in Idxs /\ dirf[i] \in Entry
    BY <1>2, <1>4, FindIs DEF SInv
  <2>2. h \in Object /\ h.po = arg[c].po /\ h.fh.idx = i /\ h # None /\ i # -1
    <3>1. h \in Object /\ h.po = arg[c].po /\ h.fh.idx = i
      BY <1>1, <1>2, <2>1 DEF Object, Handle, Entry, Work
    <3>2. i # -1
      BY <2>1, Numerals
    <3> HIDE DEF h
    <3> QED BY <3>1, <3>2, NoneApart
  <2>3. /\ Coherent' /\ refs' = refs + 1 /\ refs' \in Nat
        /\ dirh' \in DirRec \cup {None} /\ dir' = dir
    <3>1. refs + 1 \in Nat /\ Dirh.ents = dirf' /\ Numbers(dirf') \subseteq Dirh.bits
      BY <1>2, <1>3
    <3> QED BY <1>2, <1>4, <3>1, Keep DEF SInv
  <2> HIDE DEF h
  <2>4. /\ obj' = [obj EXCEPT ![c] = h] /\ pc' = [pc EXCEPT ![c] = "idle"]
        /\ arg' = [arg EXCEPT ![c] = None]
    BY <1>4 DEF Return, Goto
  <2>5. Types'
    BY <1>3, <2>2, <2>3, <2>4 DEF SInv, Types
  <2>6. OneStep(c) /\ pc'[c] = "idle" /\ obj'[c] = h
    BY <2>4 DEF SInv, Types, OneStep
  <2>7. ShapeOf(c)' /\ Unique' /\ OwnerOf(c)'
    BY <1>3, <2>2, <2>6 DEF SInv, ShapeOf, WorkPcs, Unique, Entries, OwnerOf, LockPcs
  <2>8. PobjMoves(c)
    BY <1>1, <1>3, <2>2, <2>6 DEF PobjMoves, Count, ObjRef, CallRef, CallHolds, SInv,
       Types, Pobj
  <2>9. DirMoves(c)
    BY <1>1, <1>2, <2>2, <2>3, <2>6 DEF DirMoves, ObjDir, EnumDir, CallDir
  <2> QED BY <1>1, <2>3, <2>5, <2>6, <2>7, <2>8, <2>9, Step
<1>5. CASE /\ PutDirh(Dirh, refs, TRUE) /\ UNCHANGED << obj, arg >>
           /\ Goto(c, IF idx = {} THEN "release" ELSE "remove")
  <2>1. /\ Coherent' /\ refs' = refs /\ refs' \in Nat /\ dirh' \in DirRec \cup {None}
        /\ dir' \in [Clients -> [idx : Idxs \cup {-1}, live : BOOLEAN] \cup {None}]
        /\ \A k \in Clients : dir'[k] = None <=> dir[k] = None
    <3>1. Dirh.ents = dirf' /\ Numbers(dirf') \subseteq Dirh.bits
      BY <1>2, <1>3
    <3>2. refs' = refs
      BY <1>5 DEF PutDirh
    <3> QED BY <1>2, <1>5, <3>1, <3>2, Put DEF SInv
  <2>2. PICK to \in {"release", "remove"} : pc' = [pc EXCEPT ![c] = to]
    BY <1>5 DEF Goto
  <2>3. Types'
    BY <1>3, <1>5, <2>1, <2>2 DEF SInv, Types, WorkPcs
  <2>4. OneStep(c) /\ pc'[c] = to /\ UNCHANGED << obj, arg >>
    BY <1>5, <2>2 DEF SInv, Types, OneStep
  <2>5. ShapeOf(c)' /\ Unique' /\ OwnerOf(c)'
    BY <1>1, <1>3, <2>4 DEF SInv, ShapeOf, WorkPcs, Unique, Entries, OwnerOf, LockPcs
  <2>6. PobjMoves(c)
    BY <1>1, <1>3, <2>4 DEF PobjMoves, Count, ObjRef, CallRef, CallHolds, SInv,
       Types, Pobj
  <2>7. DirMoves(c)
    BY <1>1, <1>2, <2>1, <2>4 DEF DirMoves, ObjDir, EnumDir, CallDir
  <2> QED BY <1>1, <2>1, <2>3, <2>4, <2>5, <2>6, <2>7, Step
<1> QED BY <1>4, <1>5 DEF FsOpen

\* A step that leaves the directory and the references alone.
LEMMA Quiet ==
  ASSUME SInv, Types', NEW c \in Clients, OneStep(c), UNCHANGED << dirf, dirh, dir, refs >>,
         ShapeOf(c)', pc'[c] \notin LockPcs, pc[c] \notin {"commit", "remove_file"},
         \A p \in Pobjs : Count(p)' = Count(p),
         obj'[c] = None <=> obj[c] = None,
         obj[c] # None => obj'[c].po = obj[c].po,
         \A p \in Pobjs : CallHolds(c, p)' <=> CallHolds(c, p)
  PROVE  SInv'
<1>1. Unique' /\ Coherent'
  BY DEF SInv, Unique, Coherent, Entries, Numbers
<1>2. OwnerOf(c)'
  BY DEF OwnerOf, LockPcs
<1>3. PobjMoves(c)
  <2>1. \A p \in Pobjs : ObjRef(c, p)' = ObjRef(c, p) /\ CallRef(c, p)' = CallRef(c, p)
    BY DEF ObjRef, CallRef
  <2> QED BY <2>1 DEF PobjMoves
<1>4. DirMoves(c)
  BY DEF DirMoves, ObjDir, EnumDir, CallDir, LockPcs
<1> QED BY <1>1, <1>2, <1>3, <1>4, Step

\* tee_fs_dirfile_remove() is done: the file that was overwritten goes.
LEMMA RemoveOldStep ==
  ASSUME SInv, NEW c \in Clients, RemoveOld(c)
  PROVE  SInv'
<1>1. /\ pc[c] = "remove_old" /\ arg[c] \in Work /\ obj[c] # None
      /\ pc' = [pc EXCEPT ![c] = "created"] /\ file' = [file EXCEPT ![arg[c].old] = {}]
      /\ UNCHANGED << dirf, dirh, refs, dir, pobj, obj, arg >>
  BY DEF RemoveOld, Goto, mem, SInv, Shape, ShapeOf, WorkPcs
<1>2. Types'
  <2>1. file' \in [FileNos -> SUBSET Hashes]
        /\ \A n \in FileNos : Cardinality(file'[n]) <= 2
    <3>1. Cardinality({}) = 0 /\ arg[c].old \in FileNos
      BY <1>1, FS_EmptySet DEF Work
    <3>2. file'[arg[c].old] = {} /\ \A n \in FileNos : n # arg[c].old => file'[n] = file[n]
      BY <1>1, <3>1 DEF SInv, Types
    <3>3. file' \in [FileNos -> SUBSET Hashes]
      BY <1>1 DEF SInv, Types
    <3>4. \A n \in FileNos : Cardinality(file[n]) <= 2
      BY DEF SInv, Types
    <3> QED BY <3>1, <3>2, <3>3, <3>4
  <2> QED BY <1>1, <2>1 DEF SInv, Types, WorkPcs
<1>3. OneStep(c) /\ pc'[c] = "created" /\ arg'[c] = arg[c]
  BY <1>1 DEF SInv, Types, OneStep
<1>4. ShapeOf(c)' /\ \A p \in Pobjs : CallHolds(c, p)' <=> CallHolds(c, p)
  BY <1>1, <1>3 DEF SInv, Shape, ShapeOf, WorkPcs, CallHolds
<1> QED BY <1>1, <1>2, <1>3, <1>4, Quiet DEF Count, LockPcs

\* tee_pobj_create_final()
LEMMA CreateFinalStep ==
  ASSUME SInv, NEW c \in Clients, NEW final \in BOOLEAN, NEW close \in BOOLEAN,
         CreateFinal(c, final, close)
  PROVE  SInv'
<1> DEFINE p == arg[c].po
<1>1. /\ pc[c] = "created" /\ arg[c] \in Work /\ obj[c] # None /\ p \in Pobjs
      /\ pobj[p] \in Pobj /\ pobj[p] # None
  <2>1. pc[c] = "created" /\ arg[c] \in Work /\ obj[c] # None /\ p = obj[c].po
    BY DEF CreateFinal, SInv, Shape, ShapeOf, WorkPcs
  <2>2. p \in Pobjs
    BY <2>1 DEF Work
  <2> QED BY <2>1, <2>2, Referenced DEF SInv
<1>2. /\ pobj' = [pobj EXCEPT ![p].creating = pobj[p].creating /\ ~final]
      /\ UNCHANGED << file, dirf, dirh, refs, dir, obj >>
  BY DEF CreateFinal, disk, mem
<1>3. \/ pc' = [pc EXCEPT ![c] = "close"] /\ arg' = arg
      \/ pc' = [pc EXCEPT ![c] = "idle"] /\ arg' = [arg EXCEPT ![c] = None]
  BY DEF CreateFinal, Goto, Return
<1>4. /\ pobj' \in [Pobjs -> Pobj \cup {None}]
      /\ \A q \in Pobjs : Count(q)' = Count(q)
  <2> DEFINE new == [pobj[p] EXCEPT !.creating = pobj[p].creating /\ ~final]
  <2>1. pobj' = [pobj EXCEPT ![p] = new] /\ pobj \in [Pobjs -> Pobj \cup {None}]
    BY <1>2 DEF SInv, Types
  <2>2. new \in Pobj /\ new.refcnt = pobj[p].refcnt
    BY <1>1 DEF Pobj
  <2> HIDE DEF new
  <2> QED BY <1>1, <2>1, <2>2, NoneApart DEF Count
<1>5. Types'
  BY <1>2, <1>3, <1>4 DEF SInv, Types, WorkPcs
<1>6. OneStep(c) /\ pc'[c] \in {"idle", "close"} /\ (pc'[c] = "close" => arg'[c] = arg[c])
  <2>1. CASE pc' = [pc EXCEPT ![c] = "close"] /\ arg' = arg
    BY <1>2, <2>1 DEF SInv, Types, OneStep
  <2>2. CASE pc' = [pc EXCEPT ![c] = "idle"] /\ arg' = [arg EXCEPT ![c] = None]
    BY <1>2, <2>2 DEF SInv, Types, OneStep
  <2> QED BY <1>3, <2>1, <2>2
<1>7. ShapeOf(c)' /\ \A q \in Pobjs : CallHolds(c, q)' <=> CallHolds(c, q)
  BY <1>1, <1>2, <1>6 DEF SInv, Shape, ShapeOf, WorkPcs, CallHolds
<1> QED BY <1>1, <1>2, <1>4, <1>5, <1>6, <1>7, Quiet DEF LockPcs

\* syscall_storage_obj_del()
LEMMA DeleteStep ==
  ASSUME SInv, NEW c \in Clients, Delete(c)
  PROVE  SInv'
<1>1. /\ pc[c] = "idle" /\ obj[c] # None /\ obj[c] \in Object
      /\ pc' = [pc EXCEPT ![c] = "remove"] /\ arg' = [arg EXCEPT ![c] = WithName(c)]
      /\ UNCHANGED << file, dirf, dirh, refs, dir, pobj, obj >>
  BY DEF Delete, Goto, disk, mem, SInv, Types
<1>2. WithName(c) \in Work /\ WithName(c).po = obj[c].po
  BY <1>1, Numerals DEF WithName, Work, Object
<1>3. Types'
  BY <1>1, <1>2 DEF SInv, Types, WorkPcs
<1>4. OneStep(c) /\ pc'[c] = "remove" /\ arg'[c] = WithName(c)
  BY <1>1 DEF SInv, Types, OneStep
<1>5. ShapeOf(c)' /\ \A q \in Pobjs : CallHolds(c, q)' <=> CallHolds(c, q)
  BY <1>1, <1>2, <1>4 DEF SInv, Shape, ShapeOf, WorkPcs, CallHolds
<1> QED BY <1>1, <1>3, <1>4, <1>5, Quiet DEF Count, LockPcs

\* tee_pobj_rename()
LEMMA PobjRenameStep ==
  ASSUME SInv, NEW c \in Clients, PobjRename(c)
  PROVE  SInv'
<1> DEFINE p == obj[c].po
<1>1. /\ pc[c] = "prename" /\ obj[c] # None /\ arg[c] \in Work /\ p \in Pobjs
      /\ pobj[p] \in Pobj /\ pobj[p] # None /\ NameOf(c) \in Names
  <2>1. pc[c] = "prename" /\ obj[c] # None /\ arg[c] \in Work /\ obj[c] \in Object
    BY DEF PobjRename, SInv, Shape, ShapeOf, WorkPcs, Types
  <2>2. p \in Pobjs /\ arg[c].po \in Pobjs /\ CallHolds(c, arg[c].po)
    BY <2>1 DEF Object, Work, CallHolds
  <2>3. pobj[p] \in Pobj /\ pobj[p] # None /\ pobj[arg[c].po] \in Pobj
    BY <2>1, <2>2, Referenced DEF SInv
  <2> QED BY <2>1, <2>2, <2>3 DEF NameOf, Pobj
<1>2. /\ pc' = [pc EXCEPT ![c] = "release"]
      /\ UNCHANGED << file, dirf, dirh, refs, dir, obj, arg >>
      /\ pobj' = pobj \/ pobj' = [pobj EXCEPT ![p].name = NameOf(c)]
  BY DEF PobjRename, disk, mem, Goto
<1>3. /\ pobj' \in [Pobjs -> Pobj \cup {None}]
      /\ \A q \in Pobjs : Count(q)' = Count(q)
  <2>1. CASE pobj' = pobj
    BY <2>1 DEF SInv, Types, Count
  <2>2. CASE pobj' = [pobj EXCEPT ![p].name = NameOf(c)]
    <3> DEFINE new == [pobj[p] EXCEPT !.name = NameOf(c)]
    <3>1. pobj' = [pobj EXCEPT ![p] = new] /\ pobj \in [Pobjs -> Pobj \cup {None}]
      BY <2>2 DEF SInv, Types
    <3>2. new \in Pobj /\ new.refcnt = pobj[p].refcnt
      BY <1>1 DEF Pobj
    <3> HIDE DEF new
    <3> QED BY <1>1, <3>1, <3>2, NoneApart DEF Count
  <2> QED BY <1>2, <2>1, <2>2
<1>4. Types'
  BY <1>2, <1>3 DEF SInv, Types, WorkPcs
<1>5. OneStep(c) /\ pc'[c] = "release"
  BY <1>2 DEF SInv, Types, OneStep
<1>6. ShapeOf(c)' /\ \A q \in Pobjs : CallHolds(c, q)' <=> CallHolds(c, q)
  BY <1>1, <1>2, <1>5 DEF SInv, Shape, ShapeOf, WorkPcs, CallHolds
<1> QED BY <1>1, <1>2, <1>3, <1>4, <1>5, <1>6, Quiet DEF LockPcs

\* ree_fs_readdir_rpc()
LEMMA NextEnumStep ==
  ASSUME SInv, NEW c \in Clients, NextEnum(c)
  PROVE  SInv'
<1> DEFINE left == {i \in Entries(dirh.ents) : i > dir[c].idx}
           i == Min(left)
<1>1. /\ pc[c] = "idle" /\ dir[c] # None /\ dirh # None /\ dirh.ents = dirf
      /\ left # {} /\ \A k \in Clients : pc[k] \notin LockPcs
  BY DEF NextEnum, SInv, Coherent, Locked, LockPcs
<1>2. i \in Idxs /\ dirf[i] \in Entry
  <2>1. left \subseteq Entries(dirf) /\ left \subseteq Nat
    BY <1>1, FindIs, Numerals DEF SInv
  <2>2. i \in left
    BY <1>1, <2>1, MinIn
  <2> QED BY <2>1, <2>2, FindIs DEF SInv
<1>3. /\ dir' = [dir EXCEPT ![c].idx = i] /\ arg' = [arg EXCEPT ![c] = dirf[i].name]
      /\ pc' = [pc EXCEPT ![c] = "enum"]
      /\ UNCHANGED << file, dirf, dirh, refs, pobj, obj >>
  BY <1>1 DEF NextEnum, Goto, disk
<1>4. /\ dir' \in [Clients -> [idx : Idxs \cup {-1}, live : BOOLEAN] \cup {None}]
      /\ \A k \in Clients : dir'[k] = None <=> dir[k] = None
  <2> DEFINE new == [dir[c] EXCEPT !.idx = i]
  <2>1. /\ dir' = [dir EXCEPT ![c] = new]
        /\ dir \in [Clients -> [idx : Idxs \cup {-1}, live : BOOLEAN] \cup {None}]
    BY <1>3 DEF SInv, Types
  <2>2. new \in [idx : Idxs \cup {-1}, live : BOOLEAN]
    BY <1>1, <1>2, <2>1
  <2> HIDE DEF new
  <2> QED BY <1>1, <2>1, <2>2, NoneApart
<1>5. Types'
  <2>1. dirf[i].name \in Names
    BY <1>2 DEF Entry
  <2> QED BY <1>3, <1>4, <2>1 DEF SInv, Types
<1>6. OneStep(c) /\ pc'[c] = "enum" /\ arg'[c] \in Names
  BY <1>2, <1>3 DEF SInv, Types, OneStep, Entry
<1>7. ShapeOf(c)' /\ Unique' /\ OwnerOf(c)'
  BY <1>1, <1>3, <1>6 DEF SInv, Shape, ShapeOf, WorkPcs, Unique, Entries, OwnerOf, LockPcs
<1>8. Coherent'
  BY <1>1, <1>3 DEF SInv, Coherent, Numbers, Entries
<1>9. PobjMoves(c)
  BY <1>1, <1>3, <1>6 DEF PobjMoves, Count, ObjRef, CallRef, CallHolds
<1>10. DirMoves(c)
  BY <1>1, <1>3, <1>4, <1>6 DEF DirMoves, ObjDir, EnumDir, CallDir
<1> QED BY <1>1, <1>5, <1>6, <1>7, <1>8, <1>9, <1>10, Step

\* ree_fs_opendir_rpc()
LEMMA StartEnumStep ==
  ASSUME SInv, NEW c \in Clients, StartEnum(c)
  PROVE  SInv'
<1>1. /\ pc[c] = "idle" /\ obj[c] = None /\ dir[c] = None
      /\ \A k \in Clients : pc[k] \notin LockPcs
      /\ UNCHANGED << file, dirf, pobj, obj, pc, arg >>
  BY DEF StartEnum, Free, Locked, LockPcs, disk
<1>2. /\ Dirh \in DirRec /\ Dirh # None /\ Dirh.ents = dirf
      /\ Numbers(dirf) \subseteq Dirh.bits /\ refs \in Nat
  BY DirhIs DEF SInv, Types
<1>3. OneStep(c) /\ ShapeOf(c)' /\ Unique' /\ OwnerOf(c)'
  BY <1>1 DEF OneStep, SInv, Shape, ShapeOf, Unique, Entries, OwnerOf, LockPcs
<1>4. PobjMoves(c)
  BY <1>1 DEF PobjMoves, Count, ObjRef, CallRef, CallHolds
<1>5. CASE PutDirh(Dirh, refs, FALSE)
  <2>1. /\ Coherent' /\ refs' = refs /\ refs' \in Nat /\ dirh' \in DirRec \cup {None}
        /\ dir' \in [Clients -> [idx : Idxs \cup {-1}, live : BOOLEAN] \cup {None}]
        /\ \A k \in Clients : dir'[k] = None <=> dir[k] = None
    <3>1. Dirh.ents = dirf' /\ Numbers(dirf') \subseteq Dirh.bits
      BY <1>1, <1>2
    <3>2. refs' = refs
      BY <1>5 DEF PutDirh
    <3> QED BY <1>2, <1>5, <3>1, <3>2, Put DEF SInv
  <2>2. Types'
    BY <1>1, <2>1 DEF SInv, Types
  <2>3. DirMoves(c)
    BY <1>1, <2>1 DEF DirMoves, ObjDir, EnumDir, CallDir
  <2> QED BY <1>1, <1>3, <1>4, <2>1, <2>2, <2>3, Step
<1>6. CASE /\ refs' = refs + 1 /\ dirh' = Dirh
           /\ dir' = [dir EXCEPT ![c] = [idx |-> -1, live |-> TRUE]]
  <2>1. /\ dir' \in [Clients -> [idx : Idxs \cup {-1}, live : BOOLEAN] \cup {None}]
        /\ dir'[c] # None /\ \A k \in Clients : k # c => dir'[k] = dir[k]
    <3>1. [idx |-> -1, live |-> TRUE] \in [idx : Idxs \cup {-1}, live : BOOLEAN]
      OBVIOUS
    <3>2. dir \in [Clients -> [idx : Idxs \cup {-1}, live : BOOLEAN] \cup {None}]
      BY DEF SInv, Types
    <3> QED BY <1>6, <3>1, <3>2, NoneApart
  <2>2. Types'
    BY <1>1, <1>2, <1>6, <2>1 DEF SInv, Types
  <2>3. Coherent'
    BY <1>1, <1>2, <1>6, <2>1 DEF Coherent, Numbers, Entries
  <2>4. DirMoves(c)
    BY <1>1, <1>2, <1>6, <2>1 DEF DirMoves, ObjDir, EnumDir, CallDir
  <2> QED BY <1>1, <1>3, <1>4, <2>2, <2>3, <2>4, Step
<1> QED BY <1>5, <1>6 DEF StartEnum

\* ree_fs_closedir_rpc()
LEMMA CloseDirStep ==
  ASSUME SInv, NEW c \in Clients, CloseDir(c)
  PROVE  SInv'
<1>1. /\ pc[c] = "idle" /\ dir[c] # None /\ \A k \in Clients : pc[k] \notin LockPcs
      /\ UNCHANGED << file, dirf, pobj, obj, pc, arg >>
      /\ refs' = refs - 1 /\ dirh' = (IF refs = 1 THEN None ELSE dirh)
      /\ dir' = [dir EXCEPT ![c] = None]
  BY DEF CloseDir, Locked, LockPcs, disk
<1>2. refs - 1 \in Nat
  BY <1>1, DirReferenced DEF SInv
<1>3. /\ dir' \in [Clients -> [idx : Idxs \cup {-1}, live : BOOLEAN] \cup {None}]
      /\ dir'[c] = None /\ \A k \in Clients : k # c => dir'[k] = dir[k]
  BY <1>1 DEF SInv, Types
<1>4. Types'
  BY <1>1, <1>2, <1>3 DEF SInv, Types
<1>5. OneStep(c) /\ ShapeOf(c)' /\ Unique' /\ OwnerOf(c)'
  BY <1>1 DEF OneStep, SInv, Shape, ShapeOf, Unique, Entries, OwnerOf, LockPcs
<1>6. PobjMoves(c)
  BY <1>1 DEF PobjMoves, Count, ObjRef, CallRef, CallHolds
<1>7. DirMoves(c)
  BY <1>1, <1>3 DEF DirMoves, ObjDir, EnumDir, CallDir, SInv, Types
<1>8. Coherent'
  <2>1. ASSUME NEW k \in Clients, dir'[k] # None, dir'[k].live PROVE refs # 1
    <3>1. k # c /\ dir[k] # None
      BY <1>3, <2>1
    <3> DEFINE O == {d \in Clients : obj[d] # None}
               D == {d \in Clients : dir[d] # None}
               C == {d \in Clients : pc[d] \in {"commit", "remove_file"}}
               E == {d \in Clients : d # c /\ dir[d] # None}
    <3>2. refs = Cardinality(O) + Cardinality(D) + Cardinality(C)
      BY DEF SInv, DirCounted
    <3>3. Cardinality(E) \in Nat /\ Cardinality(E) # 0
      <4>1. k \in E
        BY <3>1
      <4> QED BY <4>1, CountAny
    <3>4. Cardinality(D) + (IF c \in E THEN 1 ELSE 0)
            = Cardinality(E) + (IF c \in D THEN 1 ELSE 0)
      <4>1. \A d \in Clients : d # c => (d \in E <=> d \in D)
        OBVIOUS
      <4> HIDE DEF D, E
      <4> QED BY <4>1, CountOne DEF D, E
    <3>5. c \in D /\ c \notin E
      BY <1>1
    <3>6. Cardinality(O) \in Nat /\ Cardinality(D) \in Nat /\ Cardinality(C) \in Nat
      BY CountAny
    <3> HIDE DEF O, D, C, E
    <3> QED BY <3>2, <3>3, <3>4, <3>5, <3>6
  <2>2. \A k \in Clients : dir'[k] # None /\ dir'[k].live => dirh' # None
    BY <1>1, <1>3, <2>1 DEF SInv, Coherent
  <2> QED BY <1>1, <2>2 DEF SInv, Coherent, Numbers, Entries
<1> QED BY <1>1, <1>4, <1>5, <1>6, <1>7, <1>8, Step

\* ree_fs_open() and ree_fs_close() for an enumerator
LEMMA EnumOpenStep ==
  ASSUME SInv, NEW c \in Clients, EnumOpen(c)
  PROVE  SInv'
<1>1. /\ pc[c] = "enum_open" /\ \A k \in Clients : pc[k] \notin LockPcs
      /\ pc' = [pc EXCEPT ![c] = "release"] /\ UNCHANGED << file, dirf, pobj, obj, arg >>
  BY DEF EnumOpen, Locked, LockPcs, disk, Goto
<1>2. /\ Dirh \in DirRec /\ Dirh # None /\ Dirh.ents = dirf
      /\ Numbers(dirf) \subseteq Dirh.bits /\ refs \in Nat
  BY DirhIs DEF SInv, Types
<1>3. /\ Coherent' /\ refs' = refs /\ refs' \in Nat /\ dirh' \in DirRec \cup {None}
      /\ dir' \in [Clients -> [idx : Idxs \cup {-1}, live : BOOLEAN] \cup {None}]
      /\ \A k \in Clients : dir'[k] = None <=> dir[k] = None
  <2>1. Dirh.ents = dirf' /\ Numbers(dirf') \subseteq Dirh.bits
    BY <1>1, <1>2
  <2>2. PICK close : PutDirh(Dirh, refs, close)
    BY DEF EnumOpen
  <2>3. refs' = refs
    BY <2>2 DEF PutDirh
  <2> QED BY <1>2, <2>1, <2>2, <2>3, Put DEF SInv
<1>4. Types'
  BY <1>1, <1>3 DEF SInv, Types, WorkPcs
<1>5. OneStep(c) /\ pc'[c] = "release"
  BY <1>1 DEF SInv, Types, OneStep
<1>6. ShapeOf(c)' /\ Unique' /\ OwnerOf(c)'
  BY <1>1, <1>5 DEF SInv, Shape, ShapeOf, WorkPcs, Unique, Entries, OwnerOf, LockPcs
<1>7. PobjMoves(c)
  BY <1>1, <1>5 DEF PobjMoves, Count, ObjRef, CallRef, CallHolds
<1>8. DirMoves(c)
  BY <1>1, <1>3, <1>5 DEF DirMoves, ObjDir, EnumDir, CallDir
<1> QED BY <1>1, <1>3, <1>4, <1>5, <1>6, <1>7, <1>8, Step

\* ree_fs_close()
LEMMA CloseStep ==
  ASSUME SInv, NEW c \in Clients, Close(c)
  PROVE  SInv'
<1> DEFINE w == [po |-> obj[c].po, flags |-> {}, overwrite |-> FALSE, old |-> 0]
<1>1. /\ pc[c] \in {"idle", "close"} /\ obj[c] # None /\ obj[c] \in Object
      /\ \A k \in Clients : pc[k] \notin LockPcs
      /\ PutDirh(dirh, refs - 1, FALSE) /\ UNCHANGED << file, dirf, pobj >>
      /\ obj' = [obj EXCEPT ![c] = None] /\ pc' = [pc EXCEPT ![c] = "release"]
      /\ arg' = [arg EXCEPT ![c] = w]
  BY DEF Close, Locked, LockPcs, disk, Goto, SInv, Types
<1>2. w \in Work /\ w.po = obj[c].po
  BY <1>1, Numerals DEF Work, Object
<1> HIDE DEF w
<1>3. /\ Coherent' /\ refs' = refs - 1 /\ refs' \in Nat /\ dirh' \in DirRec \cup {None}
      /\ dir' \in [Clients -> [idx : Idxs \cup {-1}, live : BOOLEAN] \cup {None}]
      /\ \A k \in Clients : dir'[k] = None <=> dir[k] = None
  <2>1. dirh # None => dirh.ents = dirf' /\ Numbers(dirf') \subseteq dirh.bits
    BY <1>1 DEF SInv, Coherent
  <2>2. refs' = refs - 1
    BY <1>1 DEF PutDirh
  <2>3. refs - 1 \in Nat /\ dirh \in DirRec \cup {None}
    BY <1>1, DirReferenced DEF SInv, Types
  <2> QED BY <1>1, <2>1, <2>2, <2>3, Put DEF SInv
<1>4. Types'
  BY <1>1, <1>2, <1>3 DEF SInv, Types, WorkPcs
<1>5. OneStep(c) /\ pc'[c] = "release" /\ obj'[c] = None /\ arg'[c] = w
  BY <1>1 DEF SInv, Types, OneStep
<1>6. ShapeOf(c)' /\ Unique' /\ OwnerOf(c)'
  BY <1>1, <1>2, <1>5 DEF SInv, Shape, ShapeOf, WorkPcs, Unique, Entries, OwnerOf, LockPcs
<1>7. PobjMoves(c)
  BY <1>1, <1>2, <1>5 DEF PobjMoves, Count, ObjRef, CallRef, CallHolds, SInv, Types, Pobj
<1>8. DirMoves(c)
  BY <1>1, <1>3, <1>5 DEF DirMoves, ObjDir, EnumDir, CallDir, SInv, Types
<1> QED BY <1>1, <1>3, <1>4, <1>5, <1>6, <1>7, <1>8, Step

-----------------------------------------------------------------------------
(* Steps with the mutex.                                                   *)

\* The owner of the mutex is one client, for which the directory is open.
LEMMA Owner ==
  ASSUME SInv, NEW c \in Clients, pc[c] \in LockPcs
  PROVE  /\ \A k \in Clients : k # c => pc[k] \notin LockPcs
         /\ dirh # None /\ dirh \in DirRec /\ dirh.ents = dirf /\ Dirh = dirh
         /\ Numbers(dirf) \subseteq dirh.bits
<1>1. dirh # None
  BY DEF SInv, Mutex, OwnerOf
<1> QED BY <1>1 DEF SInv, Mutex, Coherent, Types, Dirh

\* ree_fs_create() that fails at the entry
LEMMA SetNameFailsStep ==
  ASSUME SInv, NEW c \in Clients, SetNameFails(c)
  PROVE  SInv'
<1>1. /\ pc[c] = "set_name" /\ obj[c] # None /\ obj[c] \in Object
      /\ arg[c] \in Work /\ arg[c].po = obj[c].po
      /\ PutDirh(dirh, refs - 1, TRUE) /\ UNCHANGED << dirf, pobj, arg >>
      /\ obj' = [obj EXCEPT ![c] = None] /\ pc' = [pc EXCEPT ![c] = "release"]
      /\ file' = [file EXCEPT ![obj[c].fh.fn] = {}]
  BY DEF SetNameFails, Goto, SInv, Shape, ShapeOf, WorkPcs, Types
<1>2. /\ \A k \in Clients : k # c => pc[k] \notin LockPcs
      /\ dirh \in DirRec /\ dirh.ents = dirf /\ Numbers(dirf) \subseteq dirh.bits
  BY <1>1, Owner DEF LockPcs
<1>3. /\ Coherent' /\ refs' = refs - 1 /\ refs' \in Nat /\ dirh' \in DirRec \cup {None}
      /\ dir' \in [Clients -> [idx : Idxs \cup {-1}, live : BOOLEAN] \cup {None}]
      /\ \A k \in Clients : dir'[k] = None <=> dir[k] = None
  <2>1. dirh.ents = dirf' /\ Numbers(dirf') \subseteq dirh.bits
    BY <1>1, <1>2
  <2>2. refs' = refs - 1
    BY <1>1 DEF PutDirh
  <2>3. refs - 1 \in Nat
    BY <1>1, DirReferenced DEF SInv
  <2> QED BY <1>1, <1>2, <2>1, <2>2, <2>3, Put DEF SInv
<1>4. Types'
  <2>1. file' \in [FileNos -> SUBSET Hashes]
        /\ \A n \in FileNos : Cardinality(file'[n]) <= 2
    <3>1. obj[c].fh.fn \in FileNos
      BY <1>1 DEF Object, Handle
    <3> QED BY <1>1, <3>1, FS_EmptySet DEF SInv, Types
  <2> QED BY <1>1, <1>3, <2>1 DEF SInv, Types, WorkPcs
<1>5. OneStep(c) /\ pc'[c] = "release" /\ obj'[c] = None /\ arg'[c] = arg[c]
  BY <1>1 DEF SInv, Types, OneStep
<1>6. ShapeOf(c)' /\ Unique' /\ OwnerOf(c)'
  BY <1>1, <1>5 DEF SInv, Shape, ShapeOf, WorkPcs, Unique, Entries, OwnerOf, LockPcs
<1>7. PobjMoves(c)
  BY <1>1, <1>5 DEF PobjMoves, Count, ObjRef, CallRef, CallHolds, SInv, Types, Pobj
<1>8. DirMoves(c)
  BY <1>1, <1>3, <1>5 DEF DirMoves, ObjDir, EnumDir, CallDir, SInv, Types
<1> QED BY <1>2, <1>3, <1>4, <1>5, <1>6, <1>7, <1>8, Step

\* ree_fs_remove() after its commit
LEMMA RemoveFileStep ==
  ASSUME SInv, NEW c \in Clients, RemoveFile(c)
  PROVE  SInv'
<1>1. /\ pc[c] = "remove_file" /\ arg[c] \in Work
      /\ obj[c] # None => arg[c].po = obj[c].po /\ obj[c].fh.idx # -1
      /\ PutDirh(dirh, refs - 1, FALSE) /\ UNCHANGED << dirf, pobj, obj, arg >>
      /\ pc' = [pc EXCEPT ![c] = IF obj[c] = None THEN "release" ELSE "close"]
      /\ file' = [file EXCEPT ![arg[c].old] = {}]
  BY DEF RemoveFile, Goto, AfterRemove, SInv, Shape, ShapeOf, WorkPcs
<1>2. /\ \A k \in Clients : k # c => pc[k] \notin LockPcs
      /\ dirh \in DirRec /\ dirh.ents = dirf /\ Numbers(dirf) \subseteq dirh.bits
  BY <1>1, Owner DEF LockPcs
<1>3. /\ Coherent' /\ refs' = refs - 1 /\ refs' \in Nat /\ dirh' \in DirRec \cup {None}
      /\ dir' \in [Clients -> [idx : Idxs \cup {-1}, live : BOOLEAN] \cup {None}]
      /\ \A k \in Clients : dir'[k] = None <=> dir[k] = None
  <2>1. dirh.ents = dirf' /\ Numbers(dirf') \subseteq dirh.bits
    BY <1>1, <1>2
  <2>2. refs' = refs - 1
    BY <1>1 DEF PutDirh
  <2>3. refs - 1 \in Nat
    BY <1>1, DirReferenced DEF SInv
  <2> QED BY <1>1, <1>2, <2>1, <2>2, <2>3, Put DEF SInv
<1>4. Types'
  <2>1. file' \in [FileNos -> SUBSET Hashes]
        /\ \A n \in FileNos : Cardinality(file'[n]) <= 2
    <3>1. arg[c].old \in FileNos
      BY <1>1 DEF Work
    <3> QED BY <1>1, <3>1, FS_EmptySet DEF SInv, Types
  <2> QED BY <1>1, <1>3, <2>1 DEF SInv, Types, WorkPcs
<1>5. /\ OneStep(c) /\ pc'[c] = IF obj[c] = None THEN "release" ELSE "close"
  BY <1>1 DEF SInv, Types, OneStep
<1>6. ShapeOf(c)' /\ Unique' /\ OwnerOf(c)'
  BY <1>1, <1>5 DEF SInv, Shape, ShapeOf, WorkPcs, Unique, Entries, OwnerOf, LockPcs
<1>7. PobjMoves(c)
  BY <1>1, <1>5 DEF PobjMoves, Count, ObjRef, CallRef, CallHolds
<1>8. DirMoves(c)
  BY <1>1, <1>3, <1>5 DEF DirMoves, ObjDir, EnumDir, CallDir, SInv, Types
<1> QED BY <1>2, <1>3, <1>4, <1>5, <1>6, <1>7, <1>8, Step

\* ree_fs_create() up to set_name()
LEMMA FsCreateStep ==
  ASSUME SInv, NEW c \in Clients, FsCreate(c)
  PROVE  SInv'
<1> DEFINE n == Min(FileNos \ Dirh.bits)
           v == NewHash(n, {})
           h == [po |-> arg[c].po, flags |-> arg[c].flags, failed |-> FALSE,
                 fh |-> [idx |-> -1, fn |-> n, hash |-> v, live |-> TRUE]]
           d == [Dirh EXCEPT !.bits = @ \cup {n}]
<1>1. /\ pc[c] = "create" /\ arg[c] \in Work /\ obj[c] = None
      /\ \A k \in Clients : pc[k] \notin LockPcs
      /\ FileNos \ Dirh.bits # {} /\ UNCHANGED << dirf, pobj, arg >>
  BY DEF FsCreate, Locked, LockPcs, SInv, Shape, ShapeOf, WorkPcs
<1>2. /\ Dirh \in DirRec /\ Dirh # None /\ Dirh.ents = dirf
      /\ Numbers(dirf) \subseteq Dirh.bits /\ refs \in Nat
  BY DirhIs DEF SInv, Types
<1>3. n \in FileNos /\ n \notin Dirh.bits
  <2>1. n \in FileNos \ Dirh.bits
    BY <1>1, MinIn, Numerals
  <2> QED BY <2>1
<1>4. v \in Hashes
  BY <1>3, HashLeft DEF SInv
<1>5. CASE /\ file' = [file EXCEPT ![n] = {v}] /\ KeepDirh(d, refs + 1)
           /\ obj' = [obj EXCEPT ![c] = h] /\ Goto(c, "set_name")
  <2>1. d \in DirRec /\ d.ents = dirf /\ d.bits = Dirh.bits \cup {n}
    BY <1>2, <1>3 DEF DirRec
  <2>2. /\ h \in Object /\ h.po = arg[c].po /\ h.fh.idx = -1 /\ h.fh.fn = n /\ h # None
    <3>1. h \in Object /\ h.po = arg[c].po /\ h.fh.idx = -1 /\ h.fh.fn = n
      BY <1>1, <1>3, <1>4 DEF Object, Handle, Work
    <3> HIDE DEF h
    <3> QED BY <3>1, NoneApart
  <2> HIDE DEF d, h, v
  <2>3. /\ Coherent' /\ refs' = refs + 1 /\ refs' \in Nat /\ dirh' = d
        /\ dirh' \in DirRec \cup {None} /\ dirh' # None /\ dir' = dir
    <3>1. refs + 1 \in Nat /\ d.ents = dirf' /\ Numbers(dirf') \subseteq d.bits
      BY <1>1, <1>2, <2>1
    <3> QED BY <1>5, <2>1, <3>1, Keep DEF SInv
  <2>4. Types'
    <3>1. file' \in [FileNos -> SUBSET Hashes]
          /\ \A k \in FileNos : Cardinality(file'[k]) <= 2
      <4>1. Cardinality({v}) = 1
        BY FS_Singleton
      <4> QED BY <1>3, <1>4, <1>5, <4>1 DEF SInv, Types
    <3> QED BY <1>1, <1>5, <2>2, <2>3, <3>1 DEF SInv, Types, WorkPcs, Goto
  <2>5. OneStep(c) /\ pc'[c] = "set_name" /\ obj'[c] = h /\ arg'[c] = arg[c]
    BY <1>1, <1>5 DEF SInv, Types, OneStep, Goto
  <2>6. ShapeOf(c)' /\ Unique'
    BY <1>1, <2>2, <2>5 DEF SInv, Shape, ShapeOf, WorkPcs, Unique, Entries
  <2>7. OwnerOf(c)'
    BY <1>1, <1>2, <1>3, <2>1, <2>2, <2>3, <2>5 DEF OwnerOf, Numbers, Entries
  <2>8. PobjMoves(c)
    BY <1>1, <2>2, <2>5 DEF PobjMoves, Count, ObjRef, CallRef, CallHolds, SInv, Types, Pobj
  <2>9. DirMoves(c)
    BY <1>1, <1>2, <2>2, <2>3, <2>5 DEF DirMoves, ObjDir, EnumDir, CallDir
  <2> QED BY <1>1, <2>3, <2>4, <2>5, <2>6, <2>7, <2>8, <2>9, Step
<1>6. CASE /\ file' = [file EXCEPT ![n] = {}] /\ PutDirh(Dirh, refs, TRUE)
           /\ Goto(c, "release") /\ UNCHANGED obj
  <2>1. /\ Coherent' /\ refs' = refs /\ refs' \in Nat /\ dirh' \in DirRec \cup {None}
        /\ dir' \in [Clients -> [idx : Idxs \cup {-1}, live : BOOLEAN] \cup {None}]
        /\ \A k \in Clients : dir'[k] = None <=> dir[k] = None
    <3>1. Dirh.ents = dirf' /\ Numbers(dirf') \subseteq Dirh.bits
      BY <1>1, <1>2
    <3>2. refs' = refs
      BY <1>6 DEF PutDirh
    <3> QED BY <1>2, <1>6, <3>1, <3>2, Put DEF SInv
  <2>2. Types'
    <3>1. file' \in [FileNos -> SUBSET Hashes]
          /\ \A k \in FileNos : Cardinality(file'[k]) <= 2
      BY <1>3, <1>6, FS_EmptySet DEF SInv, Types
    <3> QED BY <1>1, <1>6, <2>1, <3>1 DEF SInv, Types, WorkPcs, Goto
  <2>3. OneStep(c) /\ pc'[c] = "release" /\ obj'[c] = None /\ arg'[c] = arg[c]
    BY <1>1, <1>6 DEF SInv, Types, OneStep, Goto
  <2>4. ShapeOf(c)' /\ Unique' /\ OwnerOf(c)'
    BY <1>1, <2>3 DEF SInv, Shape, ShapeOf, WorkPcs, Unique, Entries, OwnerOf, LockPcs
  <2>5. PobjMoves(c)
    BY <1>1, <2>3 DEF PobjMoves, Count, ObjRef, CallRef, CallHolds
  <2>6. DirMoves(c)
    BY <1>1, <2>1, <2>3 DEF DirMoves, ObjDir, EnumDir, CallDir
  <2> QED BY <1>1, <2>1, <2>2, <2>3, <2>4, <2>5, <2>6, Step
<1> QED BY <1>5, <1>6 DEF FsCreate

\* set_name()
LEMMA SetNameStep ==
  ASSUME SInv, NEW c \in Clients, SetName(c)
  PROVE  SInv'
<1> DEFINE fh == obj[c].fh
           old == Find(dirf, NameOf(c))
           i == IF old # {} THEN Min(old) ELSE EmptyIdx(dirf)
           entry == [name |-> NameOf(c), fn |-> fh.fn, hash |-> fh.hash]
           d == [dirh EXCEPT !.ents[i] = entry]
           was == IF old # {} THEN dirf[i].fn ELSE 0
           to == IF old # {} THEN "remove_old" ELSE "created"
<1>1. /\ pc[c] = "set_name" /\ obj[c] # None /\ obj[c] \in Object
      /\ arg[c] \in Work /\ arg[c].po = obj[c].po /\ arg[c].po \in Pobjs
      /\ fh \in Handle /\ fh.fn \in dirh.bits \ Numbers(dirf)
  BY DEF SetName, SInv, Shape, ShapeOf, WorkPcs, Types, Object, Work, Mutex, OwnerOf
<1>2. /\ \A k \in Clients : k # c => pc[k] \notin LockPcs
      /\ dirh \in DirRec /\ dirh.ents = dirf /\ Numbers(dirf) \subseteq dirh.bits
      /\ Dirh = dirh
  BY <1>1, Owner DEF LockPcs
<1>3. /\ dirf' = [dirf EXCEPT ![i] = entry] /\ KeepDirh(d, refs)
      /\ obj' = [obj EXCEPT ![c].fh.idx = i] /\ pc' = [pc EXCEPT ![c] = to]
      /\ arg' = [arg EXCEPT ![c].old = was] /\ UNCHANGED << file, pobj >>
  BY <1>2 DEF SetName, CommitEntry, Goto
<1>4. NameOf(c) \in Names
  <2>1. pobj[obj[c].po] \in Pobj
    BY <1>1, Referenced DEF SInv
  <2> QED BY <1>1, <2>1 DEF NameOf, Pobj
<1>5. entry \in Entry /\ entry # None
  <2>1. entry \in Entry
    BY <1>1, <1>4 DEF Entry, Handle
  <2> HIDE DEF entry
  <2> QED BY <2>1, NoneApart
<1>6. i \in Idxs /\ i # -1 /\ (old # {} => i \in old /\ dirf[i] \in Entry /\ dirf[i] # None)
      /\ (old = {} => dirf[i] = None)
  <2>1. CASE old # {}
    <3>1. i \in old /\ i \in Entries(dirf)
      BY <2>1, FindIs DEF SInv
    <3> QED BY <2>1, <3>1, FindIs, Numerals DEF SInv
  <2>2. CASE old = {}
    <3>1. i \in Idxs /\ dirf[i] = None
      BY <1>4, <2>2, FreeIdx DEF SInv
    <3> QED BY <2>2, <3>1, Numerals
  <2> QED BY <2>1, <2>2
<1>7. /\ entry.name = NameOf(c) /\ entry.fn = fh.fn
      /\ \A j \in old : j \in Entries(dirf) /\ dirf[j].name = NameOf(c)
      /\ \A j \in Entries(dirf) : dirf[j].name = NameOf(c) => j \in old
  BY DEF Find
<1>8. was \in FileNos
  BY <1>6, Numerals DEF Entry
<1> HIDE DEF i, entry, to, was, d
<1>9. /\ dirf' \in [Idxs -> Entry \cup {None}] /\ dirf'[i] = entry
      /\ \A j \in Idxs : j # i => dirf'[j] = dirf[j]
  BY <1>3, <1>5, <1>6 DEF SInv, Types
<1>10. Unique'
  <2> SUFFICES ASSUME NEW j \in Idxs, NEW k \in Idxs, j # k, dirf'[j] # None, dirf'[k] # None
               PROVE  dirf'[j].name # dirf'[k].name /\ dirf'[j].fn # dirf'[k].fn
    BY DEF Unique, Entries
  <2>1. ASSUME NEW l \in Idxs, l # i, dirf[l] # None
        PROVE  dirf[l].name # entry.name /\ dirf[l].fn # entry.fn
    <3>1. l \in Entries(dirf)
      BY <2>1 DEF Entries
    <3>2. dirf[l].fn # entry.fn
      BY <1>1, <1>7, <3>1 DEF Numbers
    <3>3. ASSUME dirf[l].name = NameOf(c) PROVE FALSE
      <4>1. l \in old /\ old # {}
        BY <1>7, <3>1, <3>3
      <4>2. i \in Entries(dirf) /\ dirf[i].name = NameOf(c)
        BY <1>6, <1>7, <4>1
      <4> QED BY <2>1, <3>1, <3>3, <4>2 DEF SInv, Unique
    <3> QED BY <1>7, <3>2, <3>3
  <2>2. CASE j = i
    BY <1>9, <2>1, <2>2
  <2>3. CASE k = i
    BY <1>9, <2>1, <2>3
  <2>4. CASE j # i /\ k # i
    BY <1>9, <2>4 DEF SInv, Unique, Entries
  <2> QED BY <2>2, <2>3, <2>4
<1>11. d \in DirRec /\ d.ents = dirf' /\ d.bits = dirh.bits
  BY <1>2, <1>3, <1>5, <1>6 DEF d, DirRec
<1>12. Numbers(dirf)' \subseteq dirh.bits
  <2> SUFFICES ASSUME NEW j \in Idxs, dirf'[j] # None PROVE dirf'[j].fn \in dirh.bits
    BY DEF Numbers, Entries
  <2>1. CASE j = i
    BY <1>1, <1>7, <1>9, <2>1
  <2>2. CASE j # i
    BY <1>2, <1>9, <2>2 DEF Numbers, Entries
  <2> QED BY <2>1, <2>2
<1>13. /\ Coherent' /\ refs' = refs /\ refs' \in Nat /\ dirh' = d /\ dirh' # None
       /\ dirh' \in DirRec \cup {None} /\ dir' = dir
  <2>1. refs \in Nat /\ Numbers(dirf') \subseteq d.bits
    BY <1>11, <1>12 DEF SInv, Types, Numbers, Entries
  <2> QED BY <1>3, <1>11, <2>1, Keep DEF SInv
<1>14. /\ obj' \in [Clients -> Object \cup {None}] /\ obj'[c] # None
       /\ obj'[c].po = obj[c].po /\ obj'[c].fh.idx = i
       /\ \A k \in Clients : k # c => obj'[k] = obj[k]
  <2> DEFINE new == [obj[c] EXCEPT !.fh.idx = i]
  <2>1. obj' = [obj EXCEPT ![c] = new] /\ obj \in [Clients -> Object \cup {None}]
    BY <1>3 DEF SInv, Types
  <2>2. new \in Object /\ new.po = obj[c].po /\ new.fh.idx = i
    BY <1>1, <1>6 DEF Object, Handle
  <2> HIDE DEF new
  <2> QED BY <2>1, <2>2, NoneApart
<1>15. /\ arg' \in [Clients -> Work \cup Names \cup {None}] /\ arg'[c] \in Work
       /\ arg'[c].po = arg[c].po /\ arg'[c].old = was
       /\ \A k \in Clients : k # c => arg'[k] = arg[k]
  <2> DEFINE new == [arg[c] EXCEPT !.old = was]
  <2>1. arg' = [arg EXCEPT ![c] = new] /\ arg \in [Clients -> Work \cup Names \cup {None}]
    BY <1>3 DEF SInv, Types
  <2>2. new \in Work /\ new.po = arg[c].po /\ new.old = was
    BY <1>1, <1>8 DEF Work
  <2> HIDE DEF new
  <2> QED BY <2>1, <2>2
<1>16. to \in {"remove_old", "created"} /\ (to = "remove_old" <=> old # {})
  BY DEF to
<1>17. Types'
  BY <1>3, <1>9, <1>13, <1>14, <1>15, <1>16 DEF SInv, Types, WorkPcs
<1>18. OneStep(c) /\ pc'[c] = to
  BY <1>3, <1>14, <1>15 DEF SInv, Types, OneStep
<1>19. ShapeOf(c)'
  BY <1>1, <1>6, <1>14, <1>15, <1>16, <1>18 DEF SInv, ShapeOf, WorkPcs
<1>20. OwnerOf(c)'
  <2>1. ASSUME to = "remove_old" PROVE was \notin Numbers(dirf)'
    <3>1. i \in Entries(dirf) /\ was = dirf[i].fn
      BY <1>6, <1>7, <1>16, <2>1 DEF was
    <3>2. was # entry.fn
      BY <1>1, <1>7, <3>1 DEF Numbers
    <3>3. \A j \in Idxs : dirf'[j] # None => dirf'[j].fn # was
      <4> TAKE j \in Idxs
      <4>1. CASE j = i
        BY <1>9, <3>2, <4>1
      <4>2. CASE j # i
        BY <1>9, <3>1, <4>2 DEF SInv, Unique, Entries
      <4> QED BY <4>1, <4>2
    <3> QED BY <3>3 DEF Numbers, Entries
  <2> QED BY <1>13, <1>15, <1>16, <1>18, <2>1 DEF OwnerOf
<1>21. PobjMoves(c)
  BY <1>1, <1>3, <1>14, <1>15, <1>16, <1>18 DEF PobjMoves, Count, ObjRef, CallRef, CallHolds
<1>22. DirMoves(c)
  BY <1>1, <1>13, <1>14, <1>16, <1>18 DEF DirMoves, ObjDir, EnumDir, CallDir
<1> QED BY <1>2, <1>10, <1>13, <1>17, <1>18, <1>19, <1>20, <1>21, <1>22, Step

\* The directory with one entry changed.
LEMMA EntrySet ==
  ASSUME SInv, NEW i \in Idxs, NEW e \in Entry \cup {None},
         dirf' \in [Idxs -> Entry \cup {None}], dirf'[i] = e,
         \A j \in Idxs : j # i => dirf'[j] = dirf[j],
         e # None => \A j \in Idxs : j # i /\ dirf[j] # None =>
                       dirf[j].name # e.name /\ dirf[j].fn # e.fn
  PROVE  /\ Unique'
         /\ \A bits : (\A j \in Idxs : j # i /\ dirf[j] # None => dirf[j].fn \in bits)
                      /\ (e # None => e.fn \in bits) => Numbers(dirf') \subseteq bits
<1>1. Unique'
  <2> SUFFICES ASSUME NEW j \in Idxs, NEW k \in Idxs, j # k, dirf'[j] # None, dirf'[k] # None
               PROVE  dirf'[j].name # dirf'[k].name /\ dirf'[j].fn # dirf'[k].fn
    BY DEF Unique, Entries
  <2>1. CASE j = i \/ k = i
    BY <2>1
  <2>2. CASE j # i /\ k # i
    BY <2>2 DEF SInv, Unique, Entries
  <2> QED BY <2>1, <2>2
<1>2. ASSUME NEW bits, \A j \in Idxs : j # i /\ dirf[j] # None => dirf[j].fn \in bits,
             e # None => e.fn \in bits
      PROVE  Numbers(dirf') \subseteq bits
  <2> SUFFICES ASSUME NEW j \in Idxs, dirf'[j] # None PROVE dirf'[j].fn \in bits
    BY DEF Numbers, Entries
  <2> QED BY <1>2
<1> QED BY <1>1, <1>2

\* The commit at the end of a write, and put_dirh()
LEMMA CommitStep ==
  ASSUME SInv, NEW c \in Clients, Commit(c)
  PROVE  SInv'
<1> DEFINE i == obj[c].fh.idx
           entry == [dirf[i] EXCEPT !.hash = obj[c].fh.hash]
           d == [dirh EXCEPT !.ents[i] = entry]
<1>1. /\ pc[c] = "commit" /\ obj[c] # None /\ obj[c] \in Object
      /\ i \in Idxs /\ obj[c].fh.hash \in Hashes
      /\ pc' = [pc EXCEPT ![c] = "idle"] /\ UNCHANGED << file, pobj, arg >>
  BY DEF Commit, SInv, Shape, ShapeOf, Types, Object, Handle, Goto
<1>2. /\ \A k \in Clients : k # c => pc[k] \notin LockPcs
      /\ dirh \in DirRec /\ dirh.ents = dirf /\ Numbers(dirf) \subseteq dirh.bits
      /\ Dirh = dirh /\ dirf \in [Idxs -> Entry \cup {None}] /\ dirh # None
  BY <1>1, Owner DEF LockPcs, SInv, Types
<1>3. refs - 1 \in Nat
  BY <1>1, DirReferenced DEF SInv
<1>4. /\ obj' \in [Clients -> Object \cup {None}] /\ obj'[c] # None
      /\ obj'[c].po = obj[c].po /\ obj'[c].fh = obj[c].fh
      /\ \A k \in Clients : k # c => obj'[k] = obj[k]
  <2>1. CASE UNCHANGED obj
    BY <1>1, <2>1 DEF SInv, Types
  <2>2. CASE obj' = [obj EXCEPT ![c].failed = TRUE]
    <3> DEFINE new == [obj[c] EXCEPT !.failed = TRUE]
    <3>1. obj' = [obj EXCEPT ![c] = new] /\ obj \in [Clients -> Object \cup {None}]
      BY <2>2 DEF SInv, Types
    <3>2. new \in Object /\ new.po = obj[c].po /\ new.fh = obj[c].fh
      BY <1>1 DEF Object
    <3> HIDE DEF new
    <3> QED BY <3>1, <3>2, NoneApart
  <2> QED BY <2>1, <2>2 DEF Commit
<1>5. OneStep(c) /\ pc'[c] = "idle"
  BY <1>1, <1>4 DEF SInv, Types, OneStep
<1>6. ShapeOf(c)' /\ OwnerOf(c)'
  BY <1>1, <1>4, <1>5 DEF SInv, Shape, ShapeOf, WorkPcs, OwnerOf, LockPcs
<1>7. PobjMoves(c)
  BY <1>1, <1>4, <1>5 DEF PobjMoves, Count, ObjRef, CallRef, CallHolds
<1>8. /\ Unique' /\ Coherent' /\ refs' = refs - 1 /\ dirh' \in DirRec \cup {None}
      /\ dir' \in [Clients -> [idx : Idxs \cup {-1}, live : BOOLEAN] \cup {None}]
      /\ \A k \in Clients : dir'[k] = None <=> dir[k] = None
      /\ dirf' \in [Idxs -> Entry \cup {None}]
  <2>1. CASE /\ CommitEntry(i, entry) /\ PutDirh(d, refs - 1, FALSE)
    <3>1. /\ dirf[i] = None => entry = None
          /\ dirf[i] # None => /\ entry \in Entry /\ entry # None
                               /\ entry.name = dirf[i].name /\ entry.fn = dirf[i].fn
      <4>1. CASE dirf[i] = None
        BY <4>1 DEF None
      <4>2. CASE dirf[i] # None
        <5>1. /\ entry \in Entry
              /\ entry.name = dirf[i].name /\ entry.fn = dirf[i].fn
          BY <1>1, <1>2, <4>2 DEF Entry
        <5> HIDE DEF entry
        <5> QED BY <4>2, <5>1, NoneApart
      <4> QED BY <4>1, <4>2
    <3>2. dirf' = [dirf EXCEPT ![i] = entry]
      BY <1>2, <2>1 DEF CommitEntry
    <3> HIDE DEF entry
    <3>3. /\ dirf' \in [Idxs -> Entry \cup {None}] /\ dirf'[i] = entry
          /\ \A j \in Idxs : j # i => dirf'[j] = dirf[j]
      BY <1>1, <1>2, <3>1, <3>2
    <3>4. entry # None => \A j \in Idxs : j # i /\ dirf[j] # None =>
                            dirf[j].name # entry.name /\ dirf[j].fn # entry.fn
      BY <1>1, <3>1 DEF SInv, Unique, Entries
    <3>5. \A j \in Idxs : dirf[j] # None => dirf[j].fn \in dirh.bits
      BY <1>2 DEF Numbers, Entries
    <3>6. Unique' /\ Numbers(dirf') \subseteq dirh.bits
      BY <1>1, <3>1, <3>3, <3>4, <3>5, EntrySet
    <3>7. d \in DirRec /\ d.ents = dirf' /\ d.bits = dirh.bits
      BY <1>1, <1>2, <3>1, <3>2 DEF DirRec
    <3>8. refs' = refs - 1
      BY <2>1 DEF PutDirh
    <3> HIDE DEF d
    <3> QED BY <1>2, <1>3, <2>1, <3>3, <3>6, <3>7, <3>8, NoneApart, Put DEF SInv
  <2>2. CASE PutDirh(dirh, refs - 1, TRUE) /\ UNCHANGED dirf
    <3>1. dirh.ents = dirf' /\ Numbers(dirf') \subseteq dirh.bits
      BY <1>2, <2>2
    <3>2. refs' = refs - 1
      BY <2>2 DEF PutDirh
    <3>3. Unique'
      BY <2>2 DEF SInv, Unique, Entries
    <3> QED BY <1>2, <1>3, <2>2, <3>1, <3>2, <3>3, Put DEF SInv
  <2> QED BY <1>2, <2>1, <2>2 DEF Commit
<1>9. Types'
  BY <1>1, <1>3, <1>4, <1>8 DEF SInv, Types, WorkPcs
<1>10. DirMoves(c)
  BY <1>1, <1>4, <1>5, <1>8 DEF DirMoves, ObjDir, EnumDir, CallDir, SInv, Types
<1> QED BY <1>2, <1>5, <1>6, <1>7, <1>8, <1>9, <1>10, Step

\* ree_fs_write(), ree_fs_truncate() up to the sync of the file
LEMMA WriteStep ==
  ASSUME SInv, NEW c \in Clients, Write(c)
  PROVE  SInv'
<1> DEFINE fh == obj[c].fh
           base == file[fh.fn] \cap {fh.hash}
           h == NewHash(fh.fn, base)
<1>1. /\ pc[c] = "idle" /\ obj[c] # None /\ obj[c] \in Object /\ fh \in Handle
      /\ fh.fn \in FileNos /\ fh.idx # -1 /\ \A k \in Clients : pc[k] \notin LockPcs
      /\ UNCHANGED << dirf, pobj, arg >>
  BY DEF Write, Usable, Locked, LockPcs, SInv, Shape, ShapeOf, Types, Object, Handle
<1>2. /\ Dirh \in DirRec /\ Dirh # None /\ Dirh.ents = dirf' /\ refs \in Nat
      /\ Numbers(dirf') \subseteq Dirh.bits
  BY <1>1, DirhIs DEF SInv, Types
<1>3. /\ base \subseteq Hashes /\ Cardinality(base) <= 2 /\ h \in Hashes
      /\ Cardinality(base \cup {h}) <= 2
  <2>1. base \in SUBSET HandleHashes(fh.fn)
    BY <1>1 DEF HandleHashes
  <2>2. h \in Hashes
    BY <1>1, <2>1, HashLeft DEF SInv
  <2>3. base = {} \/ base = {fh.hash}
    OBVIOUS
  <2>4. IsFiniteSet({fh.hash}) /\ IsFiniteSet({})
        /\ Cardinality({fh.hash}) = 1 /\ Cardinality({}) = 0
    BY FS_Singleton, FS_EmptySet
  <2>5. IsFiniteSet(base) /\ Cardinality(base) \in Nat /\ Cardinality(base) <= 1
    <3> HIDE DEF base
    <3> QED BY <2>3, <2>4
  <2>6. Cardinality(base \cup {h}) = IF h \in base THEN Cardinality(base)
                                     ELSE Cardinality(base) + 1
    <3> HIDE DEF base, h
    <3> QED BY <2>5, FS_AddElement
  <2>7. base \subseteq Hashes
    BY <1>1 DEF SInv, Types
  <2> HIDE DEF base, h
  <2> QED BY <2>2, <2>5, <2>6, <2>7
<1> HIDE DEF base, h
<1>4. CASE /\ file' = [file EXCEPT ![fh.fn] = base \cup {h}]
           /\ obj' = [obj EXCEPT ![c].fh.hash = h]
           /\ KeepDirh(Dirh, refs + 1) /\ Goto(c, "commit")
  <2>1. /\ Coherent' /\ refs' = refs + 1 /\ refs' \in Nat /\ dirh' # None
        /\ dirh' \in DirRec \cup {None} /\ dir' = dir
    <3>1. refs + 1 \in Nat
      BY <1>2
    <3> QED BY <1>2, <1>4, <3>1, Keep DEF SInv
  <2>2. /\ obj' \in [Clients -> Object \cup {None}] /\ obj'[c] # None
        /\ obj'[c].po = obj[c].po /\ obj'[c].fh.idx = fh.idx
        /\ \A k \in Clients : k # c => obj'[k] = obj[k]
    <3> DEFINE new == [obj[c] EXCEPT !.fh.hash = h]
    <3>1. obj' = [obj EXCEPT ![c] = new] /\ obj \in [Clients -> Object \cup {None}]
      BY <1>4 DEF SInv, Types
    <3>2. new \in Object /\ new.po = obj[c].po /\ new.fh.idx = fh.idx
      BY <1>1, <1>3 DEF Object, Handle
    <3> HIDE DEF new
    <3> QED BY <3>1, <3>2, NoneApart
  <2>3. Types'
    <3>1. file' \in [FileNos -> SUBSET Hashes]
          /\ \A k \in FileNos : Cardinality(file'[k]) <= 2
      BY <1>1, <1>3, <1>4 DEF SInv, Types
    <3> QED BY <1>1, <1>4, <2>1, <2>2, <3>1 DEF SInv, Types, WorkPcs, Goto
  <2>4. OneStep(c) /\ pc'[c] = "commit"
    BY <1>1, <1>4, <2>2 DEF SInv, Types, OneStep, Goto
  <2>5. ShapeOf(c)' /\ Unique' /\ OwnerOf(c)'
    BY <1>1, <2>1, <2>2, <2>4 DEF SInv, ShapeOf, WorkPcs, Unique, Entries, OwnerOf
  <2>6. PobjMoves(c)
    BY <1>1, <2>2, <2>4 DEF PobjMoves, Count, ObjRef, CallRef, CallHolds
  <2>7. DirMoves(c)
    BY <1>1, <1>2, <2>1, <2>2, <2>4 DEF DirMoves, ObjDir, EnumDir, CallDir
  <2> QED BY <1>1, <2>1, <2>3, <2>4, <2>5, <2>6, <2>7, Step
<1>5. CASE /\ file' = [file EXCEPT ![fh.fn] = base]
           /\ obj' = [obj EXCEPT ![c].fh.live = FALSE, ![c].failed = TRUE]
           /\ PutDirh(Dirh, refs, TRUE) /\ UNCHANGED pc
  <2>1. /\ Coherent' /\ refs' = refs /\ refs' \in Nat /\ dirh' \in DirRec \cup {None}
        /\ dir' \in [Clients -> [idx : Idxs \cup {-1}, live : BOOLEAN] \cup {None}]
        /\ \A k \in Clients : dir'[k] = None <=> dir[k] = None
    <3>1. refs' = refs
      BY <1>5 DEF PutDirh
    <3> QED BY <1>2, <1>5, <3>1, Put DEF SInv
  <2>2. /\ obj' \in [Clients -> Object \cup {None}] /\ obj'[c] # None
        /\ obj'[c].po = obj[c].po /\ obj'[c].fh.idx = fh.idx
        /\ \A k \in Clients : k # c => obj'[k] = obj[k]
    <3> DEFINE new == [obj[c] EXCEPT !.fh.live = FALSE, !.failed = TRUE]
    <3>1. obj' = [obj EXCEPT ![c] = new] /\ obj \in [Clients -> Object \cup {None}]
      BY <1>5 DEF SInv, Types
    <3>2. new \in Object /\ new.po = obj[c].po /\ new.fh.idx = fh.idx
      BY <1>1 DEF Object, Handle
    <3> HIDE DEF new
    <3> QED BY <3>1, <3>2, NoneApart
  <2>3. Types'
    <3>1. file' \in [FileNos -> SUBSET Hashes]
          /\ \A k \in FileNos : Cardinality(file'[k]) <= 2
      BY <1>1, <1>3, <1>5 DEF SInv, Types
    <3> QED BY <1>1, <1>5, <2>1, <2>2, <3>1 DEF SInv, Types
  <2>4. OneStep(c) /\ pc'[c] = "idle"
    BY <1>1, <1>5, <2>2 DEF OneStep
  <2>5. ShapeOf(c)' /\ Unique' /\ OwnerOf(c)'
    BY <1>1, <2>2, <2>4 DEF SInv, ShapeOf, WorkPcs, Unique, Entries, OwnerOf, LockPcs
  <2>6. PobjMoves(c)
    BY <1>1, <2>2, <2>4 DEF PobjMoves, Count, ObjRef, CallRef, CallHolds
  <2>7. DirMoves(c)
    BY <1>1, <2>1, <2>2, <2>4 DEF DirMoves, ObjDir, EnumDir, CallDir
  <2> QED BY <1>1, <2>1, <2>3, <2>4, <2>5, <2>6, <2>7, Step
<1> QED BY <1>4, <1>5 DEF Write, base, h

\* ree_fs_remove() up to its commit
LEMMA FsRemoveStep ==
  ASSUME SInv, NEW c \in Clients, FsRemove(c)
  PROVE  SInv'
<1> DEFINE idx == Find(dirf, NameOf(c))
           i == Min(idx)
           d == [ents |-> [dirf EXCEPT ![i] = None], bits |-> Dirh.bits \ {dirf[i].fn}]
<1>1. /\ pc[c] = "remove" /\ arg[c] \in Work
      /\ obj[c] # None => arg[c].po = obj[c].po /\ obj[c].fh.idx # -1
      /\ \A k \in Clients : pc[k] \notin LockPcs
      /\ UNCHANGED << file, pobj, obj >>
  BY DEF FsRemove, Locked, LockPcs, SInv, Shape, ShapeOf, WorkPcs
<1>2. /\ Dirh \in DirRec /\ Dirh # None /\ Dirh.ents = dirf /\ refs \in Nat
      /\ Numbers(dirf) \subseteq Dirh.bits /\ dirf \in [Idxs -> Entry \cup {None}]
  BY DirhIs DEF SInv, Types
<1>3. CASE /\ idx # {} /\ CommitEntry(i, None) /\ KeepDirh(d, refs + 1)
           /\ arg' = [arg EXCEPT ![c].old = dirf[i].fn] /\ Goto(c, "remove_file")
  <2>1. i \in Idxs /\ i \in Entries(dirf) /\ dirf[i] \in Entry /\ dirf[i].fn \in FileNos
    BY <1>3, FindIs DEF SInv, Entry
  <2>2. /\ dirf' = [dirf EXCEPT ![i] = None] /\ dirf' \in [Idxs -> Entry \cup {None}]
        /\ dirf'[i] = None /\ \A j \in Idxs : j # i => dirf'[j] = dirf[j]
    BY <1>2, <1>3, <2>1 DEF CommitEntry
  <2>3. d \in DirRec /\ d.ents = dirf' /\ d.bits = Dirh.bits \ {dirf[i].fn}
    BY <1>2, <2>2 DEF DirRec
  <2>4. \A j \in Idxs : j # i /\ dirf[j] # None => dirf[j].fn \in Dirh.bits \ {dirf[i].fn}
    BY <1>2, <2>1 DEF SInv, Unique, Numbers, Entries
  <2> HIDE DEF i, d
  <2>5. Unique' /\ Numbers(dirf') \subseteq d.bits
    BY <2>1, <2>2, <2>3, <2>4, EntrySet
  <2>6. /\ Coherent' /\ refs' = refs + 1 /\ refs' \in Nat /\ dirh' # None
        /\ dirh' \in DirRec \cup {None} /\ dir' = dir
    <3>1. refs + 1 \in Nat
      BY <1>2
    <3> QED BY <1>3, <2>3, <2>5, <3>1, Keep DEF SInv
  <2>7. /\ arg' \in [Clients -> Work \cup Names \cup {None}] /\ arg'[c] \in Work
        /\ arg'[c].po = arg[c].po /\ arg'[c].old = dirf[i].fn
        /\ \A k \in Clients : k # c => arg'[k] = arg[k]
    <3> DEFINE new == [arg[c] EXCEPT !.old = dirf[i].fn]
    <3>1. arg' = [arg EXCEPT ![c] = new] /\ arg \in [Clients -> Work \cup Names \cup {None}]
      BY <1>3 DEF SInv, Types
    <3>2. new \in Work /\ new.po = arg[c].po /\ new.old = dirf[i].fn
      BY <1>1, <2>1 DEF Work
    <3> HIDE DEF new
    <3> QED BY <3>1, <3>2
  <2>8. Types'
    BY <1>1, <1>3, <2>2, <2>6, <2>7 DEF SInv, Types, WorkPcs, Goto
  <2>9. OneStep(c) /\ pc'[c] = "remove_file"
    BY <1>1, <1>3, <2>7 DEF SInv, Types, OneStep, Goto
  <2>10. ShapeOf(c)'
    BY <1>1, <2>7, <2>9 DEF SInv, ShapeOf, WorkPcs
  <2>11. OwnerOf(c)'
    <3>1. Numbers(dirf) ' = Numbers(dirf')
      BY DEF Numbers, Entries
    <3> QED BY <2>3, <2>5, <2>6, <2>7, <2>9, <3>1 DEF OwnerOf
  <2>12. PobjMoves(c)
    BY <1>1, <2>7, <2>9 DEF PobjMoves, Count, ObjRef, CallRef, CallHolds
  <2>13. DirMoves(c)
    BY <1>1, <1>2, <2>6, <2>9 DEF DirMoves, ObjDir, EnumDir, CallDir
  <2> QED BY <1>1, <2>5, <2>6, <2>8, <2>9, <2>10, <2>11, <2>12, <2>13, Step
<1>4. CASE PutDirh(Dirh, refs, TRUE) /\ Goto(c, AfterRemove(c)) /\ UNCHANGED << dirf, arg >>
  <2>1. /\ Coherent' /\ refs' = refs /\ refs' \in Nat /\ dirh' \in DirRec \cup {None}
        /\ dir' \in [Clients -> [idx : Idxs \cup {-1}, live : BOOLEAN] \cup {None}]
        /\ \A k \in Clients : dir'[k] = None <=> dir[k] = None
    <3>1. Dirh.ents = dirf' /\ Numbers(dirf') \subseteq Dirh.bits
      BY <1>2, <1>4
    <3>2. refs' = refs
      BY <1>4 DEF PutDirh
    <3> QED BY <1>2, <1>4, <3>1, <3>2, Put DEF SInv
  <2>2. pc' = [pc EXCEPT ![c] = IF obj[c] = None THEN "release" ELSE "close"]
    BY <1>4 DEF Goto, AfterRemove
  <2>3. Types'
    BY <1>1, <1>4, <2>1, <2>2 DEF SInv, Types, WorkPcs
  <2>4. OneStep(c) /\ pc'[c] = IF obj[c] = None THEN "release" ELSE "close"
    BY <1>1, <1>4, <2>2 DEF SInv, Types, OneStep
  <2>5. ShapeOf(c)' /\ Unique' /\ OwnerOf(c)'
    BY <1>1, <1>4, <2>4 DEF SInv, ShapeOf, WorkPcs, Unique, Entries, OwnerOf, LockPcs
  <2>6. PobjMoves(c)
    BY <1>1, <1>4, <2>4 DEF PobjMoves, Count, ObjRef, CallRef, CallHolds
  <2>7. DirMoves(c)
    BY <1>1, <2>1, <2>4 DEF DirMoves, ObjDir, EnumDir, CallDir
  <2> QED BY <1>1, <2>1, <2>3, <2>4, <2>5, <2>6, <2>7, Step
<1> QED BY <1>2, <1>3, <1>4 DEF FsRemove

\* ree_fs_rename()
LEMMA FsRenameStep ==
  ASSUME SInv, NEW c \in Clients, FsRename(c)
  PROVE  SInv'
<1> DEFINE idx == Find(dirf, pobj[obj[c].po].name)
           i == Min(idx)
           entry == [dirf[i] EXCEPT !.name = NameOf(c)]
           d == [Dirh EXCEPT !.ents[i] = entry]
<1>1. /\ pc[c] = "rename" /\ arg[c] \in Work /\ obj[c] # None /\ obj[c].fh.idx # -1
      /\ \A k \in Clients : pc[k] \notin LockPcs
      /\ UNCHANGED << file, pobj, obj, arg >>
  BY DEF FsRename, Locked, LockPcs, SInv, Shape, ShapeOf, WorkPcs
<1>2. /\ Dirh \in DirRec /\ Dirh # None /\ Dirh.ents = dirf /\ refs \in Nat
      /\ Numbers(dirf) \subseteq Dirh.bits /\ dirf \in [Idxs -> Entry \cup {None}]
  BY DirhIs DEF SInv, Types
<1>3. NameOf(c) \in Names
  <2>1. arg[c].po \in Pobjs /\ CallHolds(c, arg[c].po)
    BY <1>1 DEF CallHolds, Work
  <2>2. pobj[arg[c].po] \in Pobj
    BY <2>1, Referenced DEF SInv
  <2> QED BY <2>2 DEF NameOf, Pobj
<1>4. /\ \E to \in {"prename", "release"} : pc' = [pc EXCEPT ![c] = to]
      /\ Unique' /\ Coherent' /\ refs' = refs /\ dirh' \in DirRec \cup {None}
      /\ dir' \in [Clients -> [idx : Idxs \cup {-1}, live : BOOLEAN] \cup {None}]
      /\ \A k \in Clients : dir'[k] = None <=> dir[k] = None
      /\ dirf' \in [Idxs -> Entry \cup {None}]
  <2>1. CASE /\ idx # {} /\ Find(dirf, NameOf(c)) = {} /\ CommitEntry(i, entry)
             /\ PutDirh(d, refs, FALSE) /\ Goto(c, "prename")
    <3>1. i \in Idxs /\ i \in Entries(dirf) /\ dirf[i] \in Entry
      BY <2>1, FindIs DEF SInv
    <3>2. entry \in Entry /\ entry.name = NameOf(c) /\ entry.fn = dirf[i].fn
      BY <1>3, <3>1 DEF Entry
    <3>3. dirf' = [dirf EXCEPT ![i] = entry]
      BY <1>2, <2>1 DEF CommitEntry
    <3>4. d \in DirRec /\ d.ents = dirf' /\ d.bits = Dirh.bits /\ d # None
      <4>1. d \in DirRec /\ d.ents = dirf' /\ d.bits = Dirh.bits
        BY <1>2, <3>1, <3>2, <3>3 DEF DirRec
      <4> HIDE DEF d
      <4> QED BY <4>1, NoneApart
    <3> HIDE DEF entry, d, i
    <3>5. /\ dirf' \in [Idxs -> Entry \cup {None}] /\ dirf'[i] = entry
          /\ \A j \in Idxs : j # i => dirf'[j] = dirf[j]
      BY <1>2, <3>1, <3>2, <3>3
    <3>6. \A j \in Idxs : j # i /\ dirf[j] # None =>
            dirf[j].name # entry.name /\ dirf[j].fn # entry.fn
      <4> TAKE j \in Idxs
      <4> HAVE j # i /\ dirf[j] # None
      <4>1. j \in Entries(dirf)
        BY DEF Entries
      <4>2. dirf[j].name # NameOf(c)
        BY <2>1, <4>1 DEF Find
      <4> QED BY <3>1, <3>2, <4>1, <4>2 DEF SInv, Unique
    <3>7. /\ \A j \in Idxs : j # i /\ dirf[j] # None => dirf[j].fn \in d.bits
          /\ entry.fn \in d.bits
      BY <1>2, <3>1, <3>2, <3>4 DEF Numbers, Entries
    <3>8. Unique' /\ Numbers(dirf') \subseteq d.bits
      BY <3>1, <3>2, <3>5, <3>6, <3>7, EntrySet
    <3>9. refs' = refs
      BY <2>1 DEF PutDirh
    <3> QED BY <1>2, <2>1, <3>4, <3>5, <3>8, <3>9, Put DEF SInv, Goto
  <2>2. CASE PutDirh(Dirh, refs, TRUE) /\ Goto(c, "release") /\ UNCHANGED dirf
    <3>1. Dirh.ents = dirf' /\ Numbers(dirf') \subseteq Dirh.bits
      BY <1>2, <2>2
    <3>2. refs' = refs
      BY <2>2 DEF PutDirh
    <3>3. Unique'
      BY <2>2 DEF SInv, Unique, Entries
    <3> QED BY <1>2, <2>2, <3>1, <3>2, <3>3, Put DEF SInv, Goto
  <2> QED BY <1>2, <2>1, <2>2 DEF FsRename
<1>5. PICK to \in {"prename", "release"} : pc' = [pc EXCEPT ![c] = to]
  BY <1>4
<1>6. Types'
  BY <1>1, <1>4, <1>5 DEF SInv, Types, WorkPcs
<1>7. OneStep(c) /\ pc'[c] = to
  BY <1>1, <1>5 DEF SInv, Types, OneStep
<1>8. ShapeOf(c)' /\ OwnerOf(c)'
  BY <1>1, <1>7 DEF SInv, ShapeOf, WorkPcs, OwnerOf, LockPcs
<1>9. PobjMoves(c)
  BY <1>1, <1>7 DEF PobjMoves, Count, ObjRef, CallRef, CallHolds
<1>10. DirMoves(c)
  BY <1>1, <1>4, <1>7 DEF DirMoves, ObjDir, EnumDir, CallDir
<1> QED BY <1>1, <1>4, <1>6, <1>7, <1>8, <1>9, <1>10, Step

-----------------------------------------------------------------------------
(* The invariant.                                                          *)

\* With no client in a call, nothing is referred to.
LEMMA NobodyHolds ==
  ASSUME \A c \in Clients : obj[c] = None /\ dir[c] = None /\ pc[c] = "idle",
         \A p \in Pobjs : pobj[p] = None, refs = 0
  PROVE  PobjCounted /\ DirCounted
<1>1. Cardinality({}) = 0
  BY FS_EmptySet
<1>2. \A p \in Pobjs : /\ {c \in Clients : obj[c] # None /\ obj[c].po = p} = {}
                       /\ {c \in Clients : CallHolds(c, p)} = {}
  BY DEF CallHolds
<1>3. /\ {c \in Clients : obj[c] # None} = {} /\ {c \in Clients : dir[c] # None} = {}
      /\ {c \in Clients : pc[c] \in {"commit", "remove_file"}} = {}
  OBVIOUS
<1>4. PobjCounted
  <2> SUFFICES ASSUME NEW p \in Pobjs
               PROVE  Cardinality({c \in Clients : obj[c] # None /\ obj[c].po = p})
                        + Cardinality({c \in Clients : CallHolds(c, p)})
                      = IF pobj[p] = None THEN 0 ELSE pobj[p].refcnt
    BY DEF PobjCounted
  <2> DEFINE O == {c \in Clients : obj[c] # None /\ obj[c].po = p}
             C == {c \in Clients : CallHolds(c, p)}
  <2>1. O = {} /\ C = {} /\ pobj[p] = None
    BY <1>2
  <2> HIDE DEF O, C
  <2>2. Cardinality(O) = 0 /\ Cardinality(C) = 0
    BY <1>1, <2>1
  <2>3. Cardinality(O) + Cardinality(C) = IF pobj[p] = None THEN 0 ELSE pobj[p].refcnt
    BY <2>1, <2>2
  <2> QED BY <2>3 DEF O, C
<1>5. DirCounted
  BY <1>1, <1>3 DEF DirCounted
<1> QED BY <1>4, <1>5

\* What is so at the start, and again after a reset.
Fresh ==
  /\ dirh = None /\ refs = 0
  /\ pobj = [p \in Pobjs |-> None]
  /\ obj = [c \in Clients |-> None]
  /\ dir = [c \in Clients |-> None]
  /\ pc = [c \in Clients |-> "idle"]
  /\ arg = [c \in Clients |-> None]

\* The invariant holds when nothing is open, whatever storage has.
LEMMA SInvFresh ==
  ASSUME Fresh, Unique, file \in [FileNos -> SUBSET Hashes],
         \A n \in FileNos : Cardinality(file[n]) <= 2, dirf \in [Idxs -> Entry \cup {None}]
  PROVE  SInv
<1>1. Types
  BY DEF Fresh, Types
<1>2. Shape /\ Coherent /\ Mutex
  BY DEF Fresh, Shape, ShapeOf, WorkPcs, Coherent, Mutex, OwnerOf, LockPcs
<1>3. PobjCounted /\ DirCounted
  BY NobodyHolds DEF Fresh
<1> QED BY <1>1, <1>2, <1>3 DEF SInv

\* The invariant holds at the start.
LEMMA SInvInit == Init => SInv
<1> SUFFICES ASSUME Init PROVE SInv
  OBVIOUS
<1>1. Fresh
  BY DEF Init, Fresh
<1>2. Unique /\ dirf \in [Idxs -> Entry \cup {None}]
  BY DEF Init, Unique, Entries
<1>3. file \in [FileNos -> SUBSET Hashes] /\ \A n \in FileNos : Cardinality(file[n]) <= 2
  BY FS_EmptySet DEF Init
<1> QED BY <1>1, <1>2, <1>3, SInvFresh

\* What is so after a reset, as one fact of the next state.
FreshStart ==
  /\ Fresh /\ Unique
  /\ file \in [FileNos -> SUBSET Hashes] /\ \A n \in FileNos : Cardinality(file[n]) <= 2
  /\ dirf \in [Idxs -> Entry \cup {None}]

\* The same of the next state.
LEMMA SInvFreshNext == FreshStart' => SInv'
<1>1. FreshStart => SInv
  BY SInvFresh DEF FreshStart
<1> QED BY <1>1, PTL

\* The invariant holds after a reset.
LEMMA CrashStep ==
  ASSUME SInv, Crash
  PROVE  SInv'
<1>1. Fresh'
  BY DEF Crash, Fresh
<1>2. Unique' /\ dirf' \in [Idxs -> Entry \cup {None}]
  BY DEF Crash, SInv, Unique, Entries, Types
<1>3. file' \in [FileNos -> SUBSET Hashes] /\ \A n \in FileNos : Cardinality(file'[n]) <= 2
  BY FS_EmptySet DEF Crash, SInv, Types
<1>4. FreshStart'
  BY <1>1, <1>2, <1>3 DEF FreshStart
<1> QED BY <1>4, SInvFreshNext

\* The invariant holds after each step.
LEMMA SInvNext ==
  ASSUME SInv, [Next]_vars
  PROVE  SInv'
<1>1. CASE UNCHANGED vars
  BY <1>1 DEF vars, disk, mem, SInv, Types, Shape, ShapeOf, Unique, Coherent, Mutex, OwnerOf,
     PobjCounted, DirCounted, CallHolds, Numbers, Entries
<1>2. CASE Crash
  BY <1>2, CrashStep
<1>3. ASSUME NEW c \in Clients,
             \/ \E name \in Names, flags \in Modes : Open(c, name, flags)
             \/ \E name \in Names, flags \in CreateModes, overwrite \in BOOLEAN :
                  Create(c, name, flags, overwrite)
             \/ \E name \in Names : Rename(c, name)
             \/ EnumGet(c)
      PROVE SInv'
  <2>1. ASSUME NEW name \in Names, NEW flags \in Modes, Open(c, name, flags) PROVE SInv'
    <3>1. /\ pc[c] = "idle" /\ obj[c] = None /\ UNCHANGED << disk, mem, obj >>
          /\ PobjGet(c, name, flags, "open", FALSE, "open")
          /\ flags \in SUBSET Flags
      BY <2>1, StorageAssumption DEF Open, Free, Flags
    <3> QED BY <3>1, GetStep
  <2>2. ASSUME NEW name \in Names, NEW flags \in CreateModes, NEW overwrite \in BOOLEAN,
               Create(c, name, flags, overwrite) PROVE SInv'
    <3>1. /\ pc[c] = "idle" /\ obj[c] = None /\ UNCHANGED << disk, mem, obj >>
          /\ PobjGet(c, name, flags, "create", overwrite, "create")
          /\ flags \in SUBSET Flags
      BY <2>2, StorageAssumption DEF Create, Free, Flags
    <3> QED BY <3>1, GetStep
  <2>3. ASSUME NEW name \in Names, Rename(c, name) PROVE SInv'
    <3>1. /\ pc[c] = "idle" /\ obj[c] # None /\ UNCHANGED << disk, mem, obj >>
          /\ PobjGet(c, name, {"META"}, "rename", FALSE, "rename")
          /\ {"META"} \in SUBSET Flags
      BY <2>3 DEF Rename, Flags
    <3> QED BY <3>1, GetStep
  <2>4. ASSUME EnumGet(c) PROVE SInv'
    <3>1. /\ pc[c] = "enum" /\ arg[c] \in Names /\ UNCHANGED << disk, mem, obj >>
          /\ PobjGet(c, arg[c], {}, "enum", FALSE, "enum_open")
          /\ {} \in SUBSET Flags
      BY <2>4 DEF EnumGet, SInv, Shape, ShapeOf
    <3> QED BY <3>1, GetStep
  <2> QED BY <1>3, <2>1, <2>2, <2>3, <2>4
<1>4. ASSUME NEW c \in Clients,
             \/ FsOpen(c) \/ Release(c) \/ Close(c)
             \/ FsCreate(c) \/ SetName(c) \/ SetNameFails(c) \/ RemoveOld(c)
             \/ \E final, close \in BOOLEAN : CreateFinal(c, final, close)
      PROVE SInv'
  BY <1>4, FsOpenStep, ReleaseStep, CloseStep, FsCreateStep, SetNameStep, SetNameFailsStep,
     RemoveOldStep, CreateFinalStep
<1>5. ASSUME NEW c \in Clients,
             Write(c) \/ Commit(c) \/ Delete(c) \/ FsRemove(c) \/ RemoveFile(c)
      PROVE SInv'
  BY <1>5, WriteStep, CommitStep, DeleteStep, FsRemoveStep, RemoveFileStep
<1>6. ASSUME NEW c \in Clients,
             \/ FsRename(c) \/ PobjRename(c)
             \/ StartEnum(c) \/ NextEnum(c) \/ EnumOpen(c) \/ CloseDir(c)
      PROVE SInv'
  BY <1>6, FsRenameStep, PobjRenameStep, StartEnumStep, NextEnumStep, EnumOpenStep,
     CloseDirStep
<1> QED BY <1>1, <1>2, <1>3, <1>4, <1>5, <1>6 DEF Next

\* The invariant always holds.
LEMMA StorageInvariant == Spec => []SInv
<1>1. SInv /\ [Next]_vars => SInv'
  BY SInvNext
<1> QED BY <1>1, SInvInit, PTL DEF Spec

\* Every handle and every entry has an index, a file and a hash that exist, the
\* file number bits cover the entries, and a file has at most two versions.
THEOREM StorageTypes == Spec => []TypeOK
<1>1. SInv => TypeOK
  <2> SUFFICES ASSUME SInv PROVE TypeOK
    OBVIOUS
  <2>1. \A n \in FileNos : file[n] \subseteq Hashes /\ Cardinality(file[n]) <= 2
    BY DEF SInv, Types
  <2>2. \A i \in Idxs : dirf[i] = None \/ EntryOK(dirf[i])
    BY DEF SInv, Types, Entry, EntryOK
  <2>3. dirh # None => /\ dirh.bits \subseteq FileNos
                       /\ \A i \in Entries(dirh.ents) :
                            EntryOK(dirh.ents[i]) /\ dirh.ents[i].fn \in dirh.bits
    <3> SUFFICES ASSUME dirh # None
                 PROVE  /\ dirh.bits \subseteq FileNos
                        /\ \A i \in Entries(dirh.ents) :
                             EntryOK(dirh.ents[i]) /\ dirh.ents[i].fn \in dirh.bits
      OBVIOUS
    <3>1. dirh \in DirRec /\ dirh.ents = dirf /\ Numbers(dirf) \subseteq dirh.bits
      BY DEF SInv, Types, Coherent
    <3> QED BY <2>2, <3>1 DEF DirRec, Numbers, Entries
  <2>4. refs \in Nat /\ \A p \in Pobjs : pobj[p] # None =>
          pobj[p].name \in Names /\ pobj[p].refcnt \in Nat \ {0}
    BY DEF SInv, Types, Pobj
  <2>5. \A c \in Clients : obj[c] # None => HandleOK(obj[c].fh)
    BY DEF SInv, Types, Object, Handle, HandleOK
  <2> QED BY <2>1, <2>2, <2>3, <2>4, <2>5 DEF TypeOK
<1> QED BY <1>1, StorageInvariant, PTL

\* A tee_pobj has as many references as objects and calls that hold it, so
\* tee_pobj_release() frees none that is in use and leaks none, and the directory
\* is open for as long as something needs it (get_dirh(), put_dirh()).
THEOREM ReferencesCounted == Spec => []RefsCounted
<1>1. SInv => RefsCounted
  BY DEF SInv, RefsCounted, PobjCounted, DirCounted
<1> QED BY <1>1, StorageInvariant, PTL

=============================================================================
