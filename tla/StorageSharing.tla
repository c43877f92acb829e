-------------------------- MODULE StorageSharing ---------------------------
(***************************************************************************)
(* Theorems about Storage for careful TAs (CarefulTas), any number of them *)
(* and any names: the directory file stays intact and a writer has its     *)
(* object for itself.                                                      *)
(*                                                                         *)
(* The argument has two halves.  ListInv is about memory: the list gives   *)
(* a name to whoever has exclusive flags for itself (lemma Alone), also    *)
(* while a rename has reserved a second object.  DiskInv is about storage: *)
(* a handle is that of the entry with the name of its object, so whoever   *)
(* has the name for itself has the entry (lemma EntryAlone), and no other  *)
(* client replaces, removes or commits it.  Each action has a lemma        *)
(* ...Kept.                                                                *)
(*                                                                         *)
(* Each conjunct of the hypothesis is needed: without it TLC finds one of  *)
(* the properties violated, as the README describes.                       *)
(***************************************************************************)
EXTENDS StorageProofs

\* Flags that tee_pobj_check_access() allows beside no others.
Exclusive(flags) == \A f \in SUBSET Flags : ~Compatible(f, flags)

\* What the theorems assume of the TAs, as the runs do: a handle is not used after
\* an error, an object is not enumerated while it is renamed, and whoever creates
\* or writes an object has it for itself.
CarefulTas ==
  /\ ~RetryAfterError /\ ~EnumRename
  /\ \A flags \in CreateModes : Exclusive(flags)
  /\ \A flags \in Modes : "W" \in flags => Exclusive(flags)

\* c has opened p, or is about to.
Opens(c, p) ==
  \/ obj[c] # None /\ obj[c].po = p
  \/ pc[c] \in {"open", "create"} /\ arg[c].po = p
\* The flags that c asked for when it opened its object.
OpenFlags(c) == IF obj[c] # None THEN obj[c].flags ELSE arg[c].flags

\* c has reserved a new name; storage has it from "prename" on.
Renames(c) == pc[c] \in {"rename", "prename"}
\* The name that storage has for the object of c.
CurName(c) == IF pc[c] = "prename" THEN NameOf(c) ELSE pobj[obj[c].po].name

\* An object in the list has flags compatible with those of each of its openers,
\* and a writer is alone.
FlagsOf(c) ==
  \A p \in Pobjs : Opens(c, p) =>
    /\ OpenFlags(c) = pobj[p].flags \/ Compatible(pobj[p].flags, OpenFlags(c))
    /\ "W" \in OpenFlags(c) => Exclusive(OpenFlags(c))

\* What c does asks for flags that nobody else can have.
WorkOf(c) ==
  /\ pc[c] \in {"create", "set_name"} => Exclusive(OpenFlags(c))
  /\ pc[c] = "commit" => "W" \in OpenFlags(c)
  /\ pc[c] \in {"remove", "remove_file"} => obj[c] # None /\ "META" \in OpenFlags(c)

\* Clients that have one object open agreed on it.
Sharers ==
  \A c, d \in Clients : \A p \in Pobjs : c # d /\ Opens(c, p) /\ Opens(d, p) =>
    Compatible(OpenFlags(c), OpenFlags(d))

\* Objects that are open have different names.
NamesApart ==
  \A c, d \in Clients : \A p, q \in Pobjs : p # q /\ Opens(c, p) /\ Opens(d, q) =>
    pobj[p].name # pobj[q].name

\* Two objects in the list have one name only after a rename.
TwoOfName ==
  \A p, q \in Pobjs :
    p # q /\ pobj[p] # None /\ pobj[q] # None /\ pobj[p].name = pobj[q].name =>
      "META" \in pobj[p].flags /\ "META" \in pobj[q].flags

\* A rename has its object for itself, and the object it reserved is the only one
\* in the list with the new name and nobody opens it.
RenameOf(c) ==
  Renames(c) =>
    /\ "META" \in obj[c].flags
    /\ pobj[obj[c].po].refcnt = 1
    /\ "META" \in pobj[arg[c].po].flags
    /\ Listed(NameOf(c)) = {arg[c].po}
    /\ \A d \in Clients : ~Opens(d, arg[c].po)

\* No two renames reserve one object.
Reserved ==
  \A c, d \in Clients : Renames(c) /\ Renames(d) /\ arg[c].po = arg[d].po => c = d

\* What the list of tee_pobj.c guarantees.
ListInv ==
  /\ \A c \in Clients : FlagsOf(c) /\ WorkOf(c) /\ RenameOf(c)
  /\ Sharers /\ NamesApart /\ TwoOfName /\ Reserved

\* The entry of the handle that c has.
HandleOf(c) ==
  Holds(c) =>
    LET entry == dirf[obj[c].fh.idx]
    IN  /\ entry # None /\ entry.fn = obj[c].fh.fn
        /\ entry.name = CurName(c)
        /\ ~obj[c].failed /\ pc[c] # "commit" => entry.hash = obj[c].fh.hash

\* The version that c is about to commit is written.
SyncOf(c) == pc[c] \in {"set_name", "commit"} => obj[c].fh.hash \in file[obj[c].fh.fn]

\* The version that an entry selects is in its file.
Versions == \A i \in Entries(dirf) : Found(dirf[i])

\* What storage guarantees to those who have an object open.
DiskInv == Versions /\ \A c \in Clients : HandleOf(c) /\ SyncOf(c)

\* The inductive invariant of this module.
AInv == SInv /\ ListInv /\ DiskInv

-----------------------------------------------------------------------------
(* tee_pobj_check_access()                                                 *)

\* tee_pobj_check_access() is symmetric, and META is shared with nobody.
LEMMA CompatibleIs ==
  ASSUME NEW f, NEW g, NEW h
  PROVE  /\ Compatible(f, g) => Compatible(g, f)
         /\ Compatible(f, g) /\ Compatible(f, h) => Compatible(g, h)
         /\ Compatible(f, g) => "META" \notin f /\ "META" \notin g
BY DEF Compatible

\* What a client or its call works on is in the list.
LEMMA Listing ==
  ASSUME SInv, NEW c \in Clients
  PROVE  /\ \A p \in Pobjs : Opens(c, p) =>
              pobj[p] \in Pobj /\ pobj[p] # None /\ OpenFlags(c) \in SUBSET Flags
         /\ obj[c] # None => /\ obj[c] \in Object /\ obj[c].po \in Pobjs
                             /\ Opens(c, obj[c].po) /\ OpenFlags(c) = obj[c].flags
                             /\ pobj[obj[c].po] \in Pobj /\ pobj[obj[c].po] # None
         /\ Renames(c) => /\ obj[c] # None /\ arg[c] \in Work /\ arg[c].po \in Pobjs
                          /\ pobj[arg[c].po] \in Pobj /\ pobj[arg[c].po] # None
<1>1. ASSUME NEW p \in Pobjs, Opens(c, p)
      PROVE pobj[p] \in Pobj /\ pobj[p] # None /\ OpenFlags(c) \in SUBSET Flags
  <2>1. pobj[p] \in Pobj /\ pobj[p] # None
    <3>1. (obj[c] # None /\ obj[c].po = p) \/ CallHolds(c, p)
      BY <1>1 DEF Opens, CallHolds
    <3> QED BY <3>1, Referenced DEF SInv
  <2>2. OpenFlags(c) \in SUBSET Flags
    BY <1>1 DEF Opens, OpenFlags, SInv, Types, Shape, ShapeOf, WorkPcs, Object, Work
  <2> QED BY <2>1, <2>2
<1>2. ASSUME obj[c] # None
      PROVE /\ obj[c] \in Object /\ obj[c].po \in Pobjs
            /\ Opens(c, obj[c].po) /\ OpenFlags(c) = obj[c].flags
  BY <1>2 DEF SInv, Types, Object, Opens, OpenFlags
<1>3. ASSUME Renames(c)
      PROVE /\ obj[c] # None /\ arg[c] \in Work /\ arg[c].po \in Pobjs
            /\ pobj[arg[c].po] \in Pobj /\ pobj[arg[c].po] # None
  <2>1. obj[c] # None /\ arg[c] \in Work /\ arg[c].po \in Pobjs /\ CallHolds(c, arg[c].po)
    BY <1>3 DEF Renames, SInv, Shape, ShapeOf, WorkPcs, Work, CallHolds
  <2> QED BY <2>1, Referenced DEF SInv
<1> QED BY <1>1, <1>2, <1>3

\* What is open, or reserved, is in the list.
AllListed ==
  \A c \in Clients :
    /\ \A p \in Pobjs : Opens(c, p) => pobj[p] # None
    /\ Renames(c) => pobj[arg[c].po] # None

\* Listing, of the next state.
LEMMA AllListedNext == SInv' => AllListed'
<1>1. SInv => AllListed
  BY Listing DEF AllListed
<1> QED BY <1>1, PTL

\* An object that two references, of one client or two, has them counted.
LEMMA TwoReferences ==
  ASSUME SInv, NEW c \in Clients, NEW d \in Clients, NEW p \in Pobjs,
         obj[c] # None /\ obj[c].po = p,
         (c # d /\ obj[d] # None /\ obj[d].po = p) \/ CallHolds(d, p)
  PROVE  pobj[p] # None /\ pobj[p].refcnt # 1
<1> DEFINE O == {k \in Clients : obj[k] # None /\ obj[k].po = p}
           C == {k \in Clients : CallHolds(k, p)}
<1>1. /\ IsFiniteSet(O) /\ IsFiniteSet(C)
      /\ Cardinality(O) \in Nat /\ Cardinality(C) \in Nat
      /\ (Cardinality(O) = 0 <=> O = {}) /\ (Cardinality(C) = 0 <=> C = {})
  BY CountAny
<1>2. Cardinality(O) + Cardinality(C) = IF pobj[p] = None THEN 0 ELSE pobj[p].refcnt
  BY DEF SInv, PobjCounted
<1>3. c \in O /\ (d \in C \/ (d \in O /\ c # d))
  OBVIOUS
<1> HIDE DEF O, C
<1>4. Cardinality(O \ {c}) = Cardinality(O) - 1 /\ Cardinality(O \ {c}) \in Nat
      /\ IsFiniteSet(O \ {c})
  BY <1>1, <1>3, FS_RemoveElement, FS_CardinalityType
<1>5. Cardinality(O) + Cardinality(C) > 1
  <2>1. CASE d \in C
    BY <1>1, <1>3, <1>4, <2>1
  <2>2. CASE d \in O /\ c # d
    <3>1. O \ {c} # {}
      BY <2>2
    <3>2. Cardinality(O \ {c}) # 0
      BY <1>4, <3>1, FS_EmptySet
    <3> QED BY <1>1, <1>4, <3>2
  <2> QED BY <1>3, <2>1, <2>2
<1> QED BY <1>1, <1>2, <1>5

\* The same of two calls.
LEMMA TwoCalls ==
  ASSUME SInv, NEW c \in Clients, NEW d \in Clients, c # d, NEW p \in Pobjs,
         CallHolds(c, p), CallHolds(d, p)
  PROVE  pobj[p] # None /\ pobj[p].refcnt # 1
<1> DEFINE O == {k \in Clients : obj[k] # None /\ obj[k].po = p}
           C == {k \in Clients : CallHolds(k, p)}
<1>1. /\ IsFiniteSet(C) /\ Cardinality(O) \in Nat /\ Cardinality(C) \in Nat
  BY CountAny
<1>2. Cardinality(O) + Cardinality(C) = IF pobj[p] = None THEN 0 ELSE pobj[p].refcnt
  BY DEF SInv, PobjCounted
<1>3. c \in C /\ d \in C \ {c}
  OBVIOUS
<1> HIDE DEF O, C
<1>4. Cardinality(C \ {c}) = Cardinality(C) - 1 /\ Cardinality(C \ {c}) \in Nat
      /\ IsFiniteSet(C \ {c})
  BY <1>1, <1>3, FS_RemoveElement, FS_CardinalityType
<1>5. Cardinality(C \ {c}) # 0
  BY <1>3, <1>4, FS_EmptySet
<1> QED BY <1>1, <1>2, <1>4, <1>5

\* Who has an object for itself has its name for itself.
LEMMA Alone ==
  ASSUME SInv, ListInv, NEW c \in Clients, NEW d \in Clients, c # d,
         obj[c] # None, obj[d] # None, Exclusive(obj[c].flags)
  PROVE  CurName(d) # pobj[obj[c].po].name
<1> DEFINE p == obj[c].po
           q == obj[d].po
<1>1. /\ p \in Pobjs /\ Opens(c, p) /\ OpenFlags(c) = obj[c].flags /\ pobj[p] # None
      /\ q \in Pobjs /\ Opens(d, q) /\ OpenFlags(d) = obj[d].flags
      /\ OpenFlags(d) \in SUBSET Flags
  BY Listing
<1>2. CASE pc[d] = "prename"
  <2>1. Listed(NameOf(d)) = {arg[d].po} /\ ~Opens(c, arg[d].po)
    BY <1>2 DEF ListInv, RenameOf, Renames
  <2>2. p \notin Listed(NameOf(d))
    BY <1>1, <2>1
  <2> QED BY <1>1, <1>2, <2>2 DEF Listed, CurName
<1>3. CASE pc[d] # "prename"
  <2>1. p # q
    <3>1. p = q => Compatible(OpenFlags(d), OpenFlags(c))
      BY <1>1 DEF ListInv, Sharers
    <3> QED BY <1>1, <3>1 DEF Exclusive
  <2>2. pobj[p].name # pobj[q].name
    BY <1>1, <2>1 DEF ListInv, NamesApart
  <2> QED BY <1>3, <2>2 DEF CurName
<1> QED BY <1>2, <1>3

-----------------------------------------------------------------------------
(* Steps that keep the list.                                               *)

\* The list has the objects it had, with their names, flags and counts.
SameList ==
  \A p \in Pobjs :
    /\ pobj'[p] = None <=> pobj[p] = None
    /\ pobj[p] # None => /\ pobj'[p].name = pobj[p].name /\ pobj'[p].flags = pobj[p].flags
                         /\ pobj'[p].refcnt = pobj[p].refcnt

\* The other clients are as they were.
LEMMA Others ==
  ASSUME NEW c \in Clients, OneStep(c), NEW k \in Clients, k # c
  PROVE  /\ \A p \in Pobjs : Opens(k, p)' <=> Opens(k, p)
         /\ OpenFlags(k)' = OpenFlags(k) /\ (Renames(k)' <=> Renames(k))
         /\ (WorkOf(k) => WorkOf(k)') /\ arg'[k] = arg[k] /\ obj'[k] = obj[k]
         /\ pc'[k] = pc[k]
         /\ (Holds(k)' <=> Holds(k))
BY DEF OneStep, Opens, OpenFlags, Renames, WorkOf, Holds

\* A step of c that adds nothing to the list and to what c has open.
LEMMA ListFewer ==
  ASSUME SInv, ListInv, SInv', NEW c \in Clients, OneStep(c), WorkOf(c)',
         \A p \in Pobjs : pobj'[p] # None =>
           /\ pobj[p] # None
           /\ pobj'[p].name = pobj[p].name /\ pobj'[p].flags = pobj[p].flags,
         \A k \in Clients : Renames(k)' =>
           pobj'[obj[k].po].refcnt = pobj[obj[k].po].refcnt,
         \A p \in Pobjs : Opens(c, p)' => Opens(c, p) /\ OpenFlags(c)' = OpenFlags(c),
         Renames(c)' => Renames(c) /\ arg'[c] = arg[c] /\ obj'[c] = obj[c]
  PROVE  ListInv'
<1>1. AllListed'
  BY AllListedNext
<1>2. \A k \in Clients : \A p \in Pobjs :
        Opens(k, p)' => /\ Opens(k, p) /\ OpenFlags(k)' = OpenFlags(k)
                        /\ pobj[p] # None /\ pobj'[p] # None
  BY <1>1, Others, Listing DEF AllListed
<1>3. \A k \in Clients : Renames(k)' =>
        /\ Renames(k) /\ arg'[k] = arg[k] /\ obj'[k] = obj[k]
        /\ obj[k].po \in Pobjs /\ pobj[obj[k].po] # None
        /\ arg[k].po \in Pobjs /\ pobj[arg[k].po] # None /\ pobj'[arg[k].po] # None
  BY <1>1, Others, Listing DEF AllListed
<1>4. \A k \in Clients : FlagsOf(k)' /\ WorkOf(k)'
  <2>1. \A k \in Clients : WorkOf(k)'
    BY Others DEF ListInv
  <2>2. \A k \in Clients : FlagsOf(k)'
    BY <1>2 DEF ListInv, FlagsOf
  <2> QED BY <2>1, <2>2
<1>5. Sharers' /\ NamesApart'
  <2>1. Sharers'
    BY <1>2 DEF ListInv, Sharers
  <2>2. NamesApart'
    BY <1>2 DEF ListInv, NamesApart
  <2> QED BY <2>1, <2>2
<1>6. TwoOfName'
  BY DEF ListInv, TwoOfName
<1>7. Reserved'
  BY <1>3 DEF ListInv, Reserved
<1>8. ASSUME NEW k \in Clients, Renames(k)' PROVE RenameOf(k)'
  <2>1. RenameOf(k) /\ Renames(k)
    BY <1>3, <1>8 DEF ListInv
  <2>2. NameOf(k)' = NameOf(k)
    BY <1>3, <1>8 DEF NameOf
  <2>3. Listed(NameOf(k))' = {arg[k].po}
    <3>1. Listed(NameOf(k))' \subseteq Listed(NameOf(k))
      BY <2>2 DEF Listed
    <3>2. arg[k].po \in Listed(NameOf(k))'
      BY <1>3, <1>8 DEF Listed, NameOf
    <3> QED BY <2>1, <3>1, <3>2 DEF RenameOf
  <2>4. \A d \in Clients : ~Opens(d, arg[k].po)'
    BY <1>2, <1>3, <1>8, <2>1 DEF RenameOf
  <2> QED BY <1>3, <1>8, <2>1, <2>3, <2>4 DEF RenameOf
<1>9. \A k \in Clients : RenameOf(k)'
  BY <1>8 DEF RenameOf
<1> QED BY <1>4, <1>5, <1>6, <1>7, <1>9 DEF ListInv

\* A step of c that changes neither the list nor what c has open.
LEMMA ListKept ==
  ASSUME SInv, ListInv, SInv', NEW c \in Clients, OneStep(c), SameList, WorkOf(c)',
         \A p \in Pobjs : Opens(c, p)' => Opens(c, p) /\ OpenFlags(c)' = OpenFlags(c),
         Renames(c)' => Renames(c) /\ arg'[c] = arg[c] /\ obj'[c] = obj[c]
  PROVE  ListInv'
<1>1. \A k \in Clients : Renames(k)' => pobj'[obj[k].po].refcnt = pobj[obj[k].po].refcnt
  BY Others, Listing DEF SameList
<1>2. \A p \in Pobjs : pobj'[p] # None =>
        /\ pobj[p] # None
        /\ pobj'[p].name = pobj[p].name /\ pobj'[p].flags = pobj[p].flags
  BY DEF SameList
<1> QED BY <1>1, <1>2, ListFewer

-----------------------------------------------------------------------------
(* Steps that keep what the handles rely on.                               *)

\* No object in the list changes its name.
SameNames ==
  \A p \in Pobjs : pobj[p] # None /\ pobj'[p] # None => pobj'[p].name = pobj[p].name

\* The handles of the others.
LEMMA NamesKept ==
  ASSUME SInv, SInv', NEW c \in Clients, OneStep(c), SameNames, NEW k \in Clients, k # c,
         Holds(k)
  PROVE  CurName(k)' = CurName(k)
<1>1. /\ obj'[k] = obj[k] /\ arg'[k] = arg[k] /\ pc'[k] = pc[k]
      /\ obj[k] # None /\ obj[k].po \in Pobjs /\ pobj[obj[k].po] # None
      /\ Renames(k) => arg[k].po \in Pobjs /\ pobj[arg[k].po] # None
  BY Others, Listing DEF Holds
<1>2. /\ pobj'[obj[k].po] # None
      /\ Renames(k) => pobj'[arg[k].po] # None
  <2>1. AllListed'
    BY AllListedNext
  <2>2. /\ \A p \in Pobjs : Opens(k, p)' <=> Opens(k, p)
        /\ Renames(k)' <=> Renames(k)
    BY Others
  <2> QED BY <1>1, <2>1, <2>2, Listing DEF AllListed
<1> QED BY <1>1, <1>2 DEF CurName, NameOf, SameNames, Renames

\* The entries of the handles of the others stay.
EntriesKept(c) ==
  \A k \in Clients : k # c /\ Holds(k) => dirf'[obj[k].fh.idx] = dirf[obj[k].fh.idx]

\* DiskInv after a step of c that leaves the entries of the others as they were,
\* if it changes no file while another client has ree_fs_mutex.
LEMMA DiskKept ==
  ASSUME SInv, SInv', DiskInv, NEW c \in Clients, OneStep(c), SameNames,
         Versions', HandleOf(c)', SyncOf(c)', EntriesKept(c),
         \/ UNCHANGED file
         \/ \A k \in Clients : k # c => pc[k] \notin LockPcs
  PROVE  DiskInv'
<1> SUFFICES ASSUME NEW k \in Clients, k # c PROVE HandleOf(k)' /\ SyncOf(k)'
  BY DEF DiskInv
<1>1. HandleOf(k)'
  <2>1. CASE ~Holds(k)
    BY <2>1, Others DEF HandleOf
  <2>2. CASE Holds(k)
    <3>1. HandleOf(k) /\ CurName(k)' = CurName(k)
      BY <2>2, NamesKept DEF DiskInv
    <3> QED BY <2>2, <3>1, Others DEF HandleOf, EntriesKept
  <2> QED BY <2>1, <2>2
<1>2. SyncOf(k)'
  <2>1. SyncOf(k)
    BY DEF DiskInv
  <2> QED BY <2>1, Others DEF SyncOf, LockPcs
<1> QED BY <1>1, <1>2

\* A step that changes no file and no entry.
LEMMA DiskQuiet ==
  ASSUME SInv, SInv', DiskInv, NEW c \in Clients, OneStep(c), SameNames,
         HandleOf(c)', SyncOf(c)', UNCHANGED << file, dirf >>
  PROVE  DiskInv'
<1>1. Versions'
  BY DEF DiskInv, Versions, Entries, Found
<1> QED BY <1>1, DiskKept DEF EntriesKept

\* Files that no entry names may change.
LEMMA OtherFile ==
  ASSUME SInv, Versions, NEW n \in FileNos, n \notin Numbers(dirf),
         \A m \in FileNos : m # n => file'[m] = file[m], UNCHANGED dirf
  PROVE  Versions'
<1>1. \A i \in Entries(dirf) : dirf[i].fn # n /\ dirf[i].fn \in FileNos
  BY DEF Numbers, Entries, SInv, Types, Entry
<1> QED BY <1>1 DEF Versions, Entries, Found

\* One entry changes.
LEMMA OneEntry ==
  ASSUME SInv, Versions, NEW i \in Idxs, \A j \in Idxs : j # i => dirf'[j] = dirf[j],
         dirf'[i] = None \/ dirf'[i].hash \in file[dirf'[i].fn], UNCHANGED file
  PROVE  Versions'
BY DEF Versions, Entries, Found

-----------------------------------------------------------------------------
(* One lemma for each action.                                              *)

\* What is left to show of a step of c that changes neither storage nor the list.
LEMMA QuietKept ==
  ASSUME AInv, SInv', NEW c \in Clients, OneStep(c), SameList, UNCHANGED << file, dirf >>,
         \A p \in Pobjs : Opens(c, p)' => Opens(c, p) /\ OpenFlags(c)' = OpenFlags(c),
         Renames(c)' => Renames(c) /\ arg'[c] = arg[c] /\ obj'[c] = obj[c],
         WorkOf(c)', HandleOf(c)', SyncOf(c)'
  PROVE  AInv'
<1>1. SameNames
  BY DEF SameList, SameNames
<1>2. ListInv'
  BY ListKept DEF AInv
<1>3. DiskInv'
  BY <1>1, DiskQuiet DEF AInv
<1> QED BY <1>2, <1>3 DEF AInv

\* ree_fs_open(): the handle of c is that of the entry.
LEMMA FsOpenKept ==
  ASSUME AInv, SInv', NEW c \in Clients, FsOpen(c)
  PROVE  AInv'
<1> DEFINE idx == Find(dirf, NameOf(c))
           i == Min(idx)
           h == [po |-> arg[c].po, flags |-> arg[c].flags, failed |-> FALSE,
                 fh |-> [idx |-> i, fn |-> dirf[i].fn, hash |-> dirf[i].hash,
                         live |-> TRUE]]
<1>1. /\ pc[c] = "open" /\ arg[c] \in Work /\ arg[c].po \in Pobjs /\ obj[c] = None
      /\ UNCHANGED << file, dirf, pobj >> /\ SameList
  BY DEF FsOpen, AInv, SInv, Shape, ShapeOf, WorkPcs, Work, disk, SameList
<1>2. Dirh.ents = dirf
  BY DirhIs DEF AInv, SInv
<1>3. CASE /\ idx # {} /\ Found(dirf[i]) /\ obj' = [obj EXCEPT ![c] = h] /\ Return(c)
  <2>1. h # None /\ h.po = arg[c].po /\ h.flags = arg[c].flags /\ h.fh.idx = i
        /\ h.fh.fn = dirf[i].fn /\ h.fh.hash = dirf[i].hash
    BY DEF None
  <2>2. OneStep(c) /\ pc'[c] = "idle" /\ obj'[c] = h
    <3> HIDE DEF h
    <3> QED BY <1>3, <2>1 DEF AInv, SInv, Types, OneStep, Return, Goto
  <2>3. i \in Idxs /\ dirf[i] # None /\ dirf[i].name = NameOf(c)
    BY <1>3, FindIs DEF AInv, SInv
  <2> HIDE DEF h
  <2>4. /\ \A p \in Pobjs : Opens(c, p)' => Opens(c, p) /\ OpenFlags(c)' = OpenFlags(c)
        /\ ~Renames(c)' /\ WorkOf(c)' /\ SyncOf(c)'
    BY <1>1, <2>1, <2>2 DEF Opens, OpenFlags, Renames, WorkOf, SyncOf
  <2>5. HandleOf(c)'
    BY <1>1, <2>1, <2>2, <2>3 DEF HandleOf, CurName, NameOf
  <2> QED BY <1>1, <2>2, <2>4, <2>5, QuietKept
<1>4. CASE /\ (idx # {} => ~Found(dirf[i])) /\ UNCHANGED << obj, arg >>
           /\ Goto(c, IF idx = {} THEN "release" ELSE "remove")
  <2>1. idx = {}
    BY <1>4, FindIs DEF AInv, SInv, DiskInv, Versions
  <2>2. OneStep(c) /\ pc'[c] = "release"
    BY <1>4, <2>1 DEF AInv, SInv, Types, OneStep, Goto
  <2>3. /\ \A p \in Pobjs : ~Opens(c, p)'
        /\ ~Renames(c)' /\ WorkOf(c)' /\ SyncOf(c)' /\ HandleOf(c)'
    BY <1>1, <1>4, <2>2 DEF Opens, Renames, WorkOf, SyncOf, HandleOf, Holds
  <2> QED BY <1>1, <2>2, <2>3, QuietKept
<1> QED BY <1>2, <1>3, <1>4 DEF FsOpen

\* A call ends, or c closes its object, or a new object is not to be.
LEMMA CloseKept ==
  ASSUME AInv, SInv', NEW c \in Clients, Close(c)
  PROVE  AInv'
<1>1. /\ UNCHANGED << file, dirf, pobj >> /\ SameList
      /\ OneStep(c) /\ pc'[c] = "release" /\ obj'[c] = None
  BY DEF Close, AInv, SInv, Types, OneStep, Goto, disk, SameList
<1>2. /\ \A p \in Pobjs : ~Opens(c, p)'
      /\ ~Renames(c)' /\ WorkOf(c)' /\ SyncOf(c)' /\ HandleOf(c)'
  BY <1>1 DEF Opens, Renames, WorkOf, SyncOf, HandleOf, Holds
<1> QED BY <1>1, <1>2, QuietKept

\* Enumerators have no handle of a file.
LEMMA EnumKept ==
  ASSUME AInv, SInv', NEW c \in Clients,
         StartEnum(c) \/ NextEnum(c) \/ EnumOpen(c) \/ CloseDir(c)
  PROVE  AInv'
<1>1. UNCHANGED << file, dirf, pobj, obj >> /\ SameList
  BY DEF StartEnum, NextEnum, EnumOpen, CloseDir, disk, SameList
<1>2. /\ OneStep(c) /\ pc[c] \notin {"open", "create", "rename", "prename"}
      /\ \/ UNCHANGED << pc, arg >>
         \/ pc'[c] \in {"enum", "release"} /\ pc[c] \in {"idle", "enum_open"}
  <2>1. ASSUME StartEnum(c) \/ CloseDir(c) PROVE UNCHANGED << pc, arg >> /\ pc[c] = "idle"
    BY <2>1 DEF StartEnum, CloseDir, Free
  <2>2. ASSUME NextEnum(c)
        PROVE  OneStep(c) /\ pc'[c] = "enum" /\ pc[c] = "idle"
    BY <1>1, <2>2 DEF NextEnum, AInv, SInv, Types, OneStep, Goto
  <2>3. ASSUME EnumOpen(c)
        PROVE  OneStep(c) /\ pc'[c] = "release" /\ pc[c] = "enum_open"
    BY <1>1, <2>3 DEF EnumOpen, AInv, SInv, Types, OneStep, Goto
  <2> QED BY <1>1, <2>1, <2>2, <2>3 DEF OneStep
<1>3. /\ \A p \in Pobjs : Opens(c, p)' => Opens(c, p) /\ OpenFlags(c)' = OpenFlags(c)
      /\ ~Renames(c)' /\ WorkOf(c)' /\ SyncOf(c)'
  BY <1>1, <1>2 DEF Opens, OpenFlags, Renames, WorkOf, SyncOf, AInv, ListInv, DiskInv
<1>4. HandleOf(c)'
  <2>1. HandleOf(c)
    BY DEF AInv, DiskInv
  <2> QED BY <1>1, <1>2, <2>1 DEF HandleOf, Holds, CurName
<1> QED BY <1>1, <1>2, <1>3, <1>4, QuietKept

\* The file that a create replaced has no entry any more.
LEMMA RemoveOldKept ==
  ASSUME AInv, SInv', NEW c \in Clients, RemoveOld(c)
  PROVE  AInv'
<1>1. /\ pc[c] = "remove_old" /\ arg[c].old \in FileNos \ Numbers(dirf)
      /\ UNCHANGED << dirf, pobj, obj, arg >> /\ SameList /\ SameNames
      /\ OneStep(c) /\ pc'[c] = "created"
      /\ \A m \in FileNos : m # arg[c].old => file'[m] = file[m]
  BY DEF RemoveOld, AInv, SInv, Types, Shape, ShapeOf, WorkPcs, Work, Mutex, OwnerOf,
     OneStep, Goto, SameList, SameNames
<1>2. /\ \A p \in Pobjs : Opens(c, p)' => Opens(c, p) /\ OpenFlags(c)' = OpenFlags(c)
      /\ ~Renames(c)' /\ WorkOf(c)' /\ SyncOf(c)'
  BY <1>1 DEF Opens, OpenFlags, Renames, WorkOf, SyncOf
<1>3. HandleOf(c)'
  <2>1. HandleOf(c)
    BY DEF AInv, DiskInv
  <2> QED BY <1>1, <2>1 DEF HandleOf, Holds, CurName
<1>4. Versions'
  BY <1>1, OtherFile DEF AInv, DiskInv
<1>5. \A k \in Clients : k # c => pc[k] \notin LockPcs
  BY <1>1, Owner DEF AInv, LockPcs
<1>6. ListInv'
  BY <1>1, <1>2, ListKept DEF AInv
<1>7. DiskInv'
  BY <1>1, <1>2, <1>3, <1>4, <1>5, DiskKept DEF AInv, EntriesKept
<1> QED BY <1>6, <1>7 DEF AInv

\* tee_pobj_create_final(), with or without closing the object.
LEMMA CreateFinalKept ==
  ASSUME AInv, SInv', NEW c \in Clients, NEW final \in BOOLEAN, NEW close \in BOOLEAN,
         CreateFinal(c, final, close)
  PROVE  AInv'
<1> DEFINE p == arg[c].po
<1>1. /\ pc[c] = "created" /\ obj[c] # None /\ p \in Pobjs
      /\ UNCHANGED << file, dirf, obj >>
      /\ pobj' = [pobj EXCEPT ![p].creating = pobj[p].creating /\ ~final]
  BY DEF CreateFinal, AInv, SInv, Shape, ShapeOf, WorkPcs, Work, disk
<1>2. SameList
  <2> DEFINE new == [pobj[p] EXCEPT !.creating = pobj[p].creating /\ ~final]
  <2>1. pobj[p] \in Pobj /\ pobj[p] # None
    <3>1. obj[c].po = p
      BY <1>1 DEF AInv, SInv, Shape, ShapeOf
    <3> QED BY <1>1, <3>1, Listing DEF AInv
  <2>2. new \in Pobj /\ new.name = pobj[p].name /\ new.flags = pobj[p].flags
        /\ new.refcnt = pobj[p].refcnt
    BY <2>1 DEF Pobj
  <2>3. pobj' = [pobj EXCEPT ![p] = new] /\ pobj \in [Pobjs -> Pobj \cup {None}]
    BY <1>1 DEF AInv, SInv, Types
  <2> HIDE DEF new
  <2> QED BY <1>1, <2>1, <2>2, <2>3, NoneApart DEF SameList
<1>3. OneStep(c) /\ pc'[c] \in {"idle", "close"}
  <2>1. CASE close
    BY <1>1, <2>1 DEF CreateFinal, AInv, SInv, Types, OneStep, Goto
  <2>2. CASE ~close
    BY <1>1, <2>2 DEF CreateFinal, AInv, SInv, Types, OneStep, Goto, Return
  <2> QED BY <2>1, <2>2
<1>4. /\ \A q \in Pobjs : Opens(c, q)' => Opens(c, q) /\ OpenFlags(c)' = OpenFlags(c)
      /\ ~Renames(c)' /\ WorkOf(c)' /\ SyncOf(c)'
  BY <1>1, <1>3 DEF Opens, OpenFlags, Renames, WorkOf, SyncOf
<1>5. HandleOf(c)'
  <2>1. HandleOf(c) /\ obj[c].po \in Pobjs /\ pobj[obj[c].po] # None
    BY <1>1, Listing DEF AInv, DiskInv
  <2>2. pobj'[obj[c].po].name = pobj[obj[c].po].name
    BY <1>2, <2>1 DEF SameList
  <2> QED BY <1>1, <1>3, <2>1, <2>2 DEF HandleOf, Holds, CurName
<1> QED BY <1>1, <1>2, <1>3, <1>4, <1>5, QuietKept

\* syscall_storage_obj_del() leaves the object open.
LEMMA DeleteKept ==
  ASSUME AInv, SInv', NEW c \in Clients, Delete(c)
  PROVE  AInv'
<1>1. /\ pc[c] = "idle" /\ obj[c] # None /\ "META" \in obj[c].flags
      /\ UNCHANGED << file, dirf, pobj, obj >> /\ SameList
      /\ OneStep(c) /\ pc'[c] = "remove"
  BY DEF Delete, AInv, SInv, Types, OneStep, Goto, disk, SameList
<1>2. /\ \A q \in Pobjs : Opens(c, q)' => Opens(c, q) /\ OpenFlags(c)' = OpenFlags(c)
      /\ ~Renames(c)' /\ WorkOf(c)' /\ SyncOf(c)'
  BY <1>1 DEF Opens, OpenFlags, Renames, WorkOf, SyncOf
<1>3. HandleOf(c)'
  <2>1. HandleOf(c)
    BY DEF AInv, DiskInv
  <2> QED BY <1>1, <2>1 DEF HandleOf, Holds, CurName
<1> QED BY <1>1, <1>2, <1>3, QuietKept

\* The file that ree_fs_remove() removes has no entry any more.
LEMMA RemoveFileKept ==
  ASSUME AInv, SInv', NEW c \in Clients, RemoveFile(c)
  PROVE  AInv'
<1>1. pc[c] = "remove_file" /\ obj[c] # None
  BY DEF RemoveFile, AInv, ListInv, WorkOf
<1>2. /\ arg[c].old \in FileNos \ Numbers(dirf)
      /\ UNCHANGED << dirf, pobj, obj, arg >> /\ SameList /\ SameNames
      /\ OneStep(c) /\ pc'[c] = "close"
      /\ \A m \in FileNos : m # arg[c].old => file'[m] = file[m]
  BY <1>1 DEF RemoveFile, AInv, SInv, Types, Shape, ShapeOf, WorkPcs, Work, Mutex, OwnerOf,
     OneStep, Goto, AfterRemove, SameList, SameNames
<1>3. /\ \A p \in Pobjs : Opens(c, p)' => Opens(c, p) /\ OpenFlags(c)' = OpenFlags(c)
      /\ ~Renames(c)' /\ WorkOf(c)' /\ SyncOf(c)' /\ HandleOf(c)'
  BY <1>1, <1>2 DEF Opens, OpenFlags, Renames, WorkOf, SyncOf, HandleOf, Holds
<1>4. Versions'
  BY <1>2, OtherFile DEF AInv, DiskInv
<1>5. \A k \in Clients : k # c => pc[k] \notin LockPcs
  BY <1>1, Owner DEF AInv, LockPcs
<1>6. ListInv'
  BY <1>2, <1>3, ListKept DEF AInv
<1>7. DiskInv'
  BY <1>2, <1>3, <1>4, <1>5, DiskKept DEF AInv, EntriesKept
<1> QED BY <1>6, <1>7 DEF AInv

\* A create whose commit of the directory fails removes a file without an entry.
LEMMA SetNameFailsKept ==
  ASSUME AInv, SInv', NEW c \in Clients, SetNameFails(c)
  PROVE  AInv'
<1> DEFINE n == obj[c].fh.fn
<1>1. /\ pc[c] = "set_name" /\ n \in FileNos \ Numbers(dirf)
      /\ UNCHANGED << dirf, pobj, arg >> /\ SameList /\ SameNames
      /\ OneStep(c) /\ pc'[c] = "release" /\ obj'[c] = None
      /\ \A m \in FileNos : m # n => file'[m] = file[m]
  BY DEF SetNameFails, AInv, SInv, Types, Shape, ShapeOf, Object, Handle, Mutex, OwnerOf,
     OneStep, Goto, SameList, SameNames
<1>2. /\ \A p \in Pobjs : ~Opens(c, p)'
      /\ ~Renames(c)' /\ WorkOf(c)' /\ SyncOf(c)' /\ HandleOf(c)'
  BY <1>1 DEF Opens, Renames, WorkOf, SyncOf, HandleOf, Holds
<1>3. Versions'
  BY <1>1, OtherFile DEF AInv, DiskInv
<1>4. \A k \in Clients : k # c => pc[k] \notin LockPcs
  BY <1>1, Owner DEF AInv, LockPcs
<1>5. ListInv'
  BY <1>1, <1>2, ListKept DEF AInv
<1>6. DiskInv'
  BY <1>1, <1>2, <1>3, <1>4, DiskKept DEF AInv, EntriesKept
<1> QED BY <1>5, <1>6 DEF AInv

\* A new file has a number that no entry has.
LEMMA FsCreateKept ==
  ASSUME AInv, SInv', NEW c \in Clients, FsCreate(c)
  PROVE  AInv'
<1> DEFINE n == Min(FileNos \ Dirh.bits)
           h == NewHash(n, {})
           new == [po |-> arg[c].po, flags |-> arg[c].flags, failed |-> FALSE,
                   fh |-> [idx |-> -1, fn |-> n, hash |-> h, live |-> TRUE]]
<1>1. /\ pc[c] = "create" /\ obj[c] = None
      /\ UNCHANGED << dirf, pobj, arg >> /\ SameList /\ SameNames
      /\ \A k \in Clients : pc[k] \notin LockPcs
  BY DEF FsCreate, AInv, SInv, Shape, ShapeOf, Locked, LockPcs, SameList, SameNames
<1>2. n \in FileNos \ Numbers(dirf)
  <2>1. n \in FileNos \ Dirh.bits
    BY MinIn, Numerals DEF FsCreate
  <2> QED BY <2>1, DirhIs DEF AInv, SInv
<1>3. \E v : file' = [file EXCEPT ![n] = v]
  BY DEF FsCreate
<1>4. \A m \in FileNos : m # n => file'[m] = file[m]
  <2> HIDE DEF n
  <2> QED BY <1>2, <1>3 DEF AInv, SInv, Types
<1>5. Versions'
  <2> HIDE DEF n
  <2> QED BY <1>1, <1>2, <1>4, OtherFile DEF AInv, DiskInv
<1>6. /\ OneStep(c) /\ WorkOf(c)' /\ SyncOf(c)' /\ HandleOf(c)' /\ ~Renames(c)'
      /\ \A p \in Pobjs : Opens(c, p)' => Opens(c, p) /\ OpenFlags(c)' = OpenFlags(c)
  <2>1. CASE file' = [file EXCEPT ![n] = {h}] /\ obj' = [obj EXCEPT ![c] = new]
             /\ Goto(c, "set_name")
    <3>1. /\ new # None /\ new.po = arg[c].po /\ new.flags = arg[c].flags
          /\ new.fh.idx = -1 /\ new.fh.fn = n /\ new.fh.hash = h
      BY DEF None
    <3> HIDE DEF new, n, h
    <3>2. OneStep(c) /\ pc'[c] = "set_name" /\ obj'[c] = new /\ file'[n] = {h}
      BY <1>1, <1>2, <2>1 DEF AInv, SInv, Types, OneStep, Goto
    <3>3. WorkOf(c)
      BY DEF AInv, ListInv
    <3> QED BY <1>1, <3>1, <3>2, <3>3 DEF WorkOf, SyncOf, HandleOf, Holds, Renames, Opens,
               OpenFlags
  <2>2. CASE UNCHANGED obj /\ Goto(c, "release")
    <3>1. OneStep(c) /\ pc'[c] = "release" /\ obj'[c] = None
      BY <1>1, <2>2 DEF AInv, SInv, Types, OneStep, Goto
    <3> QED BY <1>1, <3>1 DEF WorkOf, SyncOf, HandleOf, Holds, Renames, Opens
  <2> QED BY <2>1, <2>2 DEF FsCreate
<1>7. ListInv'
  BY <1>1, <1>6, ListKept DEF AInv
<1>8. DiskInv'
  BY <1>1, <1>5, <1>6, DiskKept DEF AInv, EntriesKept
<1> QED BY <1>7, <1>8 DEF AInv

\* The handle that a call works with has its entry for itself.
LEMMA EntryAlone ==
  ASSUME AInv, NEW c \in Clients, obj[c] # None, Exclusive(obj[c].flags),
         NEW i \in Idxs, dirf[i] # None => dirf[i].name = pobj[obj[c].po].name,
         NEW k \in Clients, k # c, Holds(k)
  PROVE  obj[k].fh.idx # i
<1>1. CurName(k) # pobj[obj[c].po].name
  BY Alone DEF AInv, Holds
<1>2. HandleOf(k)
  BY DEF AInv, DiskInv
<1> QED BY <1>1, <1>2 DEF HandleOf

\* The entry of a new object takes the place of the one with its name, which no
\* other client has open.
LEMMA SetNameKept ==
  ASSUME AInv, SInv', NEW c \in Clients, SetName(c)
  PROVE  AInv' /\ EntriesKept(c)
<1> DEFINE fh == obj[c].fh
           old == Find(dirf, NameOf(c))
           i == IF old # {} THEN Min(old) ELSE EmptyIdx(dirf)
           entry == [name |-> NameOf(c), fn |-> fh.fn, hash |-> fh.hash]
<1>1. /\ pc[c] = "set_name" /\ obj[c] # None /\ obj[c] \in Object
      /\ arg[c] \in Work /\ arg[c].po = obj[c].po
      /\ UNCHANGED << file, pobj >> /\ SameList /\ SameNames
  BY DEF SetName, AInv, SInv, Shape, ShapeOf, WorkPcs, Types, SameList, SameNames
<1>2. /\ \A k \in Clients : k # c => pc[k] \notin LockPcs
      /\ dirh.ents = dirf /\ Dirh = dirh
  BY <1>1, Owner DEF LockPcs, AInv
<1>3. /\ dirf' = [dirf EXCEPT ![i] = entry] /\ obj' = [obj EXCEPT ![c].fh.idx = i]
      /\ arg' = [arg EXCEPT ![c].old = IF old # {} THEN dirf[i].fn ELSE 0]
      /\ pc' = [pc EXCEPT ![c] = IF old # {} THEN "remove_old" ELSE "created"]
  BY <1>2 DEF SetName, CommitEntry, Goto
<1>4. i \in Idxs /\ (dirf[i] # None => dirf[i].name = NameOf(c))
  <2>1. CASE old # {}
    BY <2>1, FindIs DEF AInv, SInv
  <2>2. CASE old = {}
    <3>1. NameOf(c) \in Names
      <4>1. pobj[obj[c].po] \in Pobj
        BY <1>1, Listing DEF AInv
      <4> QED BY <1>1, <4>1 DEF NameOf, Pobj
    <3> QED BY <2>2, <3>1, FreeIdx DEF AInv, SInv
  <2> QED BY <2>1, <2>2
<1>5. Exclusive(obj[c].flags)
  BY <1>1 DEF AInv, ListInv, WorkOf, OpenFlags
<1>6. \A k \in Clients : k # c /\ Holds(k) => obj[k].fh.idx # i /\ obj[k].fh.idx \in Idxs
  <2>1. \A k \in Clients : k # c /\ Holds(k) => obj[k].fh.idx # i
    BY <1>1, <1>4, <1>5, EntryAlone DEF NameOf
  <2>2. \A k \in Clients : Holds(k) => obj[k].fh.idx \in Idxs
    BY DEF Holds, AInv, SInv, Types, Object, Handle
  <2> QED BY <2>1, <2>2
<1>7. /\ entry # None /\ entry.name = NameOf(c) /\ entry.fn = fh.fn
      /\ entry.hash = fh.hash
  BY DEF None
<1>8. /\ OneStep(c) /\ pc'[c] \in {"remove_old", "created"}
      /\ obj'[c] # None /\ obj'[c].po = obj[c].po /\ obj'[c].flags = obj[c].flags
      /\ obj'[c].fh.fn = fh.fn /\ obj'[c].fh.hash = fh.hash /\ obj'[c].fh.idx = i
      /\ dirf'[i] = entry /\ \A j \in Idxs : j # i => dirf'[j] = dirf[j]
  <2> DEFINE new == [obj[c] EXCEPT !.fh.idx = i]
  <2>1. /\ new.po = obj[c].po /\ new.flags = obj[c].flags /\ new.fh.fn = fh.fn
        /\ new.fh.hash = fh.hash /\ new.fh.idx = i
    BY <1>1 DEF Object, Handle
  <2>2. obj' = [obj EXCEPT ![c] = new]
    BY <1>3 DEF AInv, SInv, Types
  <2> HIDE DEF new, i, entry
  <2>3. OneStep(c) /\ obj'[c] = new /\ pc'[c] \in {"remove_old", "created"}
    BY <1>3, <2>2 DEF AInv, SInv, Types, OneStep
  <2>4. obj'[c] # None
    BY <2>3 DEF SInv, Shape, ShapeOf
  <2> QED BY <1>3, <1>4, <2>1, <2>3, <2>4 DEF AInv, SInv, Types
<1>9. /\ \A p \in Pobjs : Opens(c, p)' => Opens(c, p) /\ OpenFlags(c)' = OpenFlags(c)
      /\ ~Renames(c)' /\ WorkOf(c)' /\ SyncOf(c)'
  <2> HIDE DEF i
  <2> QED BY <1>1, <1>8 DEF Opens, OpenFlags, Renames, WorkOf, SyncOf
<1> HIDE DEF i, entry
<1>10. HandleOf(c)'
  BY <1>1, <1>7, <1>8 DEF HandleOf, CurName, NameOf
<1>11. Versions'
  <2>1. fh.hash \in file[fh.fn]
    BY <1>1 DEF AInv, DiskInv, SyncOf
  <2> QED BY <1>1, <1>4, <1>7, <1>8, <2>1, OneEntry DEF AInv, DiskInv
<1>12. ListInv'
  BY <1>1, <1>8, <1>9, ListKept DEF AInv
<1>13. EntriesKept(c)
  BY <1>6, <1>8 DEF EntriesKept
<1>14. DiskInv'
  BY <1>1, <1>2, <1>8, <1>9, <1>10, <1>11, <1>13, DiskKept DEF AInv
<1> QED BY <1>12, <1>13, <1>14 DEF AInv

\* A write makes a version beside the one that the entry selects.
LEMMA WriteKept ==
  ASSUME AInv, CarefulTas, SInv', NEW c \in Clients, Write(c)
  PROVE  AInv'
<1> DEFINE fh == obj[c].fh
           base == file[fh.fn] \cap {fh.hash}
           h == NewHash(fh.fn, base)
<1>1. /\ pc[c] = "idle" /\ obj[c] # None /\ obj[c] \in Object /\ "W" \in obj[c].flags
      /\ fh \in Handle /\ fh.fn \in FileNos /\ fh.idx \in Idxs /\ Holds(c)
      /\ ~obj[c].failed /\ UNCHANGED << dirf, pobj, arg >> /\ SameList /\ SameNames
      /\ \A k \in Clients : pc[k] \notin LockPcs
  BY DEF Write, Usable, CarefulTas, Locked, LockPcs, Holds, AInv, SInv, Shape, ShapeOf,
     Types, Object, Handle, SameList, SameNames
<1>2. /\ dirf[fh.idx] # None /\ dirf[fh.idx].fn = fh.fn
      /\ dirf[fh.idx].name = CurName(c) /\ dirf[fh.idx].hash = fh.hash
  <2>1. HandleOf(c)
    BY DEF AInv, DiskInv
  <2> QED BY <1>1, <2>1 DEF HandleOf
<1>3. base = {fh.hash}
  BY <1>1, <1>2 DEF AInv, DiskInv, Versions, Found, Entries
<1>4. \E v : fh.hash \in v /\ file' = [file EXCEPT ![fh.fn] = v]
  BY <1>3 DEF Write
<1>5. Versions'
  <2> SUFFICES ASSUME NEW j \in Idxs, dirf[j] # None PROVE dirf[j].hash \in file'[dirf[j].fn]
    BY <1>1 DEF Versions, Found, Entries
  <2>1. dirf[j].hash \in file[dirf[j].fn] /\ dirf[j].fn \in FileNos
    BY DEF AInv, DiskInv, Versions, Found, Entries, SInv, Types, Entry
  <2>2. CASE j = fh.idx
    BY <1>1, <1>2, <1>4, <2>2 DEF AInv, SInv, Types
  <2>3. CASE j # fh.idx
    <3>1. dirf[j].fn # fh.fn
      BY <1>1, <1>2, <2>3 DEF AInv, SInv, Unique, Entries
    <3> QED BY <1>4, <2>1, <3>1 DEF AInv, SInv, Types
  <2> QED BY <2>2, <2>3
<1>6. /\ OneStep(c) /\ WorkOf(c)' /\ SyncOf(c)' /\ HandleOf(c)' /\ ~Renames(c)'
      /\ \A p \in Pobjs : Opens(c, p)' => Opens(c, p) /\ OpenFlags(c)' = OpenFlags(c)
  <2>1. CASE /\ file' = [file EXCEPT ![fh.fn] = base \cup {h}]
             /\ obj' = [obj EXCEPT ![c].fh.hash = h] /\ Goto(c, "commit")
    <3> DEFINE new == [obj[c] EXCEPT !.fh.hash = h]
    <3>1. /\ new.po = obj[c].po /\ new.flags = obj[c].flags /\ new.fh.fn = fh.fn
          /\ new.fh.hash = h /\ new.fh.idx = fh.idx
      BY <1>1 DEF Object, Handle
    <3>2. obj' = [obj EXCEPT ![c] = new]
      BY <2>1 DEF AInv, SInv, Types
    <3> HIDE DEF new
    <3>3. OneStep(c) /\ obj'[c] = new /\ pc'[c] = "commit"
      BY <1>1, <2>1, <3>2 DEF AInv, SInv, Types, OneStep, Goto
    <3>4. obj'[c] # None
      BY <3>3 DEF SInv, Shape, ShapeOf
    <3>5. h \in file'[fh.fn]
      BY <1>1, <2>1 DEF AInv, SInv, Types
    <3> HIDE DEF h
    <3>6. HandleOf(c)'
      BY <1>1, <1>2, <3>1, <3>3, <3>4 DEF HandleOf, CurName
    <3> QED BY <1>1, <3>1, <3>3, <3>4, <3>5, <3>6 DEF WorkOf, SyncOf, Renames, Opens, OpenFlags
  <2>2. CASE /\ obj' = [obj EXCEPT ![c].fh.live = FALSE, ![c].failed = TRUE] /\ UNCHANGED pc
    <3> DEFINE new == [obj[c] EXCEPT !.fh.live = FALSE, !.failed = TRUE]
    <3>1. /\ new.po = obj[c].po /\ new.flags = obj[c].flags /\ new.fh.fn = fh.fn
          /\ new.failed /\ new.fh.idx = fh.idx /\ new \in Object
      BY <1>1 DEF Object, Handle
    <3>2. obj' = [obj EXCEPT ![c] = new]
      BY <2>2 DEF AInv, SInv, Types
    <3> HIDE DEF new
    <3>3. OneStep(c) /\ obj'[c] = new /\ pc'[c] = "idle" /\ new # None
      BY <1>1, <2>2, <3>1, <3>2, NoneApart DEF AInv, SInv, Types, OneStep
    <3>4. HandleOf(c)'
      BY <1>1, <1>2, <3>1, <3>3 DEF HandleOf, CurName
    <3> QED BY <1>1, <3>1, <3>3, <3>4 DEF WorkOf, SyncOf, Renames, Opens, OpenFlags
  <2> QED BY <2>1, <2>2 DEF Write
<1>7. ListInv'
  BY <1>1, <1>6, ListKept DEF AInv
<1>8. DiskInv'
  BY <1>1, <1>5, <1>6, DiskKept DEF AInv, EntriesKept
<1> QED BY <1>7, <1>8 DEF AInv

\* The commit of the directory selects the version that was written.
LEMMA CommitKept ==
  ASSUME AInv, SInv', NEW c \in Clients, Commit(c)
  PROVE  AInv' /\ EntriesKept(c)
<1> DEFINE fh == obj[c].fh
           i == fh.idx
           entry == [dirf[i] EXCEPT !.hash = fh.hash]
<1>1. /\ pc[c] = "commit" /\ obj[c] # None /\ obj[c] \in Object /\ i \in Idxs /\ Holds(c)
      /\ "W" \in obj[c].flags /\ pc' = [pc EXCEPT ![c] = "idle"]
      /\ UNCHANGED << file, pobj, arg >> /\ SameList /\ SameNames
  BY DEF Commit, Goto, Holds, AInv, SInv, Shape, ShapeOf, Types, Object, Handle, ListInv,
     WorkOf, OpenFlags, SameList, SameNames
<1>2. /\ \A k \in Clients : k # c => pc[k] \notin LockPcs
      /\ dirh.ents = dirf /\ Dirh = dirh
  BY <1>1, Owner DEF LockPcs, AInv
<1>3. /\ dirf[i] # None /\ dirf[i].fn = fh.fn /\ dirf[i].name = CurName(c)
      /\ fh.hash \in file[fh.fn] /\ dirf[i] \in Entry
      /\ CurName(c) = pobj[obj[c].po].name
  <2>1. HandleOf(c) /\ SyncOf(c)
    BY DEF AInv, DiskInv
  <2> QED BY <1>1, <2>1 DEF HandleOf, SyncOf, AInv, SInv, Types, CurName
<1>4. Exclusive(obj[c].flags)
  BY <1>1, Listing DEF AInv, ListInv, FlagsOf
<1>5. \A k \in Clients : k # c /\ Holds(k) => obj[k].fh.idx # i /\ obj[k].fh.idx \in Idxs
  <2>1. \A k \in Clients : k # c /\ Holds(k) => obj[k].fh.idx # i
    BY <1>1, <1>3, <1>4, EntryAlone
  <2>2. \A k \in Clients : Holds(k) => obj[k].fh.idx \in Idxs
    BY DEF Holds, AInv, SInv, Types, Object, Handle
  <2> QED BY <2>1, <2>2
<1>6. \A new : new \in Object /\ obj' = [obj EXCEPT ![c] = new] =>
        OneStep(c) /\ pc'[c] = "idle" /\ obj'[c] = new /\ new # None
  BY <1>1, NoneApart DEF AInv, SInv, Types, OneStep
<1>7. \E new \in Object : /\ obj' = [obj EXCEPT ![c] = new]
                          /\ new.po = obj[c].po /\ new.flags = obj[c].flags /\ new.fh = fh
                          /\ \/ dirf' = [dirf EXCEPT ![i] = entry] /\ new = obj[c]
                             \/ UNCHANGED dirf /\ new.failed
  <2>1. CASE CommitEntry(i, entry) /\ UNCHANGED obj
    BY <1>1, <1>2, <2>1 DEF CommitEntry, AInv, SInv, Types
  <2>2. CASE obj' = [obj EXCEPT ![c].failed = TRUE] /\ UNCHANGED dirf
    <3> DEFINE new == [obj[c] EXCEPT !.failed = TRUE]
    <3>1. new \in Object /\ new.po = obj[c].po /\ new.flags = obj[c].flags /\ new.fh = fh
          /\ new.failed
      BY <1>1 DEF Object
    <3>2. obj' = [obj EXCEPT ![c] = new]
      BY <2>2 DEF AInv, SInv, Types
    <3> HIDE DEF new
    <3> QED BY <2>2, <3>1, <3>2
  <2> QED BY <1>2, <2>1, <2>2 DEF Commit
<1>8. PICK new \in Object : /\ obj' = [obj EXCEPT ![c] = new]
                            /\ new.po = obj[c].po /\ new.flags = obj[c].flags /\ new.fh = fh
                            /\ \/ dirf' = [dirf EXCEPT ![i] = entry] /\ new = obj[c]
                               \/ UNCHANGED dirf /\ new.failed
  BY <1>7
<1>9. OneStep(c) /\ pc'[c] = "idle" /\ obj'[c] = new /\ new # None
  BY <1>6, <1>8
<1>10. entry.fn = fh.fn /\ entry.name = dirf[i].name /\ entry.hash = fh.hash
       /\ entry \in Entry
  BY <1>1, <1>3 DEF Entry, Object, Handle
<1> HIDE DEF entry
<1>11. /\ \A j \in Idxs : j # i => dirf'[j] = dirf[j]
       /\ dirf'[i] # None /\ dirf'[i].fn = fh.fn /\ dirf'[i].name = dirf[i].name
       /\ dirf'[i].hash \in file[dirf'[i].fn]
       /\ ~new.failed => dirf'[i].hash = fh.hash
  <2>1. CASE dirf' = [dirf EXCEPT ![i] = entry]
    BY <1>1, <1>3, <1>10, <2>1, NoneApart DEF AInv, SInv, Types
  <2>2. CASE UNCHANGED dirf /\ new.failed
    BY <1>1, <1>3, <2>2 DEF AInv, DiskInv, Versions, Found, Entries
  <2> QED BY <1>8, <2>1, <2>2
<1>12. Versions'
  BY <1>1, <1>11, OneEntry DEF AInv, DiskInv
<1>13. /\ WorkOf(c)' /\ SyncOf(c)' /\ ~Renames(c)'
       /\ \A p \in Pobjs : Opens(c, p)' => Opens(c, p) /\ OpenFlags(c)' = OpenFlags(c)
  BY <1>1, <1>8, <1>9 DEF WorkOf, SyncOf, Renames, Opens, OpenFlags
<1>14. HandleOf(c)'
  BY <1>1, <1>3, <1>8, <1>9, <1>11 DEF HandleOf, CurName
<1>15. ListInv'
  BY <1>1, <1>9, <1>13, ListKept DEF AInv
<1>16. EntriesKept(c)
  BY <1>5, <1>11 DEF EntriesKept
<1>17. DiskInv'
  BY <1>1, <1>2, <1>9, <1>12, <1>13, <1>14, <1>16, DiskKept DEF AInv
<1> QED BY <1>15, <1>16, <1>17 DEF AInv

\* Flags with META are nobody else's.
LEMMA MetaExclusive ==
  ASSUME NEW flags, "META" \in flags
  PROVE  Exclusive(flags)
BY CompatibleIs DEF Exclusive

\* ree_fs_remove() takes an entry that only its opener has.
LEMMA FsRemoveKept ==
  ASSUME AInv, SInv', NEW c \in Clients, FsRemove(c)
  PROVE  AInv' /\ EntriesKept(c)
<1> DEFINE idx == Find(dirf, NameOf(c))
           i == Min(idx)
<1>1. /\ pc[c] = "remove" /\ obj[c] # None /\ "META" \in obj[c].flags
      /\ arg[c] \in Work /\ arg[c].po = obj[c].po
      /\ UNCHANGED << file, pobj, obj >> /\ SameList /\ SameNames
  BY DEF FsRemove, AInv, ListInv, WorkOf, OpenFlags, SInv, Shape, ShapeOf, WorkPcs, SameList,
     SameNames
<1>2. /\ Dirh.ents = dirf
      /\ \A k \in Clients : pc[k] \notin LockPcs
  BY DirhIs DEF FsRemove, Locked, LockPcs, AInv, SInv
<1>3. \/ /\ idx # {} /\ dirf' = [dirf EXCEPT ![i] = None]
         /\ pc' = [pc EXCEPT ![c] = "remove_file"]
         /\ arg' = [arg EXCEPT ![c].old = dirf[i].fn]
      \/ /\ pc' = [pc EXCEPT ![c] = "close"] /\ UNCHANGED << dirf, arg >>
  BY <1>1, <1>2 DEF FsRemove, CommitEntry, Goto, AfterRemove
<1>4. OneStep(c) /\ pc'[c] \in {"remove_file", "close"}
  <2> HIDE DEF i, idx
  <2> QED BY <1>1, <1>3 DEF AInv, SInv, Types, OneStep
<1>5. /\ WorkOf(c)' /\ SyncOf(c)' /\ HandleOf(c)' /\ ~Renames(c)'
      /\ \A p \in Pobjs : Opens(c, p)' => Opens(c, p) /\ OpenFlags(c)' = OpenFlags(c)
  BY <1>1, <1>4 DEF WorkOf, SyncOf, HandleOf, Holds, Renames, Opens, OpenFlags
<1>6. Exclusive(obj[c].flags)
  BY <1>1, MetaExclusive
<1>7. Versions' /\ EntriesKept(c)
  <2>1. CASE idx # {} /\ dirf' = [dirf EXCEPT ![i] = None]
    <3>1. i \in Idxs /\ dirf[i].name = NameOf(c)
      BY <2>1, FindIs DEF AInv, SInv
    <3>2. \A k \in Clients : k # c /\ Holds(k) => obj[k].fh.idx # i /\ obj[k].fh.idx \in Idxs
      <4>1. \A k \in Clients : k # c /\ Holds(k) => obj[k].fh.idx # i
        BY <1>1, <1>6, <3>1, EntryAlone DEF NameOf
      <4>2. \A k \in Clients : Holds(k) => obj[k].fh.idx \in Idxs
        BY DEF Holds, AInv, SInv, Types, Object, Handle
      <4> QED BY <4>1, <4>2
    <3> HIDE DEF i, idx
    <3>3. dirf'[i] = None /\ \A j \in Idxs : j # i => dirf'[j] = dirf[j]
      BY <2>1, <3>1 DEF AInv, SInv, Types
    <3>4. Versions'
      BY <1>1, <3>1, <3>3, OneEntry DEF AInv, DiskInv
    <3> QED BY <3>2, <3>3, <3>4 DEF EntriesKept
  <2>2. CASE UNCHANGED dirf
    BY <1>1, <2>2 DEF AInv, DiskInv, Versions, Entries, Found, EntriesKept
  <2> QED BY <1>3, <2>1, <2>2
<1>8. ListInv'
  BY <1>1, <1>4, <1>5, ListKept DEF AInv
<1>9. DiskInv'
  BY <1>1, <1>4, <1>5, <1>7, DiskKept DEF AInv
<1> QED BY <1>7, <1>8, <1>9 DEF AInv

\* ree_fs_rename() gives an entry the name that was reserved.
LEMMA FsRenameKept ==
  ASSUME AInv, SInv', NEW c \in Clients, FsRename(c)
  PROVE  AInv' /\ EntriesKept(c)
<1> DEFINE idx == Find(dirf, pobj[obj[c].po].name)
           i == Min(idx)
           entry == [dirf[i] EXCEPT !.name = NameOf(c)]
<1>1. /\ pc[c] = "rename" /\ obj[c] # None /\ "META" \in obj[c].flags /\ Holds(c)
      /\ obj[c].fh.idx \in Idxs
      /\ UNCHANGED << file, pobj, obj, arg >> /\ SameList /\ SameNames
  BY DEF FsRename, AInv, ListInv, RenameOf, Renames, Holds, SInv, Shape, ShapeOf, Types,
     Object, Handle, SameList, SameNames
<1>2. /\ Dirh.ents = dirf
      /\ \A k \in Clients : pc[k] \notin LockPcs
  BY DirhIs DEF FsRename, Locked, LockPcs, AInv, SInv
<1>3. \/ idx # {} /\ dirf' = [dirf EXCEPT ![i] = entry] /\ pc' = [pc EXCEPT ![c] = "prename"]
      \/ UNCHANGED dirf /\ pc' = [pc EXCEPT ![c] = "release"]
  BY <1>2 DEF FsRename, CommitEntry, Goto
<1>4. Exclusive(obj[c].flags)
  BY <1>1, MetaExclusive
<1>5. /\ dirf[obj[c].fh.idx] # None /\ dirf[obj[c].fh.idx].fn = obj[c].fh.fn
      /\ dirf[obj[c].fh.idx].name = pobj[obj[c].po].name
      /\ ~obj[c].failed => dirf[obj[c].fh.idx].hash = obj[c].fh.hash
  <2>1. HandleOf(c)
    BY DEF AInv, DiskInv
  <2> QED BY <1>1, <2>1 DEF HandleOf, CurName
<1>6. CASE idx # {} /\ dirf' = [dirf EXCEPT ![i] = entry] /\ pc' = [pc EXCEPT ![c] = "prename"]
  <2>1. i \in Idxs /\ i \in Entries(dirf) /\ dirf[i] # None /\ dirf[i] \in Entry
        /\ dirf[i].name = pobj[obj[c].po].name
    BY <1>6, FindIs DEF AInv, SInv
  <2>2. i = obj[c].fh.idx
    BY <1>1, <1>5, <2>1 DEF AInv, SInv, Unique, Entries
  <2>3. \A k \in Clients : k # c /\ Holds(k) => obj[k].fh.idx # i /\ obj[k].fh.idx \in Idxs
    <3>1. \A k \in Clients : k # c /\ Holds(k) => obj[k].fh.idx # i
      BY <1>1, <1>4, <2>1, EntryAlone
    <3>2. \A k \in Clients : Holds(k) => obj[k].fh.idx \in Idxs
      BY DEF Holds, AInv, SInv, Types, Object, Handle
    <3> QED BY <3>1, <3>2
  <2>4. entry # None /\ entry.name = NameOf(c) /\ entry.fn = dirf[i].fn
        /\ entry.hash = dirf[i].hash
    <3>1. /\ entry.name = NameOf(c) /\ entry.fn = dirf[i].fn /\ entry.hash = dirf[i].hash
          /\ NameOf(c) \in Names
      <4>1. Renames(c)
        BY <1>1 DEF Renames
      <4>2. pobj[arg[c].po] \in Pobj
        BY <4>1, Listing DEF AInv
      <4> QED BY <2>1, <4>2 DEF Entry, NameOf, Pobj
    <3>2. entry \in Entry
      BY <2>1, <3>1 DEF Entry
    <3> HIDE DEF entry
    <3> QED BY <3>1, <3>2, NoneApart
  <2> HIDE DEF i, idx, entry
  <2>5. dirf'[i] = entry /\ \A j \in Idxs : j # i => dirf'[j] = dirf[j]
    BY <1>6, <2>1 DEF AInv, SInv, Types
  <2>6. OneStep(c) /\ pc'[c] = "prename"
    BY <1>1, <1>6 DEF AInv, SInv, Types, OneStep
  <2>7. Versions'
    <3>1. dirf[i].hash \in file[dirf[i].fn]
      BY <2>1 DEF AInv, DiskInv, Versions, Found
    <3> QED BY <1>1, <2>1, <2>4, <2>5, <3>1, OneEntry DEF AInv, DiskInv
  <2>8. /\ WorkOf(c)' /\ SyncOf(c)' /\ Renames(c)
        /\ \A p \in Pobjs : Opens(c, p)' => Opens(c, p) /\ OpenFlags(c)' = OpenFlags(c)
    BY <1>1, <2>6 DEF WorkOf, SyncOf, Renames, Opens, OpenFlags
  <2>9. HandleOf(c)'
    BY <1>1, <1>5, <2>2, <2>4, <2>5, <2>6 DEF HandleOf, CurName, NameOf
  <2>10. ListInv'
    BY <1>1, <2>6, <2>8, ListKept DEF AInv
  <2>11. EntriesKept(c)
    BY <2>3, <2>5 DEF EntriesKept
  <2>12. DiskInv'
    BY <1>1, <2>6, <2>7, <2>8, <2>9, <2>11, DiskKept DEF AInv
  <2> QED BY <2>10, <2>11, <2>12 DEF AInv
<1>7. CASE UNCHANGED dirf /\ pc' = [pc EXCEPT ![c] = "release"]
  <2>1. OneStep(c) /\ pc'[c] = "release"
    BY <1>1, <1>7 DEF AInv, SInv, Types, OneStep
  <2>2. /\ WorkOf(c)' /\ SyncOf(c)' /\ ~Renames(c)'
        /\ \A p \in Pobjs : Opens(c, p)' => Opens(c, p) /\ OpenFlags(c)' = OpenFlags(c)
    BY <1>1, <2>1 DEF WorkOf, SyncOf, Renames, Opens, OpenFlags
  <2>3. HandleOf(c)'
    BY <1>1, <1>5, <1>7, <2>1 DEF HandleOf, CurName
  <2> QED BY <1>1, <1>7, <2>1, <2>2, <2>3, QuietKept DEF EntriesKept
<1> QED BY <1>3, <1>6, <1>7

\* tee_pobj_release() of an object that c opened or reserved.
LEMMA ReleaseKept ==
  ASSUME AInv, SInv', NEW c \in Clients, Release(c)
  PROVE  AInv'
<1> DEFINE p == arg[c].po
<1>1. /\ pc[c] \in {"release", "open", "create"} /\ p \in Pobjs /\ CallHolds(c, p)
      /\ UNCHANGED << file, dirf, obj >> /\ pobj' = Released(p)
      /\ pobj[p] \in Pobj /\ pobj[p] # None
  <2>1. /\ pc[c] \in {"release", "open", "create"} /\ p \in Pobjs /\ CallHolds(c, p)
        /\ UNCHANGED << file, dirf, obj >> /\ pobj' = Released(p)
    BY DEF Release, AInv, SInv, Shape, ShapeOf, WorkPcs, Work, CallHolds, disk
  <2> QED BY <2>1, Referenced DEF AInv, SInv
<1>2. /\ \A q \in Pobjs : q # p => pobj'[q] = pobj[q]
      /\ pobj'[p] # None => pobj'[p].name = pobj[p].name /\ pobj'[p].flags = pobj[p].flags
  <2> DEFINE new == [pobj[p] EXCEPT !.refcnt = pobj[p].refcnt - 1]
  <2>1. new.name = pobj[p].name /\ new.flags = pobj[p].flags
    BY <1>1 DEF Pobj
  <2>2. pobj' = [pobj EXCEPT ![p] = None] \/ pobj' = [pobj EXCEPT ![p] = new]
    BY <1>1 DEF Released, AInv, SInv, Types
  <2> HIDE DEF new, p
  <2> QED BY <1>1, <2>1, <2>2 DEF AInv, SInv, Types
<1>3. OneStep(c) /\ pc'[c] = "idle"
  BY <1>1 DEF Release, Return, Goto, AInv, SInv, Types, OneStep
<1>4. /\ \A q \in Pobjs : Opens(c, q)' => Opens(c, q) /\ OpenFlags(c)' = OpenFlags(c)
      /\ ~Renames(c)' /\ WorkOf(c)' /\ SyncOf(c)'
  BY <1>1, <1>3 DEF Opens, OpenFlags, Renames, WorkOf, SyncOf
<1>5. \A k \in Clients : Renames(k)' => pobj'[obj[k].po].refcnt = pobj[obj[k].po].refcnt
  <2> SUFFICES ASSUME NEW k \in Clients, Renames(k)'
               PROVE  pobj'[obj[k].po].refcnt = pobj[obj[k].po].refcnt
    OBVIOUS
  <2>1. Renames(k)
    BY <1>4, <1>3, Others
  <2>2. obj[k] # None /\ obj[k].po \in Pobjs /\ pobj[obj[k].po].refcnt = 1
    BY <2>1, Listing DEF AInv, ListInv, RenameOf
  <2>3. obj[k].po # p
    BY <1>1, <2>2, TwoReferences DEF AInv
  <2> QED BY <1>2, <2>2, <2>3
<1>6. \A q \in Pobjs : pobj'[q] # None =>
        /\ pobj[q] # None
        /\ pobj'[q].name = pobj[q].name /\ pobj'[q].flags = pobj[q].flags
  BY <1>1, <1>2
<1>7. HandleOf(c)'
  <2> SUFFICES ASSUME obj[c] # None, obj[c].fh.idx # -1 PROVE HandleOf(c)'
    BY <1>1 DEF HandleOf, Holds
  <2>1. HandleOf(c) /\ Holds(c) /\ pc[c] # "prename" /\ pc[c] # "commit"
    BY <1>1 DEF AInv, DiskInv, Holds
  <2>2. obj[c].po \in Pobjs /\ pobj'[obj[c].po] # None
    <3>1. AllListed' /\ obj[c].po \in Pobjs /\ Opens(c, obj[c].po)
      BY AllListedNext, Listing DEF AInv
    <3>2. \A q \in Pobjs : obj[c].po = q => Opens(c, q)'
      BY <1>1 DEF Opens
    <3> QED BY <3>1, <3>2 DEF AllListed
  <2> QED BY <1>1, <1>3, <1>6, <2>1, <2>2 DEF HandleOf, CurName
<1>8. ListInv'
  BY <1>3, <1>4, <1>5, <1>6, ListFewer DEF AInv
<1>9. DiskInv'
  <2>1. SameNames
    BY <1>6 DEF SameNames
  <2> QED BY <1>1, <1>3, <1>4, <1>7, <2>1, DiskQuiet DEF AInv
<1> QED BY <1>8, <1>9 DEF AInv

\* tee_pobj_rename() gives the object the name that storage has for it.
LEMMA PobjRenameKept ==
  ASSUME AInv, SInv', NEW c \in Clients, PobjRename(c)
  PROVE  AInv'
<1> DEFINE p == obj[c].po
           q == arg[c].po
<1>1. /\ pc[c] = "prename" /\ Renames(c) /\ RenameOf(c)
      /\ UNCHANGED << file, dirf, obj, arg >>
  BY DEF PobjRename, Renames, disk, AInv, ListInv
<1>2. /\ obj[c] # None /\ p \in Pobjs /\ q \in Pobjs /\ Opens(c, p)
      /\ OpenFlags(c) = obj[c].flags /\ pobj[p] \in Pobj /\ pobj[p] # None
      /\ pobj[q] \in Pobj /\ pobj[q] # None
  BY <1>1, Listing DEF AInv
<1>3. /\ "META" \in obj[c].flags /\ pobj[p].refcnt = 1 /\ "META" \in pobj[q].flags
      /\ Listed(NameOf(c)) = {q} /\ \A d \in Clients : ~Opens(d, q)
  BY <1>1 DEF RenameOf
<1>4. "META" \in pobj[p].flags
  BY <1>2, <1>3, CompatibleIs DEF AInv, ListInv, FlagsOf
<1>5. /\ \A r \in Pobjs : r # p => pobj'[r] = pobj[r]
      /\ pobj'[p] # None /\ pobj'[p].name = NameOf(c) /\ pobj'[p].flags = pobj[p].flags
  <2> DEFINE new == [pobj[p] EXCEPT !.name = NameOf(c)]
  <2>1. /\ new.name = NameOf(c) /\ new.flags = pobj[p].flags /\ new \in Pobj
    BY <1>2 DEF Pobj, NameOf
  <2>2. pobj' = [pobj EXCEPT ![p] = new]
    BY <1>3 DEF PobjRename, AInv, SInv, Types
  <2> HIDE DEF new, p
  <2> QED BY <1>2, <2>1, <2>2, NoneApart DEF AInv, SInv, Types
<1>6. OneStep(c) /\ pc'[c] = "release"
  BY <1>1 DEF PobjRename, AInv, SInv, Types, OneStep, Goto
<1>7. \A k \in Clients : OpenFlags(k)' = OpenFlags(k)
        /\ \A r \in Pobjs : Opens(k, r)' <=> Opens(k, r)
  <2>1. OpenFlags(c)' = OpenFlags(c) /\ \A r \in Pobjs : Opens(c, r)' <=> Opens(c, r)
    BY <1>1, <1>6 DEF Opens, OpenFlags
  <2> QED BY <1>6, <2>1, Others
<1>8. \A k \in Clients : Renames(k)' => k # c /\ Renames(k)
  BY <1>6, Others DEF Renames
<1>9. ASSUME NEW k \in Clients, k # c, obj[k] # None
      PROVE  /\ obj[k].po \in Pobjs /\ obj[k].po # p
             /\ Renames(k) => /\ arg[k].po \in Pobjs /\ arg[k].po # p
                              /\ NameOf(k)' = NameOf(k)
  <2>1. obj[k].po \in Pobjs /\ obj[k].po # p
    BY <1>2, <1>3, <1>9, TwoReferences, Listing DEF AInv
  <2>2. ASSUME Renames(k) PROVE arg[k].po \in Pobjs /\ arg[k].po # p
    BY <1>2, <2>2, Listing DEF AInv, ListInv, RenameOf
  <2> QED BY <1>1, <1>5, <2>1, <2>2 DEF NameOf
<1>10. \A k \in Clients : FlagsOf(k)' /\ WorkOf(k)'
  <2>1. WorkOf(c)'
    BY <1>6 DEF WorkOf
  <2>2. \A k \in Clients : WorkOf(k)'
    BY <1>6, <2>1, Others DEF AInv, ListInv
  <2>3. \A r \in Pobjs : pobj'[r].flags = pobj[r].flags
    BY <1>5
  <2>4. \A k \in Clients : FlagsOf(k)'
    BY <1>7, <2>3 DEF AInv, ListInv, FlagsOf
  <2> QED BY <2>2, <2>4
<1>11. \A r \in Pobjs : r # p /\ pobj[r] # None /\ pobj[r].name = NameOf(c) => r = q
  BY <1>3 DEF Listed
<1>12. Sharers' /\ NamesApart' /\ TwoOfName'
  <2>1. Sharers'
    BY <1>7 DEF AInv, ListInv, Sharers
  <2>2. NamesApart'
    <3>1. \A k \in Clients : \A r \in Pobjs : Opens(k, r) => pobj[r] # None
      BY Listing DEF AInv
    <3> QED BY <1>3, <1>5, <1>7, <1>11, <3>1 DEF AInv, ListInv, NamesApart
  <2>3. TwoOfName'
    BY <1>3, <1>4, <1>5, <1>11 DEF AInv, ListInv, TwoOfName
  <2> QED BY <2>1, <2>2, <2>3
<1>13. Reserved'
  BY <1>1, <1>8 DEF AInv, ListInv, Reserved
<1>14. ASSUME NEW k \in Clients, Renames(k)' PROVE RenameOf(k)'
  <2>1. /\ k # c /\ Renames(k) /\ obj[k] # None
        /\ obj[k].po \in Pobjs /\ obj[k].po # p
        /\ arg[k].po \in Pobjs /\ arg[k].po # p /\ NameOf(k)' = NameOf(k)
    BY <1>8, <1>9, <1>14, Listing DEF AInv
  <2>2. RenameOf(k)
    BY DEF AInv, ListInv
  <2>3. NameOf(c) # NameOf(k)
    BY <1>1, <1>3, <2>1, <2>2 DEF RenameOf, AInv, ListInv, Reserved
  <2>4. Listed(NameOf(k))' = Listed(NameOf(k))
    <3>1. p \notin Listed(NameOf(k))
      BY <2>1, <2>2 DEF RenameOf
    <3> QED BY <1>2, <1>5, <2>1, <2>3, <3>1 DEF Listed
  <2> QED BY <1>1, <1>5, <1>7, <2>1, <2>2, <2>4 DEF RenameOf
<1>15. ListInv'
  BY <1>10, <1>12, <1>13, <1>14 DEF ListInv, RenameOf
<1>16. \A k \in Clients : HandleOf(k)' /\ SyncOf(k)'
  <2> SUFFICES ASSUME NEW k \in Clients PROVE HandleOf(k)' /\ SyncOf(k)'
    OBVIOUS
  <2>1. HandleOf(k) /\ SyncOf(k)
    BY DEF AInv, DiskInv
  <2>2. CASE k = c
    BY <1>1, <1>5, <1>6, <2>1, <2>2 DEF HandleOf, SyncOf, Holds, CurName
  <2>3. CASE k # c
    <3>1. Holds(k) => CurName(k)' = CurName(k)
      BY <1>1, <1>5, <1>6, <1>9, <2>3, Others DEF CurName, Holds, Renames
    <3> QED BY <1>1, <1>6, <2>1, <2>3, <3>1, Others DEF HandleOf, SyncOf
  <2> QED BY <2>2, <2>3
<1>17. Versions'
  BY <1>1 DEF AInv, DiskInv, Versions, Entries, Found
<1> QED BY <1>15, <1>16, <1>17 DEF AInv, DiskInv

\* What a call gives to tee_pobj_get().
Asks(c, name, flags, usage, next) ==
  \/ usage = "open" /\ next = "open" /\ obj[c] = None
     /\ ("W" \in flags => Exclusive(flags))
  \/ usage = "create" /\ next = "create" /\ obj[c] = None /\ Exclusive(flags)
  \/ usage = "rename" /\ next = "rename" /\ flags = {"META"}
     /\ obj[c] # None /\ "META" \in obj[c].flags /\ pobj[obj[c].po].refcnt = 1
  \/ usage = "enum" /\ next = "enum_open"
     /\ \A k \in Clients : Renames(k) => pobj[obj[k].po].name # name

\* The object is not in the list yet.
LEMMA GetNew ==
  ASSUME AInv, SInv', NEW c \in Clients, NEW name, NEW flags, NEW usage, NEW next,
         Asks(c, name, flags, usage, next), pc[c] \in {"idle", "enum"},
         OneStep(c), pc'[c] = next, UNCHANGED obj,
         NEW p \in Pobjs, arg'[c].po = p, arg'[c].flags = flags,
         pobj[p] = None, Listed(name) = {},
         pobj'[p] # None, pobj'[p].name = name, pobj'[p].flags = flags,
         \A q \in Pobjs : q # p => pobj'[q] = pobj[q]
  PROVE  ListInv'
<1>1. \A k \in Clients : \A q \in Pobjs : Opens(k, q) => q # p /\ pobj[q] # None
  BY Listing DEF AInv
<1>2. \A k \in Clients : \A q \in Pobjs : Opens(k, q)' =>
        \/ Opens(k, q) /\ OpenFlags(k)' = OpenFlags(k)
        \/ /\ k = c /\ q = p /\ next \in {"open", "create"}
           /\ OpenFlags(k)' = flags /\ obj[c] = None
  <2>1. \A q \in Pobjs : Opens(c, q)' =>
          \/ Opens(c, q) /\ OpenFlags(c)' = OpenFlags(c)
          \/ q = p /\ next \in {"open", "create"} /\ OpenFlags(c)' = flags /\ obj[c] = None
    BY DEF Opens, OpenFlags, Asks
  <2> QED BY <2>1, Others
<1>3. \A k \in Clients : Renames(k) =>
        /\ obj[k] # None /\ obj[k].po \in Pobjs /\ obj[k].po # p
        /\ arg[k].po \in Pobjs /\ arg[k].po # p /\ pobj[arg[k].po] # None
  BY Listing DEF AInv
<1>4. \A k \in Clients : FlagsOf(k)' /\ WorkOf(k)'
  <2>1. WorkOf(c)'
    BY DEF WorkOf, Asks, OpenFlags
  <2>2. \A k \in Clients : WorkOf(k)'
    BY <2>1, Others DEF AInv, ListInv
  <2>3. next \in {"open", "create"} => ("W" \in flags => Exclusive(flags))
    BY DEF Asks
  <2>4. \A k \in Clients : FlagsOf(k)'
    BY <1>1, <1>2, <2>3 DEF AInv, ListInv, FlagsOf
  <2> QED BY <2>2, <2>4
<1>5. \A q \in Pobjs : pobj[q] # None => pobj[q].name # name
  BY DEF Listed
<1>6. Sharers' /\ NamesApart' /\ TwoOfName'
  <2>1. Sharers'
    BY <1>1, <1>2 DEF AInv, ListInv, Sharers
  <2>2. NamesApart'
    BY <1>1, <1>2, <1>5 DEF AInv, ListInv, NamesApart
  <2>3. TwoOfName'
    BY <1>5 DEF AInv, ListInv, TwoOfName
  <2> QED BY <2>1, <2>2, <2>3
<1>7. \A k \in Clients : Renames(k)' =>
        \/ k # c /\ Renames(k) /\ arg'[k] = arg[k]
        \/ k = c /\ next = "rename"
  BY Others DEF Renames, Asks
<1>8. Reserved'
  BY <1>3, <1>7 DEF AInv, ListInv, Reserved
<1>9. ASSUME NEW k \in Clients, k # c, Renames(k) PROVE RenameOf(k)'
  <2>1. RenameOf(k) /\ arg'[k] = arg[k]
    BY <1>9, Others DEF AInv, ListInv
  <2>2. NameOf(k)' = NameOf(k)
    BY <1>3, <1>9, <2>1 DEF NameOf
  <2>3. NameOf(k) # name
    BY <1>3, <1>5, <1>9 DEF NameOf
  <2>4. Listed(NameOf(k))' = Listed(NameOf(k))
    BY <2>2, <2>3 DEF Listed
  <2>5. \A d \in Clients : ~Opens(d, arg[k].po)'
    BY <1>2, <1>3, <1>9, <2>1 DEF RenameOf
  <2> QED BY <1>3, <1>9, <2>1, <2>4, <2>5 DEF RenameOf
<1>10. ASSUME next = "rename" PROVE RenameOf(c)'
  <2>1. /\ flags = {"META"} /\ obj[c] # None /\ "META" \in obj[c].flags
        /\ pobj[obj[c].po].refcnt = 1
    BY <1>10 DEF Asks
  <2>2. obj[c].po \in Pobjs /\ obj[c].po # p
    BY <1>1, <2>1, Listing DEF AInv
  <2>3. Listed(NameOf(c))' = {p}
    <3>1. NameOf(c)' = name
      BY DEF NameOf
    <3> QED BY <1>5, <3>1 DEF Listed
  <2>4. \A d \in Clients : ~Opens(d, p)'
    BY <1>1, <1>2, <1>10
  <2> QED BY <2>1, <2>2, <2>3, <2>4 DEF RenameOf
<1>11. \A k \in Clients : RenameOf(k)'
  BY <1>7, <1>9, <1>10 DEF RenameOf
<1> QED BY <1>4, <1>6, <1>8, <1>11 DEF ListInv

\* The object is in the list, and what c asks for agrees with its flags.
LEMMA GetOld ==
  ASSUME AInv, SInv', NEW c \in Clients, NEW name, NEW flags, NEW usage, NEW next,
         Asks(c, name, flags, usage, next), pc[c] \in {"idle", "enum"},
         OneStep(c), pc'[c] = next, UNCHANGED obj,
         NEW p \in Listed(name), arg'[c].po = p, arg'[c].flags = flags,
         usage # "enum" => Compatible(pobj[p].flags, flags),
         pobj'[p] # None, pobj'[p].name = name, pobj'[p].flags = pobj[p].flags,
         \A q \in Pobjs : q # p => pobj'[q] = pobj[q]
  PROVE  ListInv'
<1>1. p \in Pobjs /\ pobj[p] # None /\ pobj[p].name = name /\ pobj[p].flags \in SUBSET Flags
  BY DEF Listed, AInv, SInv, Types, Pobj
<1>2. \/ next = "open" /\ Compatible(pobj[p].flags, flags) /\ obj[c] = None
         /\ "META" \notin pobj[p].flags /\ ("W" \in flags => Exclusive(flags))
      \/ next = "enum_open" /\ \A k \in Clients : Renames(k) => pobj[obj[k].po].name # name
  <2>1. ~(usage = "create" /\ Exclusive(flags))
    BY <1>1 DEF Exclusive
  <2>2. ~(usage = "rename" /\ flags = {"META"})
    BY CompatibleIs
  <2> QED BY <2>1, <2>2, CompatibleIs DEF Asks
<1>3. \A k \in Clients : \A q \in Pobjs : Opens(k, q)' =>
        \/ Opens(k, q) /\ OpenFlags(k)' = OpenFlags(k)
        \/ k = c /\ q = p /\ next = "open" /\ OpenFlags(k)' = flags
  <2>1. \A q \in Pobjs : Opens(c, q)' =>
          \/ Opens(c, q) /\ OpenFlags(c)' = OpenFlags(c)
          \/ q = p /\ next = "open" /\ OpenFlags(c)' = flags
    BY <1>2 DEF Opens, OpenFlags
  <2> QED BY <2>1, Others
<1>4. \A q \in Pobjs : /\ pobj'[q] # None <=> pobj[q] # None
                       /\ pobj'[q].name = pobj[q].name /\ pobj'[q].flags = pobj[q].flags
  BY <1>1
<1>5. \A k \in Clients : FlagsOf(k)' /\ WorkOf(k)'
  <2>1. WorkOf(c)'
    BY <1>2 DEF WorkOf
  <2>2. \A k \in Clients : WorkOf(k)'
    BY <2>1, Others DEF AInv, ListInv
  <2>3. \A k \in Clients : FlagsOf(k)'
    BY <1>2, <1>3, <1>4 DEF AInv, ListInv, FlagsOf
  <2> QED BY <2>2, <2>3
<1>6. next = "open" => \A k \in Clients : Opens(k, p) =>
        Compatible(OpenFlags(k), flags) /\ Compatible(flags, OpenFlags(k))
  BY <1>1, <1>2, CompatibleIs DEF AInv, ListInv, FlagsOf
<1>7. Sharers'
  BY <1>3, <1>6 DEF AInv, ListInv, Sharers
<1>8. TwoOfName'
  BY <1>4 DEF AInv, ListInv, TwoOfName
<1>9. NamesApart'
  <2>1. next = "open" => \A q \in Pobjs : q # p /\ pobj[q] # None => pobj[q].name # name
    BY <1>1, <1>2 DEF AInv, ListInv, TwoOfName
  <2>2. \A k \in Clients : \A q \in Pobjs : Opens(k, q) => pobj[q] # None
    BY Listing DEF AInv
  <2> QED BY <1>1, <1>3, <1>4, <2>1, <2>2 DEF AInv, ListInv, NamesApart
<1>10. \A k \in Clients : Renames(k)' => k # c /\ Renames(k) /\ arg'[k] = arg[k]
  BY <1>2, Others DEF Renames
<1>11. Reserved'
  BY <1>10 DEF AInv, ListInv, Reserved
<1>12. ASSUME NEW k \in Clients, k # c, Renames(k) PROVE RenameOf(k)'
  <2>1. RenameOf(k) /\ arg'[k] = arg[k]
    BY <1>12, Others DEF AInv, ListInv
  <2>2. /\ obj[k] # None /\ obj[k].po \in Pobjs /\ Opens(k, obj[k].po)
        /\ OpenFlags(k) = obj[k].flags
        /\ arg[k].po \in Pobjs /\ pobj[arg[k].po] # None
    BY <1>12, Listing DEF AInv
  <2>3. obj[k].po # p
    <3>1. "META" \in pobj[obj[k].po].flags
      BY <1>12, <2>1, <2>2, CompatibleIs DEF AInv, ListInv, FlagsOf, RenameOf
    <3> QED BY <1>1, <1>2, <1>12, <3>1
  <2>4. next = "open" => arg[k].po # p
    BY <1>2, <1>12, <2>1 DEF RenameOf
  <2>5. NameOf(k)' = NameOf(k)
    BY <1>4, <2>1, <2>2 DEF NameOf
  <2>6. Listed(NameOf(k))' = Listed(NameOf(k))
    BY <1>4, <2>5 DEF Listed
  <2>7. \A d \in Clients : ~Opens(d, arg[k].po)'
    BY <1>3, <1>12, <2>1, <2>2, <2>4 DEF RenameOf
  <2> QED BY <1>4, <1>12, <2>1, <2>2, <2>3, <2>6, <2>7 DEF RenameOf
<1>13. \A k \in Clients : RenameOf(k)'
  BY <1>10, <1>12 DEF RenameOf
<1> QED BY <1>5, <1>7, <1>8, <1>9, <1>11, <1>13 DEF ListInv

\* tee_pobj_get(), for the four calls that it serves.
LEMMA GetKept ==
  ASSUME AInv, SInv', NEW c \in Clients, NEW name \in Names, NEW flags \in SUBSET Flags,
         NEW usage, NEW overwrite, NEW next, Asks(c, name, flags, usage, next),
         pc[c] \in {"idle", "enum"}, PobjGet(c, name, flags, usage, overwrite, next),
         UNCHANGED << disk, mem, obj >>
  PROVE  AInv'
<1> DEFINE work(p) == [po |-> p, flags |-> flags, overwrite |-> overwrite, old |-> 0]
           fresh == [name |-> name, refcnt |-> 1, flags |-> flags, creating |-> usage = "create"]
           more(p) == [pobj[p] EXCEPT !.refcnt = @ + 1]
<1>1. PICK p \in Pobjs :
        /\ pc' = [pc EXCEPT ![c] = next] /\ arg' = [arg EXCEPT ![c] = work(p)]
        /\ \/ /\ pobj[p] = None /\ Listed(name) = {} /\ pobj' = [pobj EXCEPT ![p] = fresh]
           \/ /\ pobj[p] # None /\ p \in Listed(name)
              /\ usage # "enum" => Compatible(pobj[p].flags, flags)
              /\ pobj' = [pobj EXCEPT ![p] = more(p)]
  <2>1. PICK p \in Pobjs :
        /\ arg' = [arg EXCEPT ![c] = work(p)]
        /\ \/ /\ pobj[p] = None /\ Listed(name) = {} /\ pobj' = [pobj EXCEPT ![p] = fresh]
           \/ /\ pobj[p] # None /\ p \in Listed(name)
              /\ usage # "enum" => Compatible(pobj[p].flags, flags)
              /\ pobj' = [pobj EXCEPT ![p].refcnt = @ + 1]
    BY Got DEF AInv, SInv
  <2>2. pc' = [pc EXCEPT ![c] = next]
    BY Got DEF AInv, SInv
  <2>3. pobj \in [Pobjs -> Pobj \cup {None}]
    BY DEF AInv, SInv, Types
  <2> QED BY <2>1, <2>2, <2>3
<1>2. /\ OneStep(c) /\ pc'[c] = next /\ arg'[c].po = p /\ arg'[c].flags = flags
      /\ UNCHANGED << file, dirf, obj >>
  <2>1. work(p).po = p /\ work(p).flags = flags
    OBVIOUS
  <2> HIDE DEF work
  <2> QED BY <1>1, <2>1 DEF AInv, SInv, Types, OneStep, disk
<1>3. ASSUME pobj[p] = None /\ Listed(name) = {} /\ pobj' = [pobj EXCEPT ![p] = fresh]
      PROVE  ListInv' /\ SameNames
  <2>1. fresh # None /\ fresh.name = name /\ fresh.flags = flags
    BY DEF None
  <2> HIDE DEF fresh
  <2>2. pobj'[p] = fresh /\ \A q \in Pobjs : q # p => pobj'[q] = pobj[q]
    BY <1>3 DEF AInv, SInv, Types
  <2>3. ListInv'
    BY <1>2, <1>3, <2>1, <2>2, GetNew
  <2>4. SameNames
    BY <1>3, <2>2 DEF SameNames
  <2> QED BY <2>3, <2>4
<1>4. ASSUME /\ pobj[p] # None /\ p \in Listed(name)
             /\ usage # "enum" => Compatible(pobj[p].flags, flags)
             /\ pobj' = [pobj EXCEPT ![p] = more(p)]
      PROVE  ListInv' /\ SameNames
  <2>1. more(p) \in Pobj /\ more(p).name = pobj[p].name /\ more(p).flags = pobj[p].flags
    BY <1>4 DEF AInv, SInv, Types, Pobj
  <2> HIDE DEF more
  <2>2. /\ pobj'[p] = more(p) /\ pobj'[p] # None /\ pobj[p].name = name
        /\ \A q \in Pobjs : q # p => pobj'[q] = pobj[q]
    BY <1>4, <2>1, NoneApart DEF AInv, SInv, Types, Listed
  <2>3. ListInv'
    BY <1>2, <1>4, <2>1, <2>2, GetOld
  <2>4. SameNames
    BY <2>1, <2>2 DEF SameNames
  <2> QED BY <2>3, <2>4
<1>5. ListInv' /\ SameNames
  BY <1>1, <1>3, <1>4
<1>6. HandleOf(c)' /\ SyncOf(c)'
  <2>1. next \in {"open", "create", "rename", "enum_open"}
        /\ HandleOf(c)
    BY DEF Asks, AInv, DiskInv
  <2>2. obj[c] # None => obj[c].po \in Pobjs /\ pobj[obj[c].po] # None
                         /\ pobj'[obj[c].po] # None
    <3>1. AllListed'
      BY AllListedNext
    <3>2. \A q \in Pobjs : obj[c] # None /\ obj[c].po = q => Opens(c, q)'
      BY <1>2 DEF Opens
    <3> QED BY <3>1, <3>2, Listing DEF AInv, AllListed
  <2>3. obj[c] # None => pobj'[obj[c].po].name = pobj[obj[c].po].name
    BY <1>5, <2>2 DEF SameNames
  <2> QED BY <1>2, <2>1, <2>3 DEF HandleOf, SyncOf, Holds, CurName
<1>7. DiskInv'
  BY <1>2, <1>5, <1>6, DiskQuiet DEF AInv
<1> QED BY <1>5, <1>7 DEF AInv

-----------------------------------------------------------------------------
(* The invariant.                                                          *)

\* What the list guarantees holds when nothing is open.
LEMMA ListInvFresh ==
  ASSUME Fresh
  PROVE  ListInv
<1>1. \A c \in Clients : obj[c] = None /\ pc[c] = "idle"
  BY DEF Fresh
<1>2. \A p \in Pobjs : pobj[p] = None
  BY DEF Fresh
<1>3. \A c \in Clients : ~Renames(c) /\ \A p \in Pobjs : ~Opens(c, p)
  BY <1>1 DEF Renames, Opens
<1>4. \A c \in Clients : FlagsOf(c) /\ WorkOf(c) /\ RenameOf(c)
  BY <1>1, <1>3 DEF FlagsOf, WorkOf, RenameOf
<1>5. Sharers /\ NamesApart /\ TwoOfName /\ Reserved
  BY <1>2, <1>3 DEF Sharers, NamesApart, TwoOfName, Reserved
<1> QED BY <1>4, <1>5 DEF ListInv

\* The invariant holds in the state of a start or a reset.
LEMMA AInvFresh ==
  ASSUME SInv, Fresh, Versions
  PROVE  AInv
<1>1. \A c \in Clients : HandleOf(c) /\ SyncOf(c)
  BY DEF Fresh, HandleOf, SyncOf, Holds
<1> QED BY <1>1, ListInvFresh DEF AInv, DiskInv

\* The same of the next state.
LEMMA AInvFreshNext == SInv' /\ Fresh' /\ Versions' => AInv'
<1>1. SInv /\ Fresh /\ Versions => AInv
  BY AInvFresh
<1> QED BY <1>1, PTL

\* The invariant holds at the start.
LEMMA AInvInit == Init => AInv
<1> SUFFICES ASSUME Init PROVE AInv
  OBVIOUS
<1>1. Fresh /\ Versions
  BY DEF Init, Fresh, Versions, Entries
<1> QED BY <1>1, SInvInit, AInvFresh

\* The invariant holds after each step.
LEMMA AInvNext ==
  ASSUME AInv, SInv', CarefulTas, [Next]_vars
  PROVE  AInv'
<1>1. CASE UNCHANGED vars
  <2>1. ListInv'
    BY <1>1 DEF vars, AInv, ListInv, FlagsOf, WorkOf, RenameOf, Sharers, NamesApart,
       TwoOfName, Reserved, Opens, OpenFlags, Renames, NameOf, Listed
  <2>2. DiskInv'
    BY <1>1 DEF vars, disk, AInv, DiskInv, HandleOf, SyncOf, Versions, Holds, CurName, NameOf,
       Found, Entries
  <2> QED BY <2>1, <2>2 DEF AInv
<1>2. CASE Crash
  <2>1. Fresh'
    BY <1>2 DEF Crash, Fresh
  <2>2. Versions'
    BY <1>2 DEF Crash, AInv, DiskInv, Versions, Found, Entries, SInv, Types, Entry
  <2> QED BY <2>1, <2>2, AInvFreshNext
<1>3. ASSUME NEW c \in Clients,
             \/ \E name \in Names, flags \in Modes : Open(c, name, flags)
             \/ \E name \in Names, flags \in CreateModes, overwrite \in BOOLEAN :
                  Create(c, name, flags, overwrite)
             \/ \E name \in Names : Rename(c, name)
             \/ EnumGet(c)
      PROVE AInv'
  <2>1. ASSUME NEW name \in Names, NEW flags \in Modes, Open(c, name, flags) PROVE AInv'
    <3>1. /\ pc[c] = "idle" /\ UNCHANGED << disk, mem, obj >>
          /\ PobjGet(c, name, flags, "open", FALSE, "open")
          /\ Asks(c, name, flags, "open", "open") /\ flags \in SUBSET Flags
      BY <2>1, StorageAssumption DEF Open, Free, Flags, Asks, CarefulTas
    <3> QED BY <3>1, GetKept
  <2>2. ASSUME NEW name \in Names, NEW flags \in CreateModes, NEW overwrite \in BOOLEAN,
               Create(c, name, flags, overwrite) PROVE AInv'
    <3>1. /\ pc[c] = "idle" /\ UNCHANGED << disk, mem, obj >>
          /\ PobjGet(c, name, flags, "create", overwrite, "create")
          /\ Asks(c, name, flags, "create", "create") /\ flags \in SUBSET Flags
      BY <2>2, StorageAssumption DEF Create, Free, Flags, Asks, CarefulTas
    <3> QED BY <3>1, GetKept
  <2>3. ASSUME NEW name \in Names, Rename(c, name) PROVE AInv'
    <3>1. /\ pc[c] = "idle" /\ UNCHANGED << disk, mem, obj >>
          /\ PobjGet(c, name, {"META"}, "rename", FALSE, "rename")
          /\ Asks(c, name, {"META"}, "rename", "rename") /\ {"META"} \in SUBSET Flags
      BY <2>3 DEF Rename, Flags, Asks, CarefulTas
    <3> QED BY <3>1, GetKept
  <2>4. ASSUME EnumGet(c) PROVE AInv'
    <3>1. /\ pc[c] = "enum" /\ arg[c] \in Names /\ UNCHANGED << disk, mem, obj >>
          /\ PobjGet(c, arg[c], {}, "enum", FALSE, "enum_open")
          /\ ~Renaming(arg[c]) /\ {} \in SUBSET Flags
      BY <2>4 DEF EnumGet, AInv, SInv, Shape, ShapeOf, CarefulTas
    <3>2. Asks(c, arg[c], {}, "enum", "enum_open")
      BY <3>1 DEF Asks, Renaming, Renames
    <3> QED BY <3>1, <3>2, GetKept
  <2> QED BY <1>3, <2>1, <2>2, <2>3, <2>4
<1>4. ASSUME NEW c \in Clients,
             \/ FsOpen(c) \/ Release(c) \/ Close(c)
             \/ FsCreate(c) \/ SetName(c) \/ SetNameFails(c) \/ RemoveOld(c)
             \/ \E final, close \in BOOLEAN : CreateFinal(c, final, close)
      PROVE AInv'
  BY <1>4, FsOpenKept, ReleaseKept, CloseKept, FsCreateKept, SetNameKept, SetNameFailsKept,
     RemoveOldKept, CreateFinalKept
<1>5. ASSUME NEW c \in Clients,
             Write(c) \/ Commit(c) \/ Delete(c) \/ FsRemove(c) \/ RemoveFile(c)
      PROVE AInv'
  BY <1>5, WriteKept, CommitKept, DeleteKept, FsRemoveKept, RemoveFileKept
<1>6. ASSUME NEW c \in Clients,
             \/ FsRename(c) \/ PobjRename(c)
             \/ StartEnum(c) \/ NextEnum(c) \/ EnumOpen(c) \/ CloseDir(c)
      PROVE AInv'
  BY <1>6, FsRenameKept, PobjRenameKept, EnumKept
<1> QED BY <1>1, <1>2, <1>3, <1>4, <1>5, <1>6 DEF Next

\* The invariant always holds.
LEMMA SharingInvariant ==
  ASSUME CarefulTas
  PROVE  Spec => []AInv
<1>1. AInv /\ [Next]_vars => AInv'
  <2> SUFFICES ASSUME AInv, [Next]_vars PROVE AInv'
    OBVIOUS
  <2>1. SInv'
    BY SInvNext DEF AInv
  <2> QED BY <2>1, AInvNext
<1> QED BY <1>1, AInvInit, PTL DEF Spec

-----------------------------------------------------------------------------
(* The properties.                                                         *)

\* Whenever the power fails, the directory file on storage names each object once,
\* no two objects share a file, and each entry selects a version that its file has
\* (the order of set_name(), remove, ree_fs_write_primitive() and commit).
THEOREM DirectoryStaysIntact ==
  ASSUME CarefulTas
  PROVE  Spec => []DirectoryIntact
<1>1. AInv => DirectoryIntact
  BY DEF AInv, SInv, Unique, DiskInv, Versions, DirectoryIntact
<1> QED BY <1>1, SharingInvariant, PTL

\* Whoever may write an object has a handle whose entry is that of the object, so
\* no other call removed, replaced or renamed it (ree_fs_remove(), set_name()).
THEOREM WriterKeepsEntry ==
  ASSUME CarefulTas
  PROVE  Spec => []WriterHasEntry
<1>1. AInv => WriterHasEntry
  BY DEF AInv, DiskInv, HandleOf, Writes, WriterHasEntry
<1> QED BY <1>1, SharingInvariant, PTL

\* Two handles of one entry are of one object in the list.
LEMMA SameEntry ==
  ASSUME AInv, NEW c \in Clients, NEW d \in Clients, c # d, Holds(c), Holds(d),
         obj[c].fh.idx = obj[d].fh.idx
  PROVE  Compatible(obj[c].flags, obj[d].flags)
<1>1. CurName(c) = CurName(d)
  <2>1. HandleOf(c) /\ HandleOf(d)
    BY DEF AInv, DiskInv
  <2> QED BY <2>1 DEF HandleOf
<1>2. /\ obj[c] # None /\ obj[c].po \in Pobjs /\ pobj[obj[c].po] # None
      /\ Opens(c, obj[c].po) /\ OpenFlags(c) = obj[c].flags
      /\ obj[d] # None /\ obj[d].po \in Pobjs /\ pobj[obj[d].po] # None
      /\ Opens(d, obj[d].po) /\ OpenFlags(d) = obj[d].flags
  BY Listing DEF AInv, Holds
<1>3. ASSUME NEW k \in Clients, NEW l \in Clients, k # l, Holds(k), Holds(l),
             pc[k] = "prename", CurName(k) = CurName(l)
      PROVE  FALSE
  <2>1. /\ Listed(NameOf(k)) = {arg[k].po} /\ \A e \in Clients : ~Opens(e, arg[k].po)
        /\ CurName(k) = NameOf(k) /\ Renames(k)
    BY <1>3 DEF AInv, ListInv, RenameOf, Renames, CurName
  <2>2. CASE pc[l] = "prename"
    <3>1. Listed(NameOf(l)) = {arg[l].po} /\ CurName(l) = NameOf(l) /\ Renames(l)
      BY <2>2 DEF AInv, ListInv, RenameOf, Renames, CurName
    <3> QED BY <1>3, <2>1, <3>1 DEF AInv, ListInv, Reserved
  <2>3. CASE pc[l] # "prename"
    <3>1. obj[l].po \in Listed(NameOf(k)) /\ Opens(l, obj[l].po)
      BY <1>3, <2>1, <2>3, Listing DEF AInv, Holds, Listed, CurName
    <3> QED BY <2>1, <3>1
  <2> QED BY <2>2, <2>3
<1>4. pc[c] # "prename" /\ pc[d] # "prename"
  BY <1>1, <1>3
<1>5. obj[c].po = obj[d].po
  BY <1>1, <1>2, <1>4 DEF CurName, AInv, ListInv, NamesApart
<1> QED BY <1>2, <1>5 DEF AInv, ListInv, Sharers

\* Two clients with a handle of one entry opened it with compatible flags, which
\* tee_pobj_check_access() decided by name and while the name can change.
THEOREM OpenersAgree ==
  ASSUME CarefulTas
  PROVE  Spec => []OpenersCompatible
<1>1. AInv => OpenersCompatible
  BY SameEntry DEF OpenersCompatible
<1> QED BY <1>1, SharingInvariant, PTL

\* Steps that change the directory.
LEMMA DirChanges ==
  ASSUME AInv, [Next]_vars, dirf' # dirf
  PROVE  \E e \in Clients :
           SetName(e) \/ Commit(e) \/ FsRemove(e) \/ FsRename(e)
BY DEF Next, vars, disk, mem, Crash, Open, FsOpen, Release, Close, Create, FsCreate,
   SetNameFails, RemoveOld, CreateFinal, Write, Delete, RemoveFile, Rename, PobjRename,
   StartEnum, NextEnum, EnumGet, EnumOpen, CloseDir

\* No step of another client changes the entry of an object that a client writes
\* without SHARE_W: only its own commit, remove and rename do.
THEOREM WriterOwnsEntry ==
  ASSUME CarefulTas
  PROVE  Spec => WriterOwns
<1>1. AInv /\ AInv' /\ [Next]_vars =>
        [\A c \in Clients : Writes(c) /\ "SHARE_W" \notin obj[c].flags =>
           \/ dirf'[obj[c].fh.idx] = dirf[obj[c].fh.idx]
           \/ pc[c] \in {"commit", "remove", "rename"} /\ pc'[c] # pc[c]]_vars
  <2> SUFFICES ASSUME AInv, AInv', [Next]_vars, NEW c \in Clients, Writes(c), dirf' # dirf
               PROVE  \/ dirf'[obj[c].fh.idx] = dirf[obj[c].fh.idx]
                      \/ pc[c] \in {"commit", "remove", "rename"} /\ pc'[c] # pc[c]
    OBVIOUS
  <2>1. PICK e \in Clients : SetName(e) \/ Commit(e) \/ FsRemove(e) \/ FsRename(e)
    BY DirChanges
  <2>2. SInv'
    BY DEF AInv
  <2>3. CASE e # c
    <3>1. EntriesKept(e)
      BY <2>1, <2>2, SetNameKept, CommitKept, FsRemoveKept, FsRenameKept
    <3> QED BY <2>3, <3>1 DEF EntriesKept, Writes
  <2>4. CASE e = c
    <3>1. pc[c] # "set_name"
      BY DEF Writes, Holds, AInv, SInv, Shape, ShapeOf
    <3>2. /\ pc[c] \in {"commit", "remove", "rename"}
          /\ \E to \in {"idle", "remove_file", "release", "close", "prename"} :
               pc' = [pc EXCEPT ![c] = to]
      <4>1. CASE Commit(c)
        BY <4>1 DEF Commit, Goto
      <4>2. CASE FsRemove(c)
        BY <4>2 DEF FsRemove, Goto, AfterRemove
      <4>3. CASE FsRename(c)
        BY <4>3 DEF FsRename, Goto
      <4> QED BY <2>1, <2>4, <3>1, <4>1, <4>2, <4>3 DEF SetName
    <3> QED BY <3>2 DEF AInv, SInv, Types
  <2> QED BY <2>3, <2>4
<1> QED BY <1>1, SharingInvariant, PTL DEF Spec, WriterOwns

=============================================================================
