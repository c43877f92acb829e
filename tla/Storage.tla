------------------------------ MODULE Storage ------------------------------
(***************************************************************************)
(* Persistent objects in the REE file system: the system calls of          *)
(* core/tee/tee_svc_storage.c, the list of open objects of tee_pobj.c, the *)
(* operations of tee_ree_fs.c and the directory file of fs_dirfile.c.      *)
(*                                                                         *)
(* The clients are sessions of TAs with one UUID, so they share the        *)
(* objects.  Each has at most an object or an enumerator open.  A file     *)
(* is what Htree shows it to be: it has two versions, a hash selects one,  *)
(* and a sync replaces the one that the handle is not based on.  The       *)
(* directory file is found by its counters, so that its commit is a step.  *)
(*                                                                         *)
(* The file operations hold ree_fs_mutex, the list functions pobjs_mutex.  *)
(* Each write to normal world is a step that may fail, and the power may   *)
(* fail before and after it.  Reads do not fail here.                      *)
(***************************************************************************)
EXTENDS Integers, FiniteSets, FiniteSetsExt

CONSTANTS
  Clients,         (* sessions of TAs that share their objects *)
  Names,           (* object identifiers *)
  Modes,           (* the sets of flags that objects are opened with *)
  CreateModes,     (* the sets of flags that objects are created with *)
  RetryAfterError, (* does a TA use a handle after a write to it failed? *)
  EnumRename,      (* is an object enumerated while it is renamed? *)
  MaxFile,         (* bound: file numbers *)
  MaxHash          (* the hashes of one file told apart at one time: one for each handle,
                      the entry and a new version *)

ASSUME StorageAssumption ==
  /\ IsFiniteSet(Clients) /\ IsFiniteSet(Names)
  /\ Modes \cup CreateModes \subseteq SUBSET {"R", "W", "META", "SHARE_R", "SHARE_W"}
  /\ RetryAfterError \in BOOLEAN /\ EnumRename \in BOOLEAN
  /\ MaxFile \in Nat
  /\ MaxHash \in Nat /\ MaxHash > Cardinality(Clients) + 1

FileNos == 0..MaxFile
Idxs    == 0..(Cardinality(Names) - 1)
Pobjs   == 1..(2 * Cardinality(Clients))
None    == [none |-> TRUE]
Hashes  == 1..MaxHash

VARIABLES
  file,     (* file[n]: the hashes of the versions that file n has *)
  dirf,     (* dirf[i]: the committed entry i of dirf.db, or None *)
  dirh,     (* ree_fs_dirh: entries and file number bits, or None *)
  refs,     (* ree_fs_dirh_refcount *)
  pobj,     (* the objects in the list of tee_pobj.c *)
  obj,      (* obj[c]: the tee_obj of client c with its file handle, or None *)
  dir,      (* dir[c]: the directory that c enumerates, or None *)
  pc,       (* where c is in its system call *)
  arg       (* arg[c]: what the call works on, or None *)

disk == << file, dirf >>
mem  == << dirh, refs, dir >>
vars == << disk, mem, pobj, obj, pc, arg >>

Free(c) == pc[c] = "idle" /\ obj[c] = None /\ dir[c] = None
Goto(c, where) == pc' = [pc EXCEPT ![c] = where]
Return(c) == Goto(c, "idle") /\ arg' = [arg EXCEPT ![c] = None]

\* ree_fs_mutex is held across the writes of one operation.
Locked == \E c \in Clients : pc[c] \in {"set_name", "remove_old", "commit", "remove_file"}

-----------------------------------------------------------------------------
(* tee_pobj.c                                                              *)

\* tee_pobj_check_access()
Compatible(o, n) ==
  /\ "META" \notin o \cup n
  /\ "R" \in o \cup n => "SHARE_R" \in o \cap n
  /\ "SHARE_R" \in o <=> "SHARE_R" \in n
  /\ "W" \in o \cup n => "SHARE_W" \in o \cap n
  /\ "SHARE_W" \in o <=> "SHARE_W" \in n

Listed(name) == {p \in Pobjs : pobj[p] # None /\ pobj[p].name = name}
NewPobj == Min({p \in Pobjs : pobj[p] = None})

\* Faulty variant: the flags of the others do not keep an object from being overwritten.
PobjGetOverwrites(c, name, flags, usage, overwrite, next) ==
  \E p \in Listed(name) \cup (IF Listed(name) = {} THEN {NewPobj} ELSE {}) :
    /\ \/ /\ pobj[p] = None
          /\ pobj' = [pobj EXCEPT ![p] = [name |-> name, refcnt |-> 1, flags |-> flags,
                                          creating |-> usage = "create"]]
       \/ /\ pobj[p] # None
          /\ usage # "enum" => ~pobj[p].creating
          /\ IF usage = "create" THEN overwrite
             ELSE usage # "enum" => Compatible(pobj[p].flags, flags)
          /\ pobj' = [pobj EXCEPT ![p].refcnt = @ + 1]
    /\ Goto(c, next)
    /\ arg' = [arg EXCEPT ![c] = [po |-> p, flags |-> flags, overwrite |-> overwrite,
                                  old |-> 0]]

\* tee_pobj_get(); what is in its way makes it fail without a change.  The
\* code takes the last object of the name in its list; a rename has two there
\* for a moment, and the model takes either.
PobjGet(c, name, flags, usage, overwrite, next) ==
  \E p \in Listed(name) \cup (IF Listed(name) = {} THEN {NewPobj} ELSE {}) :
    /\ \/ /\ pobj[p] = None
          /\ pobj' = [pobj EXCEPT ![p] = [name |-> name, refcnt |-> 1, flags |-> flags,
                                          creating |-> usage = "create"]]
       \/ /\ pobj[p] # None
          /\ usage # "enum" =>
               /\ ~pobj[p].creating
               /\ usage = "create" => overwrite
               /\ Compatible(pobj[p].flags, flags)
          /\ pobj' = [pobj EXCEPT ![p].refcnt = @ + 1]
    /\ Goto(c, next)
    /\ arg' = [arg EXCEPT ![c] = [po |-> p, flags |-> flags, overwrite |-> overwrite,
                                  old |-> 0]]

\* tee_pobj_release()
Released(p) ==
  IF pobj[p].refcnt = 1 THEN [pobj EXCEPT ![p] = None]
  ELSE [pobj EXCEPT ![p].refcnt = @ - 1]

-----------------------------------------------------------------------------
(* fs_dirfile.c, and the handle of the directory in tee_ree_fs.c           *)

Entries(ents) == {i \in Idxs : ents[i] # None}
Find(ents, name) == {i \in Entries(ents) : ents[i].name = name}

\* Faulty variant: the file number bits are not built from the entries.
OpenedDirNoBits == [ents |-> dirf, bits |-> {}]

\* tee_fs_dirfile_open(): of two entries with one file number the later goes.
OpenedDir ==
  LET dup(i) == \E j \in Entries(dirf) : j < i /\ dirf[j].fn = dirf[i].fn
      ents   == [i \in Idxs |-> IF dirf[i] # None /\ dup(i) THEN None ELSE dirf[i]]
  IN  [ents |-> ents, bits |-> {ents[i].fn : i \in Entries(ents)}]

\* get_dirh(), with the count apart.
Dirh == IF dirh = None THEN OpenedDir ELSE dirh

\* find_empty_idx()
EmptyIdx(ents) == Min(Idxs \ Entries(ents))

\* put_dirh() that leaves n references: an enumerator keeps a pointer to the
\* directory handle that is freed here.
PutDirh(d, n, close) ==
  LET shut == close \/ n = 0
  IN  /\ refs' = n
      /\ dirh' = IF shut THEN None ELSE d
      /\ dir' = [c \in Clients |->
                   IF shut /\ dir[c] # None THEN [idx |-> -1, live |-> FALSE]
                   ELSE dir[c]]

\* The directory stays open, for the rest of the call or the handle it makes.
KeepDirh(d, n) == refs' = n /\ dirh' = d /\ UNCHANGED dir

\* write_dent() and commit_dirh_writes()
CommitEntry(i, entry) == dirf' = [Dirh.ents EXCEPT ![i] = entry]

-----------------------------------------------------------------------------
Init ==
  /\ file = [n \in FileNos |-> {}]
  /\ dirf = [i \in Idxs |-> None]
  /\ dirh = None /\ refs = 0
  /\ pobj = [p \in Pobjs |-> None]
  /\ obj = [c \in Clients |-> None]
  /\ dir = [c \in Clients |-> None]
  /\ pc = [c \in Clients |-> "idle"]
  /\ arg = [c \in Clients |-> None]

\* The hash of a new version of file n that replaces all but those of kept.
NewHash(n, kept) == Min(Hashes \ (kept
  \cup {dirf[i].hash : i \in {k \in Entries(dirf) : dirf[k].fn = n}}
  \cup {obj[c].fh.hash : c \in {k \in Clients : obj[k] # None /\ obj[k].fh.fn = n}}))

\* Does the file have the version that the entry names?
Found(entry) == entry.hash \in file[entry.fn]

NameOf(c) == pobj[arg[c].po].name

-----------------------------------------------------------------------------
(* Opening, closing and releasing.                                         *)

\* syscall_storage_obj_open() up to the list.
Open(c, name, flags) ==
  /\ Free(c)
  /\ PobjGet(c, name, flags, "open", FALSE, "open")
  /\ UNCHANGED << disk, mem, obj >>

\* ree_fs_open(): the version of the file that the entry names.  An object
\* that is not there, or is corrupt, closes the directory; a corrupt one is
\* removed.
FsOpen(c) ==
  LET idx   == Find(Dirh.ents, NameOf(c))
      i     == Min(idx)
      entry == Dirh.ents[i]
  IN  /\ pc[c] = "open" /\ ~Locked
      /\ \/ /\ idx # {} /\ Found(entry)
            /\ obj' = [obj EXCEPT ![c] =
                 [po |-> arg[c].po, flags |-> arg[c].flags, failed |-> FALSE,
                  fh |-> [idx |-> i, fn |-> entry.fn, hash |-> entry.hash,
                          live |-> TRUE]]]
            /\ KeepDirh(Dirh, refs + 1)
            /\ Return(c)
         \/ /\ (idx # {} => ~Found(entry))
            /\ PutDirh(Dirh, refs, TRUE)
            /\ Goto(c, IF idx = {} THEN "release" ELSE "remove")
            /\ UNCHANGED << obj, arg >>
      /\ UNCHANGED << disk, pobj >>

\* tee_pobj_release() at the end of a call, or because memory runs out, or
\* syscall_storage_obj_create() finds its other arguments wrong.
Release(c) ==
  /\ pc[c] \in {"release", "open", "create"}
  /\ pobj' = Released(arg[c].po)
  /\ Return(c)
  /\ UNCHANGED << disk, mem, obj >>

\* tee_obj_close(): ree_fs_close(), then the release.
Close(c) ==
  /\ pc[c] \in {"idle", "close"} /\ obj[c] # None /\ ~Locked
  /\ PutDirh(dirh, refs - 1, FALSE)
  /\ obj' = [obj EXCEPT ![c] = None]
  /\ Goto(c, "release")
  /\ arg' = [arg EXCEPT ![c] = [po |-> obj[c].po, flags |-> {}, overwrite |-> FALSE,
                                old |-> 0]]
  /\ UNCHANGED << disk, pobj >>

-----------------------------------------------------------------------------
(* Creating an object.                                                     *)

\* syscall_storage_obj_create() up to the list.
Create(c, name, flags, overwrite) ==
  /\ Free(c)
  /\ PobjGet(c, name, flags, "create", overwrite, "create")
  /\ UNCHANGED << disk, mem, obj >>

\* ree_fs_create() up to set_name(): a file with the first number that is free,
\* written and synced.
FsCreate(c) ==
  LET n == Min(FileNos \ Dirh.bits)      (* tee_fs_dirfile_get_tmp() *)
      h == NewHash(n, {})
  IN  /\ pc[c] = "create" /\ ~Locked /\ FileNos \ Dirh.bits # {}
      /\ \/ /\ file' = [file EXCEPT ![n] = {h}]
            /\ KeepDirh([Dirh EXCEPT !.bits = @ \cup {n}], refs + 1)
            /\ obj' = [obj EXCEPT ![c] =
                 [po |-> arg[c].po, flags |-> arg[c].flags, failed |-> FALSE,
                  fh |-> [idx |-> -1, fn |-> n, hash |-> h, live |-> TRUE]]]
            /\ Goto(c, "set_name")
         \/ /\ file' = [file EXCEPT ![n] = {}]
            /\ PutDirh(Dirh, refs, TRUE)
            /\ Goto(c, "release")
            /\ UNCHANGED obj
      /\ UNCHANGED << dirf, pobj, arg >>

\* set_name(): the entry of the name, or a free one, gets the new file.
SetName(c) ==
  LET fh    == obj[c].fh
      old   == Find(dirh.ents, NameOf(c))
      i     == IF old # {} THEN Min(old) ELSE EmptyIdx(dirh.ents)
      entry == [name |-> NameOf(c), fn |-> fh.fn, hash |-> fh.hash]
  IN  /\ pc[c] = "set_name"
      /\ (old # {} => arg[c].overwrite)
      /\ CommitEntry(i, entry)
      /\ KeepDirh([dirh EXCEPT !.ents[i] = entry], refs)
      /\ obj' = [obj EXCEPT ![c].fh.idx = i]
      /\ Goto(c, IF old # {} THEN "remove_old" ELSE "created")
      /\ arg' = [arg EXCEPT ![c].old = IF old # {} THEN dirh.ents[i].fn ELSE 0]
      /\ UNCHANGED << file, pobj >>

\* Faulty variant: the reference that the new file has on the directory is not put.
SetNameFailsKeeps(c) ==
  /\ pc[c] = "set_name"
  /\ PutDirh(dirh, refs, TRUE)
  /\ file' = [file EXCEPT ![obj[c].fh.fn] = {}]
  /\ obj' = [obj EXCEPT ![c] = None]
  /\ Goto(c, "release")
  /\ UNCHANGED << dirf, pobj, arg >>

\* The name is taken, or the commit fails: the new file goes again.
SetNameFails(c) ==
  /\ pc[c] = "set_name"
  /\ PutDirh(dirh, refs - 1, TRUE)
  /\ file' = [file EXCEPT ![obj[c].fh.fn] = {}]
  /\ obj' = [obj EXCEPT ![c] = None]
  /\ Goto(c, "release")
  /\ UNCHANGED << dirf, pobj, arg >>

\* The file that was overwritten goes; its bit in the directory handle stays.
RemoveOld(c) ==
  /\ pc[c] = "remove_old"
  /\ file' = [file EXCEPT ![arg[c].old] = {}]
  /\ Goto(c, "created")
  /\ UNCHANGED << dirf, mem, pobj, obj, arg >>

\* tee_pobj_create_final(), and the object is closed if the caller does not
\* want it.  A transient object that becomes the persistent one skips both.
CreateFinal(c, final, close) ==
  /\ pc[c] = "created" /\ (close => final)
  /\ pobj' = [pobj EXCEPT ![arg[c].po].creating = @ /\ ~final]
  /\ IF close THEN Goto(c, "close") /\ UNCHANGED arg ELSE Return(c)
  /\ UNCHANGED << disk, mem, obj >>

-----------------------------------------------------------------------------
(* Changing an object.                                                     *)

Usable(c) ==
  /\ pc[c] = "idle" /\ obj[c] # None
  /\ obj[c].fh.live                        (* else the tree pointer is NULL *)
  /\ ~obj[c].failed \/ RetryAfterError

WithName(c) == [po |-> obj[c].po, flags |-> {}, overwrite |-> FALSE, old |-> 0]

\* Faulty variant: a sync writes the version that the handle is based on.
WriteInPlace(c) ==
  LET fh == obj[c].fh
      h  == NewHash(fh.fn, file[fh.fn])
  IN  /\ Usable(c) /\ ~Locked /\ "W" \in obj[c].flags
      /\ file' = [file EXCEPT ![fh.fn] = (@ \ {fh.hash}) \cup {h}]
      /\ obj' = [obj EXCEPT ![c].fh.hash = h]
      /\ KeepDirh(Dirh, refs + 1)
      /\ Goto(c, "commit")
      /\ UNCHANGED << dirf, pobj, arg >>

\* ree_fs_write(), ree_fs_truncate() up to the sync of the file, which writes
\* the version that the handle is not based on, or fails in the midst of it.
Write(c) ==
  LET fh   == obj[c].fh
      base == file[fh.fn] \cap {fh.hash}
      h    == NewHash(fh.fn, base)
  IN  /\ Usable(c) /\ ~Locked
      /\ "W" \in obj[c].flags
      /\ \/ /\ file' = [file EXCEPT ![fh.fn] = base \cup {h}]
            /\ obj' = [obj EXCEPT ![c].fh.hash = h]
            /\ KeepDirh(Dirh, refs + 1)
            /\ Goto(c, "commit")
         \/ /\ file' = [file EXCEPT ![fh.fn] = base]
            /\ obj' = [obj EXCEPT ![c].fh.live = FALSE, ![c].failed = TRUE]
            /\ PutDirh(Dirh, refs, TRUE)
            /\ UNCHANGED pc
      /\ UNCHANGED << dirf, pobj, arg >>

\* tee_fs_dirfile_update_hash(), the commit and put_dirh().
Commit(c) ==
  LET fh    == obj[c].fh
      entry == [dirh.ents[fh.idx] EXCEPT !.hash = fh.hash]
  IN  /\ pc[c] = "commit"
      /\ \/ /\ CommitEntry(fh.idx, entry)
            /\ PutDirh([dirh EXCEPT !.ents[fh.idx] = entry], refs - 1, FALSE)
            /\ UNCHANGED obj
         \/ /\ PutDirh(dirh, refs - 1, TRUE)
            /\ obj' = [obj EXCEPT ![c].failed = TRUE]
            /\ UNCHANGED dirf
      /\ Goto(c, "idle")
      /\ UNCHANGED << file, pobj, arg >>

\* syscall_storage_obj_del()
Delete(c) ==
  /\ pc[c] = "idle" /\ obj[c] # None /\ "META" \in obj[c].flags
  /\ Goto(c, "remove")
  /\ arg' = [arg EXCEPT ![c] = WithName(c)]
  /\ UNCHANGED << disk, mem, pobj, obj >>

\* A call that removes the object ends by closing it, if it was opened.
AfterRemove(c) == IF obj[c] = None THEN "release" ELSE "close"

\* ree_fs_remove(): the entry goes, and is committed; or the object is not
\* there, or the commit fails.
FsRemove(c) ==
  LET idx == Find(Dirh.ents, NameOf(c))
      i   == Min(idx)
  IN  /\ pc[c] = "remove" /\ ~Locked
      /\ \/ /\ idx # {}
            /\ CommitEntry(i, None)
            /\ KeepDirh([ents |-> [Dirh.ents EXCEPT ![i] = None],
                         bits |-> Dirh.bits \ {Dirh.ents[i].fn}], refs + 1)
            /\ arg' = [arg EXCEPT ![c].old = Dirh.ents[i].fn]
            /\ Goto(c, "remove_file")
         \/ /\ PutDirh(Dirh, refs, TRUE)
            /\ Goto(c, AfterRemove(c))
            /\ UNCHANGED << dirf, arg >>
      /\ UNCHANGED << file, pobj, obj >>

RemoveFile(c) ==
  /\ pc[c] = "remove_file"
  /\ file' = [file EXCEPT ![arg[c].old] = {}]
  /\ PutDirh(dirh, refs - 1, FALSE)
  /\ Goto(c, AfterRemove(c))
  /\ UNCHANGED << dirf, pobj, obj, arg >>

\* syscall_storage_obj_rename(): the new name is reserved first.
Rename(c, name) ==
  /\ pc[c] = "idle" /\ obj[c] # None /\ "META" \in obj[c].flags
  /\ EnumRename \/ pobj[obj[c].po].refcnt = 1
  /\ PobjGet(c, name, {"META"}, "rename", FALSE, "rename")
  /\ UNCHANGED << disk, mem, obj >>

\* Faulty variant: the new name gets a place of its own in the directory.
FsRenameMoves(c) ==
  LET idx   == Find(Dirh.ents, pobj[obj[c].po].name)
      i     == Min(idx)
      entry == [Dirh.ents[i] EXCEPT !.name = NameOf(c)]
      ents  == [Dirh.ents EXCEPT ![i] = None, ![EmptyIdx(Dirh.ents)] = entry]
  IN  /\ pc[c] = "rename" /\ ~Locked
      /\ idx # {} /\ Find(Dirh.ents, NameOf(c)) = {}
      /\ dirf' = ents
      /\ PutDirh([Dirh EXCEPT !.ents = ents], refs, FALSE)
      /\ Goto(c, "prename")
      /\ UNCHANGED << file, pobj, obj, arg >>

\* ree_fs_rename(): the entry gets the new name, unless there is an object of
\* that name, there is none of the old one, or the commit fails.
FsRename(c) ==
  LET idx   == Find(Dirh.ents, pobj[obj[c].po].name)
      i     == Min(idx)
      entry == [Dirh.ents[i] EXCEPT !.name = NameOf(c)]
  IN  /\ pc[c] = "rename" /\ ~Locked
      /\ \/ /\ idx # {} /\ Find(Dirh.ents, NameOf(c)) = {}
            /\ CommitEntry(i, entry)
            /\ PutDirh([Dirh EXCEPT !.ents[i] = entry], refs, FALSE)
            /\ Goto(c, "prename")
         \/ /\ PutDirh(Dirh, refs, TRUE)
            /\ Goto(c, "release")
            /\ UNCHANGED dirf
      /\ UNCHANGED << file, pobj, obj, arg >>

\* Faulty variant: the open object keeps its old name.
PobjRenameNot(c) ==
  /\ pc[c] = "prename"
  /\ Goto(c, "release")
  /\ UNCHANGED << disk, mem, pobj, obj, arg >>

\* tee_pobj_rename(): storage has the new name by now, the open object gets it
\* only if nothing else refers to it.
PobjRename(c) ==
  LET p == obj[c].po
  IN  /\ pc[c] = "prename"
      /\ pobj' = IF pobj[p].refcnt # 1 THEN pobj
                 ELSE [pobj EXCEPT ![p].name = NameOf(c)]
      /\ Goto(c, "release")
      /\ UNCHANGED << disk, mem, obj, arg >>

-----------------------------------------------------------------------------
(* Enumerating.                                                            *)

\* ree_fs_opendir_rpc(), which fails if there is no object.
StartEnum(c) ==
  /\ Free(c) /\ ~Locked
  /\ IF Entries(Dirh.ents) = {} THEN PutDirh(Dirh, refs, FALSE)
     ELSE /\ refs' = refs + 1 /\ dirh' = Dirh
          /\ dir' = [dir EXCEPT ![c] = [idx |-> -1, live |-> TRUE]]
  /\ UNCHANGED << disk, pobj, obj, pc, arg >>

\* ree_fs_readdir_rpc(): the next entry of the directory handle.
NextEnum(c) ==
  LET left == {i \in Entries(dirh.ents) : i > dir[c].idx}
  IN  /\ pc[c] = "idle" /\ ~Locked
      /\ dir[c] # None /\ dir[c].live
      /\ left # {}
      /\ dir' = [dir EXCEPT ![c].idx = Min(left)]
      /\ arg' = [arg EXCEPT ![c] = dirh.ents[Min(left)].name]
      /\ Goto(c, "enum")
      /\ UNCHANGED << disk, dirh, refs, pobj, obj >>

\* An object that is being renamed.
Renaming(name) ==
  \E d \in Clients : pc[d] \in {"rename", "prename"} /\ pobj[obj[d].po].name = name

EnumGet(c) ==
  /\ pc[c] = "enum"
  /\ EnumRename \/ ~Renaming(arg[c])
  /\ PobjGet(c, arg[c], {}, "enum", FALSE, "enum_open")
  /\ UNCHANGED << disk, mem, obj >>

\* ree_fs_open() to read the head of the object, and ree_fs_close().
EnumOpen(c) ==
  LET idx == Find(Dirh.ents, NameOf(c))
  IN  /\ pc[c] = "enum_open" /\ ~Locked
      /\ PutDirh(Dirh, refs, idx = {} \/ ~Found(Dirh.ents[Min(idx)]))
      /\ Goto(c, "release")
      /\ UNCHANGED << disk, pobj, obj, arg >>

\* ree_fs_closedir_rpc()
CloseDir(c) ==
  /\ pc[c] = "idle" /\ ~Locked
  /\ dir[c] # None /\ dir[c].live
  /\ refs' = refs - 1
  /\ dirh' = IF refs = 1 THEN None ELSE dirh
  /\ dir' = [dir EXCEPT ![c] = None]
  /\ UNCHANGED << disk, pobj, obj, pc, arg >>

-----------------------------------------------------------------------------
\* A reset: only storage keeps what it holds.  A file that the directory does
\* not name might as well be gone, a create truncates it.
Crash ==
  /\ file' = [n \in FileNos |->
                IF \E i \in Entries(dirf) : dirf[i].fn = n THEN file[n] ELSE {}]
  /\ dirh' = None /\ refs' = 0
  /\ pobj' = [p \in Pobjs |-> None]
  /\ obj' = [c \in Clients |-> None]
  /\ dir' = [c \in Clients |-> None]
  /\ pc' = [c \in Clients |-> "idle"]
  /\ arg' = [c \in Clients |-> None]
  /\ UNCHANGED dirf

Next ==
  \/ \E c \in Clients :
       \/ \E name \in Names, flags \in Modes : Open(c, name, flags)
       \/ \E name \in Names, flags \in CreateModes, overwrite \in BOOLEAN :
            Create(c, name, flags, overwrite)
       \/ FsOpen(c) \/ Release(c) \/ Close(c)
       \/ FsCreate(c) \/ SetName(c) \/ SetNameFails(c) \/ RemoveOld(c)
       \/ \E final, close \in BOOLEAN : CreateFinal(c, final, close)
       \/ Write(c) \/ Commit(c)
       \/ Delete(c) \/ FsRemove(c) \/ RemoveFile(c)
       \/ \E name \in Names : Rename(c, name)
       \/ FsRename(c) \/ PobjRename(c)
       \/ StartEnum(c) \/ NextEnum(c) \/ EnumGet(c) \/ EnumOpen(c) \/ CloseDir(c)
  \/ Crash

Spec == Init /\ [][Next]_vars

-----------------------------------------------------------------------------
(* Properties.                                                             *)

HandleOK(fh) ==
  /\ fh.idx \in Idxs \cup {-1} /\ fh.fn \in FileNos /\ fh.hash \in Hashes
  /\ fh.live \in BOOLEAN

EntryOK(entry) ==
  /\ entry.name \in Names /\ entry.fn \in FileNos /\ entry.hash \in Hashes

\* Type invariant of storage and of the lists in memory.
TypeOK ==
  /\ \A n \in FileNos : file[n] \subseteq Hashes /\ Cardinality(file[n]) <= 2
  /\ \A i \in Idxs : dirf[i] = None \/ EntryOK(dirf[i])
  /\ dirh # None => /\ dirh.bits \subseteq FileNos
                    /\ \A i \in Entries(dirh.ents) :
                         EntryOK(dirh.ents[i]) /\ dirh.ents[i].fn \in dirh.bits
  /\ refs \in Nat
  /\ \A p \in Pobjs : pobj[p] # None =>
       pobj[p].name \in Names /\ pobj[p].refcnt \in Nat \ {0}
  /\ \A c \in Clients : obj[c] # None => HandleOK(obj[c].fh)

\* The directory as committed is intact, in every state and so after every
\* reset.  Every object that it names can be opened: no write goes to the
\* version of a file that it still needs, and no file goes before its entry.  No
\* two entries share a name or a file, though file numbers and places in the
\* directory are used again.
DirectoryIntact ==
  /\ \A i \in Entries(dirf) : Found(dirf[i])
  /\ \A i, j \in Entries(dirf) :
       i # j => dirf[i].name # dirf[j].name /\ dirf[i].fn # dirf[j].fn

\* c has an object that is in the directory, and no call of c has removed it.
Holds(c) ==
  obj[c] # None /\ obj[c].fh.idx # -1 /\ pc[c] \notin {"remove_file", "close"}

Writes(c) == Holds(c) /\ "W" \in obj[c].flags

\* What tee_fs_dirfile_update_hash() asserts, for every handle that can write:
\* the place in the directory that it will update is still that of its file.
\* If no call on it failed, it has the hash of the last commit.
WriterHasEntry ==
  \A c \in Clients : Writes(c) =>
    LET fh == obj[c].fh
    IN  /\ dirf[fh.idx] # None /\ dirf[fh.idx].fn = fh.fn
        /\ ~obj[c].failed /\ pc[c] # "commit" => dirf[fh.idx].hash = fh.hash

\* Of the clients that have one object open any two allow each other, whatever
\* was renamed, removed and created again between their calls.
OpenersCompatible ==
  \A c, d \in Clients :
    /\ c # d /\ Holds(c) /\ Holds(d)
    /\ obj[c].fh.idx = obj[d].fh.idx /\ dirf[obj[c].fh.idx] # None
    /\ {obj[c].fh.fn, obj[d].fh.fn} = {dirf[obj[c].fh.idx].fn}
    => Compatible(obj[c].flags, obj[d].flags)

\* The call that c is in holds a reference apart from that of its object.
CallHolds(c, p) ==
  /\ \/ pc[c] \in {"open", "create", "rename", "prename", "enum_open", "release"}
     \/ pc[c] \in {"remove", "remove_file"} /\ obj[c] = None
  /\ arg[c].po = p

\* Objects stay in the list while something refers to them, and the directory
\* is counted for its handles: nothing is put twice, or never, on any of the
\* paths out of a failed call.
RefsCounted ==
  /\ \A p \in Pobjs :
       Cardinality({c \in Clients : obj[c] # None /\ obj[c].po = p})
         + Cardinality({c \in Clients : CallHolds(c, p)})
       = IF pobj[p] = None THEN 0 ELSE pobj[p].refcnt
  /\ refs = Cardinality({c \in Clients : obj[c] # None})
          + Cardinality({c \in Clients : dir[c] # None})
          + Cardinality({c \in Clients : pc[c] \in {"commit", "remove_file"}})

\* While a client has an object open for writing, and shares it with no other
\* writer, only its own calls change what the directory has for the object,
\* and no reset does.
WriterOwns ==
  [][\A c \in Clients : Writes(c) /\ "SHARE_W" \notin obj[c].flags =>
       \/ dirf'[obj[c].fh.idx] = dirf[obj[c].fh.idx]
       \/ pc[c] \in {"commit", "remove", "rename"} /\ pc'[c] # pc[c]]_vars

\* tee_ree_fs.c:598 says that all operations but close get the directory handle
\* anew, and that it is open therefore: an enumerator uses one that is.
EnumDirLive == \A c \in Clients : dir[c] # None => dir[c].live

=============================================================================
