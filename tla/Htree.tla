------------------------------- MODULE Htree -------------------------------
(***************************************************************************)
(* One file of the REE file system: the hash tree of core/tee/fs_htree.c   *)
(* and the calls that core/tee/tee_ree_fs.c makes on it.                   *)
(*                                                                         *)
(* The head, every node and every data block have two places in storage,   *)
(* and the tree in memory knows which of the two is committed: the parity  *)
(* of the head's counter for the head and node 1, a flag of the parent for *)
(* the other nodes, a flag of the node for its block.  A sync writes the   *)
(* dirty nodes, children first, to the places that are not committed, then *)
(* the head.  Each write is one step, and the power may fail after any.    *)
(*                                                                         *)
(* Encryption and hashing are perfect: a block is sealed with a fresh iv,  *)
(* kept as the number of writes so far, a hash is the tuple of what was    *)
(* hashed.  Storage that was never written reads as zero.  Lengths count   *)
(* half blocks, so that a file can end inside a block.                     *)
(***************************************************************************)
EXTENDS Integers, Sequences

CONSTANTS
  MaxNodes,     (* bound: the nodes of a tree, one per block *)
  MaxWrites,    (* bound: the writes of blocks *)
  MaxCounter,   (* bound: the syncs *)
  Lengths,      (* the lengths that the client truncates to *)
  SameLength,   (* whether it truncates to the length the file has *)
  Lookups       (* how the client opens the file, a set of "hash", "counter" *)

ASSUME HtreeAssumption ==
  /\ MaxNodes \in Nat \ {0}
  /\ MaxWrites \in Nat /\ MaxCounter \in Nat
  /\ Lengths \subseteq 0..(2 * MaxNodes)
  /\ SameLength \in BOOLEAN
  /\ Lookups \subseteq {"hash", "counter"}

Ids    == 1..MaxNodes
Blocks == 0..(MaxNodes - 1)
Vers   == 0..1

VARIABLES
  head,     (* head[v]: the two htree_images in storage *)
  node,     (* node[id][v]: the htree_node_images in storage *)
  block,    (* block[b][v]: the iv that the block in storage was sealed with *)
  ht,       (* the tree in memory, or Closed *)
  pc,       (* where the call that works on the tree is *)
  lookup,   (* how this file is opened *)
  dfh,      (* fdp->dfh.hash: the root hash of the last sync, in memory *)
  saved,    (* the root hash that the directory holds for this file *)
  ivs,      (* how many blocks were sealed *)
  lost      (* blocks cut off by a truncate whose commit did not come *)

disk == << head, node, block >>
vars == << disk, ht, pc, lookup, dfh, saved, ivs, lost >>

-----------------------------------------------------------------------------
(* Trees.                                                                  *)

NoHash    == << >>
ZeroNode  == [blk |-> 0, ch |-> [c \in Vers |-> 0], seal |-> 0, hash |-> NoHash]
ZeroHead  == [counter |-> 0, max |-> 0, length |-> 0, root |-> NoHash]
NoBlock   == [v \in Vers |-> 0]
Closed    == [closed |-> TRUE]

Flip(v) == 1 - v
Bit(id) == id % 2
Parent(id) == id \div 2

RoundUp(length) == (length + 1) \div 2

\* The root is there even when max_node_id was never raised from 0.
TreeIds(max) == 1..(IF max = 0 THEN 1 ELSE max)

\* calc_node_hash(): the flags, the seal of the block, the length for the
\* root, and the hashes of the children there are, 0 before 1.
Hash(nodes, max, length, id) ==
  << nodes[id].blk, nodes[id].ch, nodes[id].seal,
     IF id = 1 THEN length ELSE -1,
     [c \in {k \in Vers : 2 * id + k \in TreeIds(max)} |-> nodes[2 * id + c].hash] >>

PostOrder[id \in 1..(2 * MaxNodes + 1)] ==
  IF id > MaxNodes THEN << >>
  ELSE PostOrder[2 * id] \o PostOrder[2 * id + 1] \o << id >>

\* The next node that the traversal of a sync writes.  A node is dirtied by
\* its children only, which come before it.
NextDirty(t) ==
  LET i == CHOOSE k \in DOMAIN PostOrder[1] :
             /\ PostOrder[1][k] \in t.dirtyNodes
             /\ \A j \in 1..(k - 1) : PostOrder[1][j] \notin t.dirtyNodes
  IN  PostOrder[1][i]

-----------------------------------------------------------------------------
(* Reading a file back.                                                    *)

\* get_idx_from_counter()
IdxFromCounter(c0, c1) ==
  IF c0 % 2 = 0
    THEN IF c1 % 2 = 0 \/ c0 > c1 THEN 0 ELSE 1
    ELSE IF c1 % 2 = 1 THEN 1 ELSE -1

\* init_head_from_data(): with a hash, the first of the two versions of node
\* 1 that has it.
IdxFromHash(hash) ==
  IF node[1][0].hash = hash THEN 0
  ELSE IF node[1][1].hash = hash THEN 1 ELSE -1

HeadIdx ==
  IF lookup = "hash" THEN IdxFromHash(saved)
  ELSE IdxFromCounter(head[0].counter, head[1].counter)

\* init_tree_from_data(): the committed version of a node is in the flags of
\* the committed version of its parent.
Loaded(i) ==
  LET image[id \in Ids] ==
        IF id \notin TreeIds(head[i].max) THEN ZeroNode
        ELSE node[id][IF id = 1 THEN i ELSE image[Parent(id)].ch[Bit(id)]]
  IN  [counter |-> head[i].counter, max |-> head[i].max,
       length |-> head[i].length, nodes |-> image,
       dirtyNodes |-> {}, updated |-> {}, dirty |-> FALSE]

\* verify_root() and verify_tree()
Verified(i) ==
  /\ head[i].root # NoHash
  /\ head[i].root = node[1][i].hash
  /\ LET t == Loaded(i)
     IN  \A id \in TreeIds(t.max) :
           t.nodes[id].hash = Hash(t.nodes, t.max, t.length, id)

Opens == HeadIdx # -1 /\ Verified(HeadIdx)

\* What a client sees of a tree: the length, and which write of each block
\* below it would be read.
Seen(t) == [length |-> t.length,
            seals  |-> [b \in Blocks |-> IF b < RoundUp(t.length)
                                           THEN t.nodes[b + 1].seal ELSE 0]]

\* tee_fs_htree_read_block(): the block is there and its tag matches.
Readable(t, b) ==
  /\ t.nodes[b + 1].seal # 0
  /\ block[b][t.nodes[b + 1].blk] = t.nodes[b + 1].seal

-----------------------------------------------------------------------------
EmptyTree ==
  [counter |-> 0, max |-> 0, length |-> 0,
   nodes |-> [id \in Ids |-> ZeroNode],
   dirtyNodes |-> {1}, updated |-> {}, dirty |-> TRUE]

Init ==
  /\ head = [v \in Vers |-> ZeroHead]
  /\ node = [id \in Ids |-> [v \in Vers |-> ZeroNode]]
  /\ block = [b \in Blocks |-> NoBlock]
  /\ ht = Closed /\ pc = "idle"
  /\ lookup \in Lookups
  /\ dfh = NoHash /\ saved = NoHash
  /\ ivs = 0
  /\ lost = {}

IsOpen == ht # Closed

\* No call is under way, and the directory has the hash of the last sync:
\* every operation on an open file ends by saving it (ReeFs).
Idle == IsOpen /\ pc = "idle" /\ (lookup = "hash" => saved \in {NoHash, dfh})

\* tee_fs_htree_open(create): an empty tree, with a dirty root, is synced.  The
\* RPC that creates the file empties one that a directory does not name; the
\* directory file itself is created only while it is not there, which a file
\* without any node stands for.
Create ==
  /\ ~IsOpen /\ saved = NoHash
  /\ lookup = "counter" => \A v \in Vers : node[1][v] = ZeroNode
  /\ head' = [v \in Vers |-> ZeroHead]
  /\ node' = [id \in Ids |-> [v \in Vers |-> ZeroNode]]
  /\ block' = [b \in Blocks |-> NoBlock]
  /\ ht' = EmptyTree /\ pc' = "create"
  /\ dfh' = NoHash /\ lost' = {}
  /\ UNCHANGED << lookup, saved, ivs >>

\* tee_fs_htree_open() of a file that is there.
Open ==
  /\ ~IsOpen /\ Opens
  /\ ht' = Loaded(HeadIdx)
  /\ dfh' = node[1][HeadIdx].hash
  /\ UNCHANGED << disk, pc, lookup, saved, ivs, lost >>

\* Faulty variant: every write of a block moves it, also the second one before
\* a sync.
PlaceMoves(id) == Flip(ht.nodes[id].blk)

\* Where the next write of the block of a node goes: the flag moves to the
\* other place on the first write after a sync only.
Place(id) ==
  IF id \in ht.updated THEN ht.nodes[id].blk ELSE Flip(ht.nodes[id].blk)

\* out_of_place_write() of one block: of a block that is there, or of the
\* first one after them, since ree_fs_write_primitive() fills holes.
WriteBlock(b) ==
  LET id == b + 1
      v  == Place(id)
      length == IF ht.length < 2 * id THEN 2 * id ELSE ht.length
  IN  /\ Idle
      /\ b <= RoundUp(ht.length)
      /\ b < RoundUp(ht.length) => Readable(ht, b)
      /\ ivs < MaxWrites
      /\ ivs' = ivs + 1
      /\ block' = [block EXCEPT ![b][v] = ivs + 1]
      /\ ht' = [ht EXCEPT !.max = IF id \in TreeIds(@) THEN @ ELSE id,
                          !.length = length,
                          !.nodes[id].blk = v,
                          !.nodes[id].seal = ivs + 1,
                          !.updated = @ \cup {id},
                          !.dirtyNodes = @ \cup {id}
                              \cup (IF length # ht.length THEN {1} ELSE {}),
                          !.dirty = TRUE]
      /\ UNCHANGED << head, node, pc, lookup, dfh, saved, lost >>

\* ree_fs_truncate() to a shorter length: the tree drops its last nodes,
\* storage is cut, the root becomes dirty for the new length, and the sync
\* begins.
Truncate(length) ==
  LET keep == length \div 2 + 1          (* BLOCK_NUM_TO_NODE_ID(block_num) *)
      cut  == RoundUp(length) + 1        (* blocks left in storage *)
      gone == {id \in Ids : id > keep}
  IN  /\ Idle /\ ~ht.dirty
      /\ ht.counter < MaxCounter
      /\ length < ht.length \/ (SameLength /\ length = ht.length)
      /\ ht' = [ht EXCEPT !.max = IF keep < @ THEN keep ELSE @,
                          !.length = length,
                          !.nodes = [id \in Ids |-> IF id \in gone THEN ZeroNode
                                                    ELSE ht.nodes[id]],
                          !.updated = @ \ gone,
                          !.dirtyNodes = (@ \ gone) \cup {1},
                          !.dirty = TRUE]
      /\ block' = [b \in Blocks |-> IF b < cut THEN block[b]
                                    ELSE NoBlock]
      /\ lost' = lost \cup {b \in Blocks : cut <= b /\ block[b] # NoBlock}
      /\ pc' = "sync"
      /\ UNCHANGED << head, node, lookup, dfh, saved, ivs >>

\* tee_fs_htree_sync_to_storage(): nothing to do unless the tree is dirty.
Sync ==
  /\ Idle /\ ht.dirty
  /\ ht.counter < MaxCounter
  /\ pc' = "sync"
  /\ UNCHANGED << disk, ht, lookup, dfh, saved, ivs, lost >>

\* Faulty variant: a node whose child moved is not written.
AboveClean(id) == {}

\* What becomes dirty with a node that is written: its parent, which has to
\* point to the other place.
Above(id) == {Parent(id)} \ {0}

\* htree_sync_node_to_storage() on the next dirty node: its parent points to
\* the other version from now on, and is dirty.
SyncNode ==
  LET id == NextDirty(ht)
      up == Parent(id)
      v  == IF id = 1 THEN Flip(ht.counter % 2) ELSE Flip(ht.nodes[up].ch[Bit(id)])
      image == [ht.nodes[id] EXCEPT !.hash = Hash(ht.nodes, ht.max, ht.length, id)]
      nodes == [ht.nodes EXCEPT ![id] = image]
  IN  /\ pc \in {"create", "sync"} /\ ht.dirtyNodes # {}
      /\ node' = [node EXCEPT ![id][v] = image]
      /\ ht' = [ht EXCEPT
           !.nodes = IF id = 1 THEN nodes
                     ELSE [nodes EXCEPT ![up].ch[Bit(id)] = v],
           !.dirtyNodes = (@ \ {id}) \cup Above(id),
           !.updated = @ \ {id}]
      /\ UNCHANGED << head, block, pc, lookup, dfh, saved, ivs, lost >>

\* update_root() and the write of the head, which the counter places.  A file
\* that is created gets a dummy head in the other place.
SyncHead ==
  LET counter == ht.counter + 1    (* 32 bits, beyond MaxCounter *)
      image == [counter |-> counter, max |-> ht.max, length |-> ht.length,
                root |-> ht.nodes[1].hash]
  IN  /\ pc \in {"create", "sync"} /\ ht.dirtyNodes = {}
      /\ head' = [head EXCEPT ![counter % 2] = image]
      /\ ht' = [ht EXCEPT !.counter = counter, !.dirty = FALSE]
      /\ dfh' = ht.nodes[1].hash
      /\ pc' = IF pc = "create" THEN "dummy" ELSE "idle"
      /\ lost' = IF lookup = "counter" THEN {b \in lost : b < RoundUp(ht.length)}
                 ELSE lost
      /\ UNCHANGED << node, block, lookup, saved, ivs >>

DummyHead ==
  /\ pc = "dummy"
  /\ head' = [head EXCEPT ![0] = ZeroHead]
  /\ pc' = "idle"
  /\ UNCHANGED << node, block, ht, lookup, dfh, saved, ivs, lost >>

\* The directory commits the hash of the last sync.
Save ==
  /\ IsOpen /\ pc = "idle" /\ ~ht.dirty
  /\ lookup = "hash" /\ saved # dfh
  /\ saved' = dfh
  /\ lost' = {b \in lost : b < RoundUp(ht.length)}
  /\ UNCHANGED << disk, ht, pc, lookup, dfh, ivs >>

\* tee_fs_htree_close(), at the end of the use, after an RPC that failed, or
\* because the power does: what is in memory is gone, storage is as it is.
Close ==
  /\ IsOpen
  /\ ht' = Closed /\ pc' = "idle" /\ dfh' = NoHash
  /\ UNCHANGED << disk, lookup, saved, ivs, lost >>

Next ==
  \/ Create \/ Open
  \/ \E b \in Blocks : WriteBlock(b)
  \/ \E length \in Lengths : Truncate(length)
  \/ Sync \/ SyncNode \/ SyncHead \/ DummyHead
  \/ Save \/ Close

Spec == Init /\ [][Next]_vars

-----------------------------------------------------------------------------
(* Properties.                                                             *)

\* The file is atomic: whatever writes were done when the power failed, what
\* is read back next is the content of the last commit as a whole, and the
\* commit is the write of the head for a file that is found by its counters,
\* the change of the hash in the directory for one that is found by hash.
File == INSTANCE AtomicFile WITH
  Content   <- [length : 0..(2 * MaxNodes), seals : [Blocks -> 0..MaxWrites]],
  NoFile    <- ZeroHead,
  committed <- IF Opens THEN Seen(Loaded(HeadIdx)) ELSE ZeroHead,
  open      <- IF IsOpen THEN Seen(ht) ELSE Closed

ImplementsAtomicFile == File!Spec

\* Every block of the open file and of the file as committed can be read: no
\* write of the open file goes to a place the committed version needs.  A
\* shrink that was not committed is the exception, it has cut storage already.
BlocksReadable ==
  /\ IsOpen => \A b \in Blocks \ lost :
       b < RoundUp(ht.length) => Readable(ht, b)
  /\ Opens => \A b \in Blocks \ lost :
       b < RoundUp(head[HeadIdx].length) => Readable(Loaded(HeadIdx), b)

\* fs_htree.h:11 says that updates are atomic: a file the directory knows can
\* always be opened by the hash it knows.
SavedOpens == saved # NoHash => Opens

=============================================================================
