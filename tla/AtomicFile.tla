---------------------------- MODULE AtomicFile ----------------------------
(***************************************************************************)
(* What fs_htree.h promises of a file: "on-disk data structures are        *)
(* duplicated to make updates atomic, an update is finalized to disk with  *)
(* tee_fs_htree_sync_to_storage()".  There is the committed content, which *)
(* survives a crash, and the content of the open file, which does not.     *)
(***************************************************************************)
CONSTANTS Content,   (* what a file can hold; neither of the next two *)
          NoFile,    (* nothing was committed yet *)
          Closed     (* no tree in memory *)

VARIABLES committed, open

Init == committed = NoFile /\ open = Closed

\* A new file is built in memory; it exists once it is committed.
Create ==
  /\ committed = NoFile /\ open = Closed
  /\ open' \in Content
  /\ UNCHANGED committed

\* Reading back a file yields its last committed content.
Open ==
  /\ committed # NoFile /\ open = Closed
  /\ open' = committed
  /\ UNCHANGED committed

Modify == open # Closed /\ open' \in Content /\ UNCHANGED committed

\* All the changes since the last commit become the file, in one step.
Commit == open # Closed /\ committed' = open /\ UNCHANGED open

\* Closing, a failed call to normal world, a reset: the changes are undone.
Close == open' = Closed /\ UNCHANGED committed

Next == Create \/ Open \/ Modify \/ Commit \/ Close

Spec == Init /\ [][Next]_<< committed, open >>

=============================================================================
