---------------------------- MODULE BlockStoreSpec ----------------------------
(***************************************************************************)
(* What a block store promises its user (spec 4.1), with its cache and    *)
(* persistence session abstracted away: a content, address -> block, the  *)
(* durable content a crash falls back to, and the address an allocation   *)
(* holds for writing between allocate() and complete() (0, the null       *)
(* address, when none).  Only the holder of an allocation changes a       *)
(* block: allocate() may create it empty, complete() stores the caller's  *)
(* data.  commit() makes the content durable; rollback() and a crash      *)
(* return to the durable content; rolling back a transient store deletes  *)
(* its file and empties both.  Cache eviction, write-back and change      *)
(* notifications are invisible at this level.                             *)
(***************************************************************************)
EXTENDS Naturals

CONSTANTS Addr, Val, Absent, Empty

Block == {Absent, Empty} \cup Val

VARIABLES content, durable, held

Init == content = durable /\ held = 0

(* allocate(a, write|create): the store's lock is taken for a; a create   *)
(* of an address the cache does not hold makes it an empty block.          *)
Grant == held = 0 /\ \E a \in Addr :
           /\ held' = a
           /\ content' \in {content, [content EXCEPT ![a] = Empty]}
           /\ UNCHANGED durable

(* The caller's store into the block it holds, then complete().            *)
Write == held # 0 /\ \E v \in Val :
           /\ content' = [content EXCEPT ![held] = v]
           /\ held' = 0
           /\ UNCHANGED durable

Commit == held = 0 /\ durable' = content /\ UNCHANGED <<content, held>>

(* rollback(), or a crash, which also ends an allocation in progress.      *)
Rollback == content' = durable /\ held' = 0 /\ UNCHANGED durable

Wipe == held = 0 /\ content' = [a \in Addr |-> Absent] /\ durable' = content' /\ UNCHANGED held

Next == Grant \/ Write \/ Commit \/ Rollback \/ Wipe

Spec == Init /\ [][Next]_<<content, durable, held>>

=============================================================================
