--------------------------- MODULE MVCCCoordinator ---------------------------
(***************************************************************************)
(* The transaction coordinator of the spaces storage engine:               *)
(* stx::storage::mvcc_coordinator together with the copy-on-write layer    *)
(* version_based_allocator (storage/transactions/transactional_storage.h). *)
(*                                                                         *)
(* A snapshot (version_based_allocator) owns one block store, abstracted   *)
(* here to its content: a function from addresses to the version of the   *)
(* block held there, or NoBlock.  The block store's cache, persistence and *)
(* eviction are the subject of the BlockStore module.                      *)
(*                                                                         *)
(* Every public coordinator method runs under the coordinator-wide mutex   *)
(* (the `lock` shared with every snapshot), so each is one atomic action.  *)
(* The parts of begin(), commit() and merge() that run before the mutex is *)
(* taken only touch the replication peers and the journal, which no other  *)
(* action reads, so folding them into the same step loses no interleaving  *)
(* of coordinator state.                                                   *)
(*                                                                         *)
(* A block's payload is identified with the version of the transaction     *)
(* that wrote it: the caller of allocate(a, write) stores its own data,    *)
(* and distinct transactions write distinguishable data.                   *)
(***************************************************************************)
EXTENDS Integers, Sequences, FiniteSets, SequencesExt, TLC

CONSTANTS
    Snap,          \* snapshot objects (version_based_allocator instances)
    InitialSnap,   \* the snapshot wrapping the initial storage
    Nil,           \* nullptr
    MaxAddr,       \* addresses are 1..MaxAddr
    InitNext,      \* `next` of the initial storage: addresses 1..InitNext exist
    MaxVersion,    \* bound on the versions create_version() may hand out
    MergeEnabled,  \* clients may finish a writer with merge() as well as commit()
    Peers,         \* a replication controller and notifiers are attached
    MaxRefs        \* bound on engage() references, the coordinator's and the initial store's

ASSUME InitialSnap \in Snap /\ Nil \notin Snap
ASSUME InitNext \in 1..MaxAddr /\ MaxVersion \in Nat \ {0}
ASSUME MergeEnabled \in BOOLEAN /\ Peers \in BOOLEAN /\ MaxRefs \in Nat

Addr == 1..MaxAddr
NoBlock == -1                        \* the end() sentinel: no block at this address
Val == {NoBlock} \cup (0..MaxVersion) \* 0 is the version of blocks found on disk at startup
EmptyStore == [a \in Addr |-> NoBlock]

VARIABLES
    (* version_based_allocator members, per snapshot object *)
    blocks,        \* allocations: the content of the snapshot's block store
    next,          \* the block store's `next` address counter
    based,         \* previous version (Nil = nullptr)
    version,       \* version
    readers,       \* readers
    snap_order,    \* order
    read_only,     \* read_only
    (* mvcc_coordinator members *)
    storages,      \* committed chain, oldest first
    recycler,      \* recycled read-only transactions
    storage_versions, \* version -> snapshot index
    order,
    active_transactions,
    writing_transactions,
    writing_transaction,
    last_comitted_version,
    last_address,
    journal_synching,
    clock,         \* the last version create_version() returned
    (* collaborators *)
    journaled,     \* versions whose pages were added to the journal
    repl_committed,\* versions whose write set the replication peers committed
    (* history variables of the clients *)
    txns,          \* transactions handed out by begin() and not yet finished
    view,          \* what each transaction's ancestor chain held when it began
    committed,     \* versions whose commit or merge succeeded
    current,       \* the content the successful commits and merges published
    (* reference counts *)
    references,    \* the coordinator's engage() count
    initial_refs   \* the initial block store's engage() count

snapVars == <<blocks, next, based, version, readers, snap_order, read_only>>
coordVars == <<storages, recycler, storage_versions, order, active_transactions,
               writing_transactions, writing_transaction, last_comitted_version,
               last_address, journal_synching, clock>>
extVars == <<journaled, repl_committed>>
histVars == <<txns, view, committed, current>>
refVars == <<references, initial_refs>>
vars == <<snapVars, coordVars, extVars, histVars, refVars>>

-----------------------------------------------------------------------------
(* The ancestor chain of a snapshot, following `based` (bounded so that a  *)
(* broken, cyclic chain still evaluates).                                  *)
RECURSIVE ChainFrom(_, _, _)
ChainFrom(bs, s, n) ==
    IF s = Nil \/ n = 0 THEN <<>> ELSE <<s>> \o ChainFrom(bs, bs[s], n - 1)

Chain(bs, s) == ChainFrom(bs, s, Cardinality(Snap))

(* version_based_allocator::allocate(a, read) walking the ancestors of a   *)
(* snapshot: the first one whose store has a block wins.                   *)
ChainRead(bl, bs, s, a) ==
    LET c == Chain(bs, s)
        hits == {i \in DOMAIN c : bl[c[i]][a] # NoBlock}
    IN IF hits = {} THEN NoBlock ELSE bl[c[Min(hits)]][a]

(* allocate(a, read|write) on a transaction: local store first.            *)
Lookup(t, a) ==
    IF blocks[t][a] # NoBlock THEN blocks[t][a] ELSE ChainRead(blocks, based, based[t], a)

(* Snapshot objects nobody refers to any more: free to be allocated.       *)
FreeSnaps == Snap \ (Range(storages) \cup Range(recycler) \cup txns)

(* Fault models (a plausible slip in the code each) used as mutants.       *)
ReleaseChainTail(rd, prev) ==     \* remove_reader() on prev only, no walk
    [s \in Snap |-> IF s = prev THEN rd[s] - 1 ELSE rd[s]]
ReleaseChainAll(rd, prev) ==      \* mirror of begin(): every committed snapshot
    [s \in Snap |-> IF s \in Range(storages) THEN rd[s] - 1 ELSE rd[s]]

(* remove_reader() along the chain of `prev`, as commit() and discard() do. *)
ReleaseChain(rd, prev) ==
    LET c == Range(Chain(based, prev)) IN
    [s \in Snap |-> IF s \in c THEN rd[s] - 1 ELSE rd[s]]

(* move(): the source's blocks replace the destination's, address by       *)
(* address; addresses the source lacks keep the destination's block.       *)
(* History: the content a client sees after writes `src` land on `dst`.  *)
Published(dst, src) == [a \in Addr |-> IF src[a] # NoBlock THEN src[a] ELSE dst[a]]

OverlayKeepDst(dst, src) ==       \* fault model: the version test of move() reversed
    [a \in Addr |-> IF dst[a] # NoBlock THEN dst[a] ELSE src[a]]

Overlay(dst, src) == [a \in Addr |-> IF src[a] # NoBlock THEN src[a] ELSE dst[a]]

-----------------------------------------------------------------------------
(* merge_down(), over a chain `st` and reader counts `rd`.                 *)
(* Walking from newest to oldest it collects maximal runs of unused        *)
(* snapshots; inside a run each newer member is moved into the next older *)
(* one and flagged merged, so the run's oldest member absorbs the run,     *)
(* newest block winning.  Merged snapshots leave the chain and the index,  *)
(* and the survivors are relinked to their surviving predecessor.          *)
Idle(st, rd, i) == rd[st[i]] = 0

AbsorbedSkipFirst(st, rd, i) ==   \* fault model: the scan misses the oldest pair
    i > 2 /\ Idle(st, rd, i) /\ Idle(st, rd, i - 1)

Absorbed(st, rd, i) == i > 1 /\ Idle(st, rd, i) /\ Idle(st, rd, i - 1)

RunOf(st, rd, i) == {j \in i..Len(st) : \A k \in i..j : Idle(st, rd, k)}

CollapsedOldestWins(st, rd, i) == \* fault model: move() keeps the older block
    LET run == RunOf(st, rd, i) IN
    [a \in Addr |->
        LET w == {j \in run : blocks[st[j]][a] # NoBlock}
        IN IF w = {} THEN NoBlock ELSE blocks[st[Min(w)]][a]]

Collapsed(st, rd, i) ==
    LET run == RunOf(st, rd, i) IN
    [a \in Addr |->
        LET w == {j \in run : blocks[st[j]][a] # NoBlock}
        IN IF w = {} THEN NoBlock ELSE blocks[st[Max(w)]][a]]

Survivors(st, rd) ==
    LET idx == SelectSeq([i \in 1..Len(st) |-> i], LAMBDA i : ~Absorbed(st, rd, i))
    IN [k \in DOMAIN idx |-> st[idx[k]]]

PrevIn(seq, s) ==
    LET k == CHOOSE k \in DOMAIN seq : seq[k] = s IN
    IF k = 1 THEN Nil ELSE seq[k - 1]

(* set_previous() over the surviving chain; merged snapshots get nullptr. *)
Relink(st, keep, gone) ==
    [s \in Snap |->
        IF s \in gone THEN Nil
        ELSE IF s \in Range(keep) THEN PrevIn(keep, s)
        ELSE based[s]]

MergeDown(st, rd) ==
    LET keep == Survivors(st, rd)
        gone == {st[i] : i \in {i \in 1..Len(st) : Absorbed(st, rd, i)}}
        idleAt(s) == {i \in 1..Len(st) : st[i] = s /\ Idle(st, rd, i)}
    IN
    IF journal_synching
    THEN /\ storages' = st
         /\ UNCHANGED <<blocks, based, storage_versions>>
    ELSE /\ storages' = keep
         /\ blocks' = [s \in Snap |->
                         IF s \in gone THEN EmptyStore
                         ELSE IF idleAt(s) # {}
                              THEN Collapsed(st, rd, CHOOSE i \in idleAt(s) : TRUE)
                              ELSE blocks[s]]
         /\ based' = Relink(st, keep, gone)
         /\ storage_versions' =
                Restrict(storage_versions,
                         DOMAIN storage_versions \ {version[g] : g \in gone})

(* begin(): add_reader() on every snapshot of the committed chain.        *)
AddReadersButTail(rd) ==          \* fault model: the loop stops before the tail
    [s \in Snap |-> IF s \in Range(Front(storages)) THEN rd[s] + 1 ELSE rd[s]]

AddReaders(rd) ==
    [s \in Snap |-> IF s \in Range(storages) THEN rd[s] + 1 ELSE rd[s]]

(* commit() and merge(): last_address = max(last_address, version->last()). *)
RaiseLastAddressStale(t) ==       \* fault model: the update is left out
    last_address

RaiseLastAddress(t) == Max({last_address, next[t]})

(* begin(): `if(writer && writing_transactions)` throws InvalidWriterOrder. *)
WriterAdmittedAlways(writer) ==   \* fault model: the single-writer test is left out
    TRUE

WriterAdmitted(writer) == ~(writer /\ writing_transactions > 0)

(* discard(): `if(writer) --writing_transactions`.                         *)
WritingAfterAlways(t) ==          \* fault model: the writer test is dropped
    writing_transactions - 1

WritingAfter(t) ==
    IF ~read_only[t] THEN writing_transactions - 1 ELSE writing_transactions

(* merge(): transaction->set_order(order) after ++order.                   *)
MergeOrderMissing(t) ==           \* fault model: set_order() is left out
    snap_order

MergeOrder(t) == [snap_order EXCEPT ![t] = order + 1]

(* merge(): transaction->set_version(create_version()) once the writer's  *)
(* blocks are in the tail.                                                 *)
MergeVersionKept(t) ==            \* fault model: the writer keeps its version
    version

MergeVersion(t) == [version EXCEPT ![t] = clock + 1]

(* merge(): the transaction is re-indexed under the version it is given.  *)
RekeyEraseOnly(t) ==              \* fault model: the re-insertion is left out
    Restrict(storage_versions, DOMAIN storage_versions \ {version[t]})

Rekey(t) ==
    ((clock + 1) :> t) @@ Restrict(storage_versions, DOMAIN storage_versions \ {version[t]})

-----------------------------------------------------------------------------
Init ==
    /\ blocks = [s \in Snap |->
                   IF s = InitialSnap
                   THEN [a \in Addr |-> IF a <= InitNext THEN 0 ELSE NoBlock]
                   ELSE EmptyStore]
    /\ next = [s \in Snap |-> InitNext]
    /\ based = [s \in Snap |-> Nil]
    /\ version = [s \in Snap |-> IF s = InitialSnap THEN 1 ELSE 0]
    /\ readers = [s \in Snap |-> 0]
    /\ snap_order = [s \in Snap |-> 1]
    /\ read_only = [s \in Snap |-> FALSE]
    /\ storages = <<InitialSnap>>
    /\ recycler = <<>>
    /\ storage_versions = (1 :> InitialSnap)
    /\ order = 1
    /\ active_transactions = 0
    /\ writing_transactions = 0
    /\ writing_transaction = Nil
    /\ last_comitted_version = 0
    /\ last_address = InitNext
    /\ journal_synching = FALSE
    /\ clock = 1
    /\ journaled = {}
    /\ repl_committed = {}
    /\ txns = {}
    /\ view = [s \in Snap |-> EmptyStore]
    /\ committed = {}
    /\ current = blocks[InitialSnap]
    /\ references = 0 /\ initial_refs = 0     \* initial->engage() is commented out

-----------------------------------------------------------------------------
(* begin(writer): create_version(), begin_replicants(), then under the     *)
(* mutex the single-writer check and the new transaction.  A writer, or a  *)
(* reader when the recycler is empty, gets a new snapshot whose store's    *)
(* allocation starts at last_address; a reader otherwise reuses the last   *)
(* recycled one, which keeps its old version and order.  Every committed   *)
(* snapshot gains a reader.                                                *)
Begin(writer) ==
    /\ clock < MaxVersion
    /\ WriterAdmitted(writer)
    /\ \E b \in Snap :
        /\ \/ /\ writer \/ recycler = <<>>
              /\ b \in FreeSnaps
              /\ version' = [version EXCEPT ![b] = clock + 1]
              /\ snap_order' = [snap_order EXCEPT ![b] = order]
              /\ blocks' = [blocks EXCEPT ![b] = EmptyStore]
              /\ next' = [next EXCEPT ![b] = last_address]
              /\ UNCHANGED recycler
           \/ /\ ~writer /\ recycler # <<>>
              /\ b = Last(recycler)
              /\ recycler' = Front(recycler)
              /\ UNCHANGED <<version, snap_order, blocks, next>>
        /\ read_only' = [read_only EXCEPT ![b] = ~writer]
        /\ storage_versions' = (version'[b] :> b) @@ storage_versions
        /\ based' = [based EXCEPT ![b] = Last(storages)]
        /\ readers' = AddReaders(readers)
        /\ active_transactions' = active_transactions + 1
        /\ writing_transactions' =
               IF writer THEN writing_transactions + 1 ELSE writing_transactions
        /\ writing_transaction' = IF writer THEN b ELSE writing_transaction
        /\ clock' = clock + 1
        /\ txns' = txns \cup {b}
        /\ view' = [view EXCEPT ![b] =
                      [a \in Addr |-> ChainRead(blocks, based, Last(storages), a)]]
    /\ UNCHANGED <<storages, order, last_comitted_version, last_address,
                   journal_synching, extVars, committed, current>>

(* begin() that throws: begin_replicants() refused (ReplicationFailure),   *)
(* or a writer is already active (InvalidWriterOrder).  The version was    *)
(* already drawn.                                                          *)
BeginRejected(writer) ==
    /\ clock < MaxVersion
    /\ \/ Peers
       \/ ~WriterAdmitted(writer)
    /\ clock' = clock + 1
    /\ UNCHANGED <<snapVars, storages, recycler, storage_versions, order,
                   active_transactions, writing_transactions, writing_transaction,
                   last_comitted_version, last_address, journal_synching,
                   extVars, histVars>>

(* allocate(a, write) by a writer, the caller's store into the block, and  *)
(* complete().  A block found only in an ancestor is copied into the       *)
(* writer's own store (copy on write); a miss returns end() and changes    *)
(* nothing.                                                                *)
Write(t, a) ==
    /\ t \in txns /\ ~read_only[t]
    /\ Lookup(t, a) # NoBlock
    /\ blocks' = [blocks EXCEPT ![t][a] = version[t]]
    /\ UNCHANGED <<next, based, version, readers, snap_order, read_only,
                   coordVars, extVars, histVars>>

(* allocate(0, create): the writer's store mints the address ++next.       *)
Create(t) ==
    /\ t \in txns /\ ~read_only[t]
    /\ next[t] < MaxAddr
    /\ next' = [next EXCEPT ![t] = @ + 1]
    /\ blocks' = [blocks EXCEPT ![t][next[t] + 1] = version[t]]
    /\ UNCHANGED <<based, version, readers, snap_order, read_only,
                   coordVars, extVars, histVars>>

(* The part of commit() after the replicas agreed: the writer becomes      *)
(* read-only, releases the readers it held on its ancestors, is appended   *)
(* to the chain, and merge_down() runs.  The rejections that precede it    *)
(* (version not above last_comitted_version, stale order,                  *)
(* ConcurrentWriterError) are guards here: WriterOrderCurrent and          *)
(* ChainWellFormed show they cannot fire.                                  *)
CommitApply(t) ==
    LET rd == ReleaseChain(readers, based[t]) IN
    /\ based[t] = Last(storages)
    /\ active_transactions' = active_transactions - 1
    /\ writing_transactions' = writing_transactions - 1
    /\ read_only' = [read_only EXCEPT ![t] = TRUE]
    /\ last_address' = RaiseLastAddress(t)
    /\ readers' = rd
    /\ last_comitted_version' = version[t]
    /\ order' = order + 1
    /\ MergeDown(Append(storages, t), rd)
    /\ txns' = txns \ {t}
    /\ committed' = committed \cup {version[t]}
    /\ current' = Published(current, blocks[t])
    /\ UNCHANGED <<next, version, snap_order, recycler, writing_transaction,
                   journal_synching, clock, view>>

(* commit(transaction): the pages are journaled, then write_replicants()   *)
(* and commit_replicants() are consulted.  The code throws                 *)
(* ReplicationFailure when commit_replicants() returns TRUE and goes on    *)
(* when it returns FALSE (merge() tests the opposite).                     *)
Commit(t) ==
    /\ t \in txns /\ ~read_only[t]
    /\ version[t] > last_comitted_version
    /\ snap_order[t] >= order
    /\ journaled' = journaled \cup {version[t]}
    /\ \/ /\ Peers   \* write_replicants() failed
          /\ UNCHANGED <<snapVars, coordVars, repl_committed, histVars>>
       \/ /\ Peers   \* commit_replicants() succeeded, and commit() throws
          /\ repl_committed' = repl_committed \cup {version[t]}
          /\ UNCHANGED <<snapVars, coordVars, histVars>>
       \/ /\ UNCHANGED repl_committed
          /\ CommitApply(t)

(* The part of merge() after the notifiers accepted: the writer's blocks   *)
(* are moved into the chain's tail, the writer's store is rolled back, and *)
(* the writer stays active with the next order and a fresh version.       *)
MergeApply(t) ==
    LET tail == Last(storages) IN
    /\ clock < MaxVersion
    /\ based[t] = tail
    /\ last_address' = RaiseLastAddress(t)
    /\ last_comitted_version' = version[t]
    /\ blocks' = [blocks EXCEPT ![tail] = Overlay(@, blocks[t]), ![t] = EmptyStore]
    /\ order' = order + 1
    /\ snap_order' = MergeOrder(t)
    /\ clock' = clock + 1
    /\ version' = MergeVersion(t)
    /\ storage_versions' = Rekey(t)
    /\ committed' = committed \cup {version[t]}
    /\ current' = Published(current, blocks[t])
    /\ view' = [view EXCEPT ![t] = Published(@, blocks[t])]
    /\ UNCHANGED <<next, based, readers, read_only, storages, recycler,
                   active_transactions, writing_transactions, writing_transaction,
                   journal_synching, txns>>

(* merge(transaction): journal, write_replicants(), commit_replicants()    *)
(* outside the mutex, then under it the bookkeeping, notify_change() and   *)
(* the move into the tail.                                                 *)
Merge(t) ==
    /\ MergeEnabled
    /\ t \in txns /\ ~read_only[t]
    /\ t = writing_transaction
    /\ version[t] > last_comitted_version
    /\ snap_order[t] >= order
    /\ journaled' = journaled \cup {version[t]}
    /\ \/ /\ Peers   \* write_replicants() or commit_replicants() failed
          /\ UNCHANGED <<snapVars, coordVars, repl_committed, histVars>>
       \/ /\ Peers   \* the replicas committed, notify_change() failed
          /\ repl_committed' = repl_committed \cup {version[t]}
          /\ last_address' = RaiseLastAddress(t)
          /\ UNCHANGED <<snapVars, storages, recycler, storage_versions, order,
                         active_transactions, writing_transactions,
                         writing_transaction, last_comitted_version,
                         journal_synching, clock, histVars>>
       \/ /\ repl_committed' =
                IF Peers THEN repl_committed \cup {version[t]} ELSE repl_committed
          /\ MergeApply(t)

(* discard(transaction), also rollback(): the transaction becomes          *)
(* read-only and transient, releases its readers along its ancestors and   *)
(* leaves the index; a reader goes to the recycler.  A writer first asks   *)
(* the peers to roll back, ignoring the answer.                            *)
Discard(t) ==
    LET writer == ~read_only[t] IN
    /\ t \in txns
    /\ based[t] # Nil
    /\ version[t] \in DOMAIN storage_versions
    /\ storage_versions[version[t]] = t
    /\ active_transactions' = active_transactions - 1
    /\ writing_transactions' = WritingAfter(t)
    /\ read_only' = [read_only EXCEPT ![t] = TRUE]
    /\ readers' = ReleaseChain(readers, based[t])
    /\ recycler' = IF writer THEN recycler ELSE Append(recycler, t)
    /\ storage_versions' =
           Restrict(storage_versions, DOMAIN storage_versions \ {version[t]})
    /\ txns' = txns \ {t}
    /\ UNCHANGED <<blocks, next, based, version, snap_order, storages, order,
                   writing_transaction, last_comitted_version, last_address,
                   journal_synching, clock, extVars, view, committed, current>>

(* make_singular(), called by the journal: merge_down() under the mutex.   *)
(* merge_down() returns at once while the journal is synching.             *)
MakeSingular ==
    /\ MergeDown(storages, readers)
    /\ UNCHANGED <<next, version, readers, snap_order, read_only, recycler, order,
                   active_transactions, writing_transactions, writing_transaction,
                   last_comitted_version, last_address, journal_synching, clock,
                   extVars, histVars>>

(* journal_synch_start() / journal_synch_end(); the reduce() that ends the *)
(* synch only flushes caches and leaves the content unchanged.             *)
JournalSynchStart ==
    /\ ~journal_synching
    /\ journal_synching' = TRUE
    /\ UNCHANGED <<snapVars, storages, recycler, storage_versions, order,
                   active_transactions, writing_transactions, writing_transaction,
                   last_comitted_version, last_address, clock, extVars, histVars>>

JournalSynchEnd ==
    /\ journal_synching
    /\ journal_synching' = FALSE
    /\ UNCHANGED <<snapVars, storages, recycler, storage_versions, order,
                   active_transactions, writing_transactions, writing_transaction,
                   last_comitted_version, last_address, clock, extVars, histVars>>

(* engage(): the first reference engages the initial store.               *)
EngagesInitial(r) == r = 0

Engage ==
    /\ references < MaxRefs
    /\ EngagesInitial(references) => initial_refs < MaxRefs
    /\ initial_refs' = IF EngagesInitial(references) THEN initial_refs + 1 ELSE initial_refs
    /\ references' = references + 1
    /\ UNCHANGED <<snapVars, coordVars, extVars, histVars>>

(* release(): the last reference releases the initial store, but only     *)
(* when the chain is down to one snapshot (the other case is a TODO in    *)
(* the code).  The store's release() decrements if positive, then its     *)
(* discard(), which leaves the content this module tracks unchanged.      *)
(* Clients release only what they engaged.                                 *)
Release ==
    /\ references > 0
    /\ references' = references - 1
    /\ initial_refs' = IF references' = 0 /\ Len(storages) = 1 /\ initial_refs > 0
                       THEN initial_refs - 1 ELSE initial_refs
    /\ UNCHANGED <<snapVars, coordVars, extVars, histVars>>

(* The coordinator's operations and the journal's callbacks; none of      *)
(* them touches the reference counts.                                      *)
Operation ==
    \/ \E w \in BOOLEAN : Begin(w) \/ BeginRejected(w)
    \/ \E t \in Snap :
         \/ Commit(t)
         \/ Merge(t)
         \/ Discard(t)
         \/ Create(t)
         \/ \E a \in Addr : Write(t, a)
    \/ MakeSingular
    \/ JournalSynchStart
    \/ JournalSynchEnd

Next ==
    \/ Operation /\ UNCHANGED refVars
    \/ Engage
    \/ Release

Spec == Init /\ [][Next]_vars

-----------------------------------------------------------------------------
(* Properties.                                                             *)

TypeOK ==
    /\ blocks \in [Snap -> [Addr -> Val]]
    /\ next \in [Snap -> 1..MaxAddr]
    /\ based \in [Snap -> Snap \cup {Nil}]
    /\ version \in [Snap -> 0..MaxVersion]
    /\ readers \in [Snap -> Nat]
    /\ snap_order \in [Snap -> Nat]
    /\ read_only \in [Snap -> BOOLEAN]
    /\ storages \in Seq(Snap) /\ recycler \in Seq(Snap)
    /\ DOMAIN storage_versions \subseteq 0..MaxVersion
    /\ \A v \in DOMAIN storage_versions : storage_versions[v] \in Snap
    /\ active_transactions \in Nat /\ writing_transactions \in Nat
    /\ writing_transaction \in Snap \cup {Nil}
    /\ last_comitted_version \in 0..MaxVersion
    /\ last_address \in 1..MaxAddr
    /\ journal_synching \in BOOLEAN
    /\ clock \in 1..MaxVersion
    /\ txns \subseteq Snap
    /\ view \in [Snap -> [Addr -> Val]]
    /\ references \in 0..MaxRefs /\ initial_refs \in 0..MaxRefs

(* move() compares the version of each block it moves with the version   *)
(* the destination's allocate(at, create) reports (the cached block's, or *)
(* the destination store's own) and throws InvalidVersion unless it is     *)
(* newer, half way through the loop and with the destination's allocation *)
(* still open.  merge_down() moves each idle snapshot into the next older  *)
(* one and merge() moves the writer into the tail, so every move goes down *)
(* the chain ending in the open writer: along it, each block is newer than *)
(* every block at its address further down and than every store further   *)
(* down.  Commits, merges, merge_down() passes and the writer's further    *)
(* writes after a merge() keep it so.                                       *)
MoveVersionsAscend ==
    LET L == storages \o SetToSeq({t \in txns : ~read_only[t]})
    IN \A i, j \in 1..Len(L) : i < j =>
         \A a \in Addr : blocks[L[j]][a] # NoBlock =>
             blocks[L[j]][a] > Max({version[L[i]], blocks[L[i]][a]})

(* Snapshot isolation (spec P2): while a transaction is open, the chain of *)
(* committed snapshots it reads through (its `based` ancestors) holds      *)
(* exactly what it held when begin() returned, whatever commit(),          *)
(* merge_down() and merge() have done to the chain since.                  *)
SnapshotIsolation ==
    \A t \in txns : \A a \in Addr :
        ChainRead(blocks, based, based[t], a) = view[t][a]

(* The reader count of every snapshot equals the number of open           *)
(* transactions whose ancestor chain contains it.  begin() adds a reader   *)
(* to every committed snapshot, commit() and discard() remove one along    *)
(* the transaction's chain; the two agree only while merge_down() keeps    *)
(* every pinned snapshot and its links.  A disagreement is a               *)
(* remove_reader() underflow (InvalidReaderCount) or a snapshot merged     *)
(* away under a reader.                                                    *)
ReaderCountsExact ==
    \A s \in Snap :
        readers[s] = Cardinality({t \in txns : s \in Range(Chain(based, based[t]))})

(* The counters begin(), commit(), merge() and discard() keep agree with   *)
(* the open transactions: active_transactions counts them,                 *)
(* writing_transactions counts the open writers, and the single open       *)
(* writer is writing_transaction.                                          *)
CountersAgree ==
    /\ active_transactions = Cardinality(txns)
    /\ writing_transactions = Cardinality({t \in txns : ~read_only[t]})
    /\ \A t \in txns : ~read_only[t] => writing_transaction = t

(* A writer never mints an address that a committed snapshot already      *)
(* holds (spec P3 across transactions): its store's `next` starts at      *)
(* last_address, which commit() and merge() raise to the writer's `next`.  *)
AddressesFresh ==
    \A t \in txns : ~read_only[t] =>
        \A s \in Range(storages) : \A a \in Addr :
            blocks[s][a] # NoBlock => a <= next[t]

(* The stale-writer rejections of commit() and merge() (version not above *)
(* last_comitted_version, order behind the coordinator's) never apply to  *)
(* the open writer: single-writer admission in begin(), the order bump in *)
(* commit() and the set_order()/set_version() in merge() keep it current. *)
WriterOrderCurrent ==
    \A t \in txns : ~read_only[t] =>
        /\ snap_order[t] = order
        /\ version[t] > last_comitted_version

(* The committed chain is what merge_down() verifies: each snapshot's     *)
(* previous pointer is its predecessor in `storages` and versions strictly *)
(* increase.  Each chain member and each open transaction is indexed under *)
(* its version, so the storage_versions.at() lookups of commit(), merge()  *)
(* and discard() find it, and the open writer is based on the tail, so     *)
(* commit() never throws ConcurrentWriterError.                            *)
ChainWellFormed ==
    /\ \A i \in 1..Len(storages) :
        /\ based[storages[i]] = IF i = 1 THEN Nil ELSE storages[i - 1]
        /\ i > 1 => version[storages[i - 1]] < version[storages[i]]
    /\ \A s \in Range(storages) \cup txns :
        /\ version[s] \in DOMAIN storage_versions
        /\ storage_versions[version[s]] = s
    /\ \A t \in txns : ~read_only[t] => based[t] = Last(storages)

(* Merge-down safety (spec P5): after a commit's merge-down pass every     *)
(* snapshot but the newest still has readers, so unused history collapses *)
(* into one snapshot and no pinned snapshot is removed.                    *)
MergeDownCollapses ==
    [][(\E t \in Snap : CommitApply(t)) /\ ~journal_synching =>
         \A i \in 1..Len(storages') - 1 : readers'[storages'[i]] > 0]_vars

(* Committed data stays readable: reading through the chain from its     *)
(* tail yields, at every address, the block of the latest successful      *)
(* commit() or merge() that wrote it.  Commit appends the writer's store, *)
(* merge() moves it into the tail, and merge_down() moves whole runs of    *)
(* snapshots into one; a move in the wrong direction or a snapshot dropped *)
(* without its data shows up here.                                         *)
CommittedReadable ==
    \A a \in Addr : ChainRead(blocks, based, Last(storages), a) = current[a]

(* The spec's merge-down keeps the newest member of each run of unused    *)
(* snapshots, data flowing toward it, so after a commit the chain's tail   *)
(* is the snapshot of the last committed version.                          *)
TailIsLastCommit ==
    last_comitted_version # 0 => version[Last(storages)] = last_comitted_version

(* The coordinator implements MVCCSpec: what a transaction reads through  *)
(* its ancestor chain is its snapshot, the chain read from the committed  *)
(* tail is the committed content, an open writer's own store holds its    *)
(* writes, and begin(), allocate(), commit(), discard(), merge_down() and  *)
(* make_singular() are each a step of the abstract store or invisible.    *)
(* merge() is left out: it changes the snapshot of open readers (run       *)
(* merge_isolation).                                                       *)
ReadAll(s) == [a \in Addr |-> ChainRead(blocks, based, s, a)]

MVCC == INSTANCE MVCCSpec WITH
            Txn <- Snap, Val <- 0..MaxVersion,
            db <- ReadAll(Last(storages)),
            open <- txns,
            writers <- {t \in txns : ~read_only[t]},
            snap <- [t \in Snap |-> IF t \in txns THEN ReadAll(based[t]) ELSE EmptyStore],
            local <- [t \in Snap |-> IF t \in txns THEN blocks[t] ELSE EmptyStore]

CoordinatorRefinement == MVCC!Spec

(* What the replication peers committed was committed locally, or belongs *)
(* to a transaction that is still open and may yet commit.                 *)
ReplicaConsistent ==
    repl_committed \subseteq committed \cup {version[t] : t \in txns}

=============================================================================
