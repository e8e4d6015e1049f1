------------------------------ MODULE BlockStore ------------------------------
(***************************************************************************)
(* One sqlite_allocator (transactional_storage.h): a cache of block        *)
(* descriptors in front of an SQLite table reached through a session.      *)
(*                                                                         *)
(*   cval, cmod, cclock  the allocations map: per address the cached block *)
(*                       (Absent when not cached), its storage action and  *)
(*                       its LRU clock;                                    *)
(*   db                  the table as this connection sees it (committed   *)
(*                       rows plus the open sqlite transaction's writes);  *)
(*   dbc                 the committed table, what a crash leaves;         *)
(*   transacted, session, is_new, next, clock, changes, busy   as named.   *)
(*   result, how         the block allocate() handed out and how;          *)
(*   references          the engage() count; discard() acts only at zero.  *)
(*                                                                         *)
(* Block contents are abstracted to a few values; memory use is one unit   *)
(* per cached block, so flush_back's `use > before*factor` is             *)
(* `100*use > F*before` with F the factor in percent.  Per-block versions, *)
(* the recycler, read-ahead and replication (repl == nullptr) are left     *)
(* out: none of them changes which content an address shows.               *)
(***************************************************************************)
EXTENDS Naturals, FiniteSets, FiniteSetsExt

CONSTANTS
    MaxAddr,      \* addresses are 1..MaxAddr
    MaxVal,       \* callers store values 1..MaxVal
    InitNext,     \* the constructor's `ma`, the minimum address
    MaxClock,     \* bound on allocations (clock and changes)
    MaxRefs,      \* bound on engage() references
    Transient,    \* the store is transient (a version's temporary file)
    CoordinatorCommits  \* commits are begin_new(); commit() as the coordinator issues them

ASSUME InitNext \in 0..MaxAddr /\ MaxRefs \in Nat /\ Transient \in BOOLEAN /\ CoordinatorCommits \in BOOLEAN

Addr == 1..MaxAddr
Val == 1..MaxVal
Absent == -1                   \* no block at this address
Empty == 0                     \* a block as create_block() makes it
Block == {Absent, Empty} \cup Val
Action == {"read", "write", "create"}   \* storage_action
Factor == {30, 45, 80, 85}     \* check_use, reduce, commit, flush

NoTable == [a \in Addr |-> Absent]

VARIABLES cval, cmod, cclock, db, dbc, transacted, session, is_new, next,
          clock, changes, busy, result, how, references,
          promised     \* history: what the store showed when commit() last returned

vars == <<cval, cmod, cclock, db, dbc, transacted, session, is_new, next,
          clock, changes, busy, result, how, references, promised>>

(* The allocator's fields that the helpers below transform, as a record.   *)
Cur == [cval |-> cval, cmod |-> cmod, cclock |-> cclock, db |-> db, dbc |-> dbc,
        transacted |-> transacted, session |-> session, is_new |-> is_new,
        next |-> next, changes |-> changes]

Put(s) ==
    /\ cval' = s.cval /\ cmod' = s.cmod /\ cclock' = s.cclock /\ db' = s.db /\ dbc' = s.dbc
    /\ transacted' = s.transacted /\ session' = s.session
    /\ is_new' = s.is_new /\ next' = s.next /\ changes' = s.changes

IsState(s) ==
    /\ cval = s.cval /\ cmod = s.cmod /\ cclock = s.cclock /\ db = s.db /\ dbc = s.dbc
    /\ transacted = s.transacted /\ session = s.session
    /\ is_new = s.is_new /\ next = s.next /\ changes = s.changes

Cached(s) == {a \in Addr : s.cval[a] # Absent}

Rows(t) == {a \in Addr : t[a] # Absent}

(* What an address shows through the allocator: the cached block, else the *)
(* row the session would read.                                             *)
ViewOf(s) == [a \in Addr |-> IF s.cval[a] # Absent THEN s.cval[a] ELSE s.db[a]]

View == ViewOf(Cur)

(* Deleting the descriptors of the addresses in gone.                      *)
Evict(s, gone) ==
    [s EXCEPT !.cval   = [a \in Addr |-> IF a \in gone THEN Absent ELSE @[a]],
              !.cmod   = [a \in Addr |-> IF a \in gone THEN "read" ELSE @[a]],
              !.cclock = [a \in Addr |-> IF a \in gone THEN 0 ELSE @[a]]]

(* get_session() with create_statements(): open the connection, which     *)
(* creates the file, and raise next to the largest stored address.         *)
OpenSessionNoMax(s) ==          \* fault model: the `select max(a1)` left out
    IF s.session THEN s ELSE [s EXCEPT !.session = TRUE, !.is_new = FALSE]

OpenSessionPastMax(s) ==        \* fault model: next set one past the largest address
    IF s.session THEN s
    ELSE [s EXCEPT !.session = TRUE, !.is_new = FALSE,
                   !.next = Max({s.next} \cup {r + 1 : r \in Rows(s.db)})]

OpenSession(s) ==
    IF s.session THEN s
    ELSE [s EXCEPT !.session = TRUE, !.is_new = FALSE,
                   !.next = Max({s.next} \cup Rows(s.db))]

(* _begin(): start an sqlite transaction unless one is open.               *)
Begun(s) == IF s.transacted THEN s ELSE [OpenSession(s) EXCEPT !.transacted = TRUE]

(* commit_storage(): commit the sqlite transaction.                         *)
CommitStorage(s) ==
    [s EXCEPT !.dbc = IF s.transacted THEN s.db ELSE @, !.transacted = FALSE]

(* block_descriptor::set_storage_action(): the first action other than    *)
(* read sticks.                                                            *)
SetActionOverwrite(m, h) == h   \* fault model: every allocation overrides the action

SetStorageAction(m, h) == IF m # "read" THEN m ELSE h

(* flush_back()'s first loop: the blocks that go to by_address, the        *)
(* modified ones, or all of them under write_all.                          *)
DirtyWriteOnly(s, wa) ==        \* fault model: only `write` counted as modified
    {a \in Cached(s) : wa \/ s.cmod[a] = "write"}

Dirty(s, wa) == {a \in Cached(s) : wa \/ s.cmod[a] # "read"}

(* flush_back(factor, release, write_all).  The first loop visits blocks   *)
(* in clock order and, under release, drops the unmodified ones while the *)
(* use is still above before*factor; a block is dropped iff the use left  *)
(* after dropping the older unmodified ones is.  Without modified blocks  *)
(* and under the threshold it returns; otherwise it begins a transaction, *)
(* writes the modified blocks (local_writes is on) and marks them          *)
(* written, dropping them too under release.                               *)
FlushBack(s, F, rel, wa) ==
    LET before == Cardinality(Cached(s))
        dirty  == Dirty(s, wa)
        clean  == Cached(s) \ dirty
        Over(u) == 100 * u > F * before
        Older(a) == {b \in clean : \/ s.cclock[b] < s.cclock[a]
                                    \/ (s.cclock[b] = s.cclock[a] /\ b < a)}
        evicted == IF rel THEN {a \in clean : Over(before - Cardinality(Older(a)))} ELSE {}
        s1 == Evict(s, evicted)
    IN IF dirty = {} /\ ~Over(before - Cardinality(evicted))
       THEN s1
       ELSE LET s2 == Begun(s1)
                s3 == [s2 EXCEPT
                         !.db   = [a \in Addr |-> IF a \in dirty THEN s2.cval[a] ELSE @[a]],
                         !.cmod = [a \in Addr |-> IF a \in dirty THEN "read" ELSE @[a]]]
                s4 == IF rel THEN Evict(s3, dirty) ELSE s3
            IN [s4 EXCEPT !.changes = IF wa THEN 0 ELSE @]

(* check_use(): a transient store under memory pressure flushes to 30%.    *)
CheckUse(s, pressure) == IF pressure THEN FlushBack(s, 30, TRUE, FALSE) ELSE s

Pressure == IF Transient THEN BOOLEAN ELSE {FALSE}

(* commit(): flush only inside a transaction, then commit_storage().       *)
CommitOpNoFlush(s) == CommitStorage(s)   \* fault model: the flush_back(0.8) left out

CommitOp(s) == CommitStorage(IF s.transacted THEN FlushBack(s, 80, FALSE, FALSE) ELSE s)

(* rollback(): undo the sqlite transaction and close the session; a       *)
(* transient store's file is removed.  The cache is always emptied.        *)
RollbackOp(s) ==
    LET s1 == IF s.session
              THEN [s EXCEPT !.db = IF s.transacted THEN s.dbc ELSE @, !.session = FALSE]
              ELSE s
        s2 == IF s.session /\ Transient
              THEN [s1 EXCEPT !.db = NoTable, !.dbc = NoTable, !.is_new = TRUE]
              ELSE s1
    IN [Evict(s2, Addr) EXCEPT !.changes = 0, !.transacted = FALSE]

-----------------------------------------------------------------------------
(* The constructor: a store whose file exists opens its session.           *)
Init ==
    /\ \E file \in BOOLEAN :
         LET t == IF file THEN [a \in Addr |-> IF a = 1 THEN 1 ELSE Absent] ELSE NoTable
             s == [cval |-> NoTable, cmod |-> [a \in Addr |-> "read"],
                   cclock |-> [a \in Addr |-> 0], db |-> t, dbc |-> t,
                   transacted |-> FALSE, session |-> FALSE, is_new |-> ~file,
                   next |-> InitNext, changes |-> 0]
         IN IsState(IF file THEN OpenSession(s) ELSE s)
    /\ clock = 0 /\ busy = FALSE /\ result = 0 /\ how = "read" /\ references = 0
    /\ promised = dbc

-----------------------------------------------------------------------------
(* allocate(which, how) = _allocate(): lock, check_use(), count a change  *)
(* unless reading, then: which == 0 creates at ++next; a cached block gets *)
(* set_storage_action(how); an uncached one is loaded by get_buffer()     *)
(* (which opens the session unless is_new) for read/write, or created for *)
(* create (next = max(which, next)); else end() is returned.  A block     *)
(* handed out gets ++clock.  The lock stays held until complete().  The   *)
(* InvalidStorageAction throw for which == 0 without create is left out.  *)
Allocate(w, h) ==
    /\ ~busy /\ clock < MaxClock /\ changes < MaxClock
    /\ w = 0 => h = "create"
    /\ \E pressure \in Pressure :
       LET s0 == CheckUse(Cur, pressure)
           s  == [s0 EXCEPT !.changes = IF h # "read" THEN @ + 1 ELSE @]
           a  == IF w = 0 THEN s.next + 1 ELSE w
           hit == w # 0 /\ s.cval[a] # Absent
           probe == ~hit /\ h # "create" /\ ~s.is_new          \* get_buffer() reaches the table
           sb == IF probe THEN OpenSession(s) ELSE s
           loaded == probe /\ s.db[a] # Absent
           found == hit \/ loaded \/ h = "create"
       IN /\ a \in Addr
          /\ IF found
             THEN /\ Put([sb EXCEPT
                          !.cval[a]   = IF hit THEN @ ELSE IF loaded THEN s.db[a] ELSE Empty,
                          !.cmod[a]   = IF hit THEN SetStorageAction(@, h) ELSE h,
                          !.cclock[a] = clock + 1,
                          !.next      = IF ~hit /\ ~loaded THEN Max({a, @}) ELSE @])
                  /\ clock' = clock + 1 /\ result' = a
             ELSE /\ Put(sb)
                  /\ UNCHANGED clock /\ result' = 0
    /\ busy' = TRUE /\ how' = h /\ UNCHANGED <<promised, references>>

(* The caller stores into the block it was handed for write or create,    *)
(* then complete() releases the lock.                                       *)
Complete(v) ==
    /\ busy
    /\ cval' = IF result # 0 /\ how # "read" THEN [cval EXCEPT ![result] = v] ELSE cval
    /\ busy' = FALSE /\ result' = 0 /\ how' = "read"
    /\ UNCHANGED <<cmod, cclock, db, dbc, transacted, session, is_new, next,
                   clock, changes, promised, references>>

Locked == ~busy /\ UNCHANGED <<clock, busy, result, how>>

Unlocked == Locked /\ UNCHANGED references

Kept == UNCHANGED promised

(* begin(): _begin() unless the file does not exist yet.                   *)
Begin == Unlocked /\ Kept /\ Put(IF is_new THEN Cur ELSE Begun(Cur))

(* begin_new(): _begin() regardless of is_new.                             *)
BeginNew == Unlocked /\ Kept /\ Put(Begun(Cur))

(* commit() called on its own, as version_based_allocator::commit() does. *)
Commit ==
    /\ Unlocked /\ ~CoordinatorCommits
    /\ Put(CommitOp(Cur)) /\ promised' = ViewOf(CommitOp(Cur))

(* begin_new(); commit(): how the coordinator commits a store              *)
(* (journal_commit, merge_down recovery, discard).                         *)
CoordinatorCommit ==
    /\ Unlocked /\ CoordinatorCommits
    /\ Put(CommitOp(Begun(Cur))) /\ promised' = ViewOf(CommitOp(Begun(Cur)))

Rollback ==
    /\ Unlocked /\ Put(RollbackOp(Cur))
    /\ promised' = IF session /\ Transient THEN NoTable ELSE promised

(* flush(): permanent stores only; flush_back(0.85, false), then a PRAGMA *)
(* on get_session(), which opens the session.                              *)
Flush == Unlocked /\ Kept /\ ~Transient /\ Put(OpenSession(FlushBack(Cur, 85, FALSE, FALSE)))

(* reduce_perm(): permanent stores only; above 1 MiB of use,               *)
(* flush_back(0.45, true), then the PRAGMA.                                *)
Reduce ==
    /\ Unlocked /\ Kept /\ ~Transient
    /\ \E big \in BOOLEAN :
         Put(OpenSession(IF big THEN FlushBack(Cur, 45, TRUE, FALSE) ELSE Cur))

(* contains(which): check_use(), then get_buffer() if not cached.          *)
Contains(a) ==
    /\ Unlocked /\ Kept
    /\ \E pressure \in Pressure :
         LET s == CheckUse(Cur, pressure)
         IN Put(IF s.cval[a] = Absent /\ ~s.is_new THEN OpenSession(s) ELSE s)

(* discard() with no references left, on a permanent store: commit what   *)
(* changed with begin_new(); commit(), roll back and close the session,    *)
(* empty the cache.  A transient store's discard() is left out (see the   *)
(* README): it closes the session without rollback() and keeps            *)
(* `transacted`, after which the store writes outside any transaction.    *)
DiscardOp(s) ==
    LET s1 == IF s.changes > 0 THEN CommitOp(Begun(s)) ELSE s
        s2 == IF s1.session THEN RollbackOp(s1) ELSE s1
    IN Evict(s2, Addr)

DiscardStep ==
    /\ ~Transient
    /\ Put(DiscardOp(Cur))
    /\ promised' = IF changes > 0 THEN ViewOf(CommitOp(Begun(Cur))) ELSE promised

(* discard(), or close(): nothing while the store is engaged.              *)
Discard == Unlocked /\ references = 0 /\ DiscardStep

(* engage(): one more reference.                                          *)
Engage ==
    /\ Locked /\ references < MaxRefs
    /\ references' = references + 1
    /\ UNCHANGED <<cval, cmod, cclock, db, dbc, transacted, session, is_new, next,
                   changes, promised>>

(* release(): drop a reference if any, then discard().                     *)
Release ==
    /\ Locked
    /\ references' = IF references > 0 THEN references - 1 ELSE 0
    /\ IF references' = 0
       THEN DiscardStep
       ELSE UNCHANGED <<cval, cmod, cclock, db, dbc, transacted, session, is_new, next,
                       changes, promised>>

(* release_stale_resource_states(): for a notified address whose cached   *)
(* block has another version and is not modified, recycle_block() drops   *)
(* it.  Per-block versions are abstracted, so any clean cached block may   *)
(* be the stale one.  The method takes no lock: it may run while another  *)
(* thread holds the store between allocate() and complete().              *)
ReleaseStale(a) ==
    /\ cval[a] # Absent /\ cmod[a] = "read"
    /\ Put(Evict(Cur, {a}))
    /\ UNCHANGED <<clock, busy, result, how, references, promised>>

(* mvcc_coordinator::notify_changes(), a peer's change notification,      *)
(* forwarded to the store of every snapshot on the chain; here to this    *)
(* store, naming one address.                                               *)
NotifyChanges == \E a \in Addr : ReleaseStale(a)

(* A crash of a permanent store, then its constructor: the cache and the  *)
(* uncommitted sqlite transaction are lost, next restarts at ma and the   *)
(* session is reopened when the file exists.                               *)
Crash ==
    /\ ~Transient
    /\ LET s == [cval |-> NoTable, cmod |-> [a \in Addr |-> "read"],
                 cclock |-> [a \in Addr |-> 0], db |-> dbc, dbc |-> dbc,
                 transacted |-> FALSE, session |-> FALSE, is_new |-> is_new,
                 next |-> InitNext, changes |-> 0]
       IN Put(IF is_new THEN s ELSE OpenSession(s))
    /\ clock' = 0 /\ busy' = FALSE /\ result' = 0 /\ how' = "read" /\ references' = 0
    /\ UNCHANGED promised

Next ==
    \/ \E w \in {0} \cup Addr, h \in Action : Allocate(w, h)
    \/ \E v \in Val : Complete(v)
    \/ Begin \/ BeginNew \/ Commit \/ CoordinatorCommit \/ Rollback
    \/ Flush \/ Reduce \/ Discard \/ Engage \/ Release \/ Crash \/ NotifyChanges
    \/ \E a \in Addr : Contains(a)

Spec == Init /\ [][Next]_vars

-----------------------------------------------------------------------------
TypeOK ==
    /\ cval \in [Addr -> Block] /\ cmod \in [Addr -> Action]
    /\ cclock \in [Addr -> 0..MaxClock]
    /\ db \in [Addr -> Block] /\ dbc \in [Addr -> Block]
    /\ transacted \in BOOLEAN /\ session \in BOOLEAN /\ is_new \in BOOLEAN
    /\ next \in 0..MaxAddr /\ clock \in 0..MaxClock /\ changes \in 0..MaxClock
    /\ busy \in BOOLEAN /\ result \in {0} \cup Addr /\ how \in Action
    /\ references \in 0..MaxRefs

(* The store does what BlockStoreSpec promises, seen through the cache:   *)
(* an address shows its cached block, else its row.  Only the allocation  *)
(* that holds an address changes what it shows; evicting blocks, writing  *)
(* them back, reopening the session, a change notification arriving while *)
(* another thread holds the store, and a crash never do, except as a      *)
(* commit, a rollback to the committed table or the wipe of a transient   *)
(* file.                                                                  *)
(* The address held for writing: an allocation for write or create that *)
(* found or created a block, until complete().                             *)
Held == IF busy /\ how # "read" THEN result ELSE 0

Abs == INSTANCE BlockStoreSpec WITH content <- View, durable <- dbc, held <- Held

StoreRefinement == Abs!Spec

(* Every address that holds a block, cached, written or committed, lies at *)
(* or below next, so allocate(0, create) hands out ++next fresh: the      *)
(* constructor restarts next at ma and get_session() raises it again from *)
(* the table.                                                              *)
NextAboveAll == \A a \in Cached(Cur) \cup Rows(db) \cup Rows(dbc) : a <= next

(* A cached block marked unmodified equals its row, so flush_back() may   *)
(* drop it without writing: every allocation for write or create leaves a *)
(* mark that only flush_back's write clears.                               *)
CleanMatchesDisk == \A a \in Cached(Cur) : cmod[a] = "read" => cval[a] = db[a]

(* What the store showed when commit() last returned is what the committed *)
(* table holds, and so what a crash leaves, until the next commit() (spec *)
(* 4.1: commit flushes all dirty blocks durably).                          *)
CommitDurable == dbc = promised

(* P7: a second flush_back() with the same parameters and no writes in    *)
(* between changes nothing.                                                *)
FlushIdempotent ==
    \A F \in Factor, rel \in BOOLEAN :
        LET once == FlushBack(Cur, F, rel, FALSE)
        IN FlushBack(once, F, rel, FALSE) = once

=============================================================================
