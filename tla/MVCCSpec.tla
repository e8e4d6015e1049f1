------------------------------- MODULE MVCCSpec -------------------------------
(***************************************************************************)
(* What the transaction coordinator promises its clients (spec 4.3-4.4),   *)
(* with snapshots, chains, reader counts and merging abstracted away:      *)
(*   - the committed content `db`, address -> block;                       *)
(*   - the open transactions, at most one of them a writer;                *)
(*   - each open transaction's snapshot, the db when it began, and its     *)
(*     own writes; it reads its writes over its snapshot.                  *)
(* A commit publishes the writer's writes over db; the writer's snapshot   *)
(* is still db then, since no other writer could commit meanwhile.        *)
(***************************************************************************)
CONSTANTS Txn, Addr, Val, NoBlock

VARIABLES db, open, writers, snap, local

vars == <<db, open, writers, snap, local>>

Block == Val \cup {NoBlock}
Nothing == [a \in Addr |-> NoBlock]

(* A transaction's writes laid over the content it read.                  *)
Apply(base, w) == [a \in Addr |-> IF w[a] # NoBlock THEN w[a] ELSE base[a]]

Init ==
    /\ db \in [Addr -> Block]
    /\ open = {} /\ writers = {}
    /\ snap = [t \in Txn |-> Nothing]
    /\ local = [t \in Txn |-> Nothing]

Begin(t, w) ==
    /\ t \notin open
    /\ w => writers = {}
    /\ open' = open \cup {t}
    /\ writers' = IF w THEN {t} ELSE writers
    /\ snap' = [snap EXCEPT ![t] = db]
    /\ UNCHANGED <<db, local>>

Write(t, a, v) ==
    /\ t \in writers
    /\ local' = [local EXCEPT ![t][a] = v]
    /\ UNCHANGED <<db, open, writers, snap>>

(* The transaction leaves; its snapshot and writes are forgotten.          *)
Finish(t) ==
    /\ open' = open \ {t}
    /\ writers' = writers \ {t}
    /\ snap' = [snap EXCEPT ![t] = Nothing]
    /\ local' = [local EXCEPT ![t] = Nothing]

Commit(t) ==
    /\ t \in writers
    /\ snap[t] = db
    /\ db' = Apply(db, local[t])
    /\ Finish(t)

Discard(t) ==
    /\ t \in open
    /\ Finish(t)
    /\ UNCHANGED db

Next ==
    \E t \in Txn :
        \/ \E w \in BOOLEAN : Begin(t, w)
        \/ \E a \in Addr, v \in Val : Write(t, a, v)
        \/ Commit(t)
        \/ Discard(t)

Spec == Init /\ [][Next]_vars

=============================================================================
