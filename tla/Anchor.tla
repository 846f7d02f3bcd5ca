------------------------------- MODULE Anchor -------------------------------
(***************************************************************************)
(* Anchoring of message digests on the chain: server/app/messages/anchor.py *)
(* and the callers that start it.                                          *)
(*                                                                         *)
(* Several server processes (gunicorn workers) run the same code.  Each    *)
(* process has its own anchoring lock, its own scheduler thread and any    *)
(* number of flush/logout threads, and its own confirmation job.  They     *)
(* share one database and one wallet on one chain.                         *)
(*                                                                         *)
(* The database is modelled by its committed contents.  A transaction that *)
(* is open between the reservation of a group and its commit lives in the  *)
(* state of the thread that runs it: the record it inserted, and the rows  *)
(* whose locks it holds.  A rollback, or a crash, forgets them.            *)
(*                                                                         *)
(* A Merkle root is identified with the set of messages it was built from. *)
(***************************************************************************)
EXTENDS Naturals, FiniteSets

CONSTANTS
  Procs,        \* server processes
  Threads,      \* threads that call anchor_pending
  ProcOf,       \* the process of a thread
  Schedulers,   \* the scheduler threads: they anchor everything
  NoThread,     \* the lock is free
  Users,
  AllUsers,     \* the scope of a scheduled run: no user_id
  Msgs,
  Sender,
  Recipient,
  RevertLimit,  \* 3: a record reverted more often is released
  MayReplace,   \* the gas price can rise enough to replace a pending transaction
  MaxRecords,   \* bound: blockchain_records rows ever inserted
  MaxTxs,       \* bound: transactions the chain ever accepts
  MaxFaults     \* bound: crashes, database errors, RPC errors and reverts

ASSUME ThreadsAssumption ==
  /\ ProcOf \in [Threads -> Procs]
  /\ Schedulers \subseteq Threads
  /\ NoThread \notin Threads
ASSUME MessagesAssumption ==
  /\ Sender \in [Msgs -> Users]
  /\ Recipient \in [Msgs -> Users]
  /\ AllUsers \notin Users
ASSUME BoundsAssumption ==
  /\ RevertLimit \in Nat
  /\ MayReplace \in BOOLEAN
  /\ MaxRecords \in Nat
  /\ MaxTxs \in Nat
  /\ MaxFaults \in Nat

Records  == 1..MaxRecords
NoRecord == 0              \* blockchain_record_id IS NULL
Txs      == 1..MaxTxs
NoTx     == 0

VARIABLES
  msg,      \* committed messages: "unsent", "live" or "deleted"
  claim,    \* committed messages.blockchain_record_id
  rec,      \* committed blockchain_records
  tx,       \* transactions the chain has accepted
  mined,    \* the wallet's "latest" transaction count
  lock,     \* anchor.py's _lock, one per process
  run,      \* what each anchoring thread is doing
  poll,     \* the rows each process's confirmation job has still to look at
  faults    \* faults so far

vars == <<msg, claim, rec, tx, mined, lock, run, poll, faults>>

RecordRow ==
  [state: {"free", "live", "released"}, batch: SUBSET Msgs, tx: Txs \cup {NoTx},
   reverts: 0..RevertLimit, confirmed: BOOLEAN]

FreeRow ==
  [state |-> "free", batch |-> {}, tx |-> NoTx, reverts |-> 0, confirmed |-> FALSE]

ChainTx ==
  [state: {"unsent", "pending", "ok", "reverted", "replaced"}, nonce: Nat,
   root: SUBSET Msgs]

UnsentTx == [state |-> "unsent", nonce |-> 0, root |-> {}]

\* nonce is _run's local variable, picked the fetched rows not yet handled
\* (every other field belongs to the group that is being anchored).
AnchorRun ==
  [pc: {"idle", "selected", "grouping", "reserved", "sent"}, picked: SUBSET Msgs,
   nonce: Nat, batch: SUBSET Msgs, held: SUBSET Msgs, rec: Records \cup {NoRecord},
   tx: Txs \cup {NoTx}]

IdleRun ==
  [pc |-> "idle", picked |-> {}, nonce |-> 0, batch |-> {}, held |-> {},
   rec |-> NoRecord, tx |-> NoTx]

\* One row of _confirm_run's SELECT: a snapshot, revert_count included.
PollRow == [rec: Records, tx: Txs \cup {NoTx}, reverts: 0..RevertLimit]

TypeOK ==
  /\ msg \in [Msgs -> {"unsent", "live", "deleted"}]
  /\ claim \in [Msgs -> Records \cup {NoRecord}]
  /\ rec \in [Records -> RecordRow]
  /\ tx \in [Txs -> ChainTx]
  /\ mined \in Nat
  /\ lock \in [Procs -> Threads \cup {NoThread}]
  /\ run \in [Threads -> AnchorRun]
  /\ poll \in [Procs -> SUBSET PollRow]
  /\ faults \in Nat

Init ==
  /\ msg = [m \in Msgs |-> "unsent"]
  /\ claim = [m \in Msgs |-> NoRecord]
  /\ rec = [r \in Records |-> FreeRow]
  /\ tx = [i \in Txs |-> UnsentTx]
  /\ mined = 0
  /\ lock = [p \in Procs |-> NoThread]
  /\ run = [t \in Threads |-> IdleRun]
  /\ poll = [p \in Procs |-> {}]
  /\ faults = 0

-----------------------------------------------------------------------------
(* Helpers                                                                 *)

Live == {m \in Msgs : msg[m] = "live"}

\* The rows the open transactions of threads other than t have written.
LockedByOthers(t) == UNION {run[s].held : s \in Threads \ {t}}
Locked == UNION {run[s].held : s \in Threads}

\* Fault-injection guard: at most MaxFaults things go wrong.
Fault ==
  /\ faults < MaxFaults
  /\ faults' = faults + 1

ClaimedBy(r) == {m \in Msgs : claim[m] = r}

-----------------------------------------------------------------------------
(* The routes that add and remove rows                                     *)

\* POST /messages (and a forward): the INSERT commits at once.
SendMessage(m) ==
  /\ msg[m] = "unsent"
  /\ msg' = [msg EXCEPT ![m] = "live"]
  /\ UNCHANGED <<claim, rec, tx, mined, lock, run, poll, faults>>

\* DELETE /messages/<id>: waits for the row lock of an open reservation.
DeleteMessage(m) ==
  /\ msg[m] = "live"
  /\ m \notin Locked
  /\ msg' = [msg EXCEPT ![m] = "deleted"]
  /\ claim' = [claim EXCEPT ![m] = NoRecord]
  /\ UNCHANGED <<rec, tx, mined, lock, run, poll, faults>>

-----------------------------------------------------------------------------
(* anchor_pending                                                          *)

LockIgnored(t) == TRUE
\* _lock.acquire(blocking=False): a call that finds it taken does nothing.
LockFree(t) == lock[ProcOf[t]] = NoThread

Scopes(t) == IF t \in Schedulers THEN {AllUsers} ELSE Users

\* The SELECT's WHERE clause over what is committed.
Pending(scope) ==
  {m \in Live : /\ claim[m] = NoRecord
                /\ scope = AllUsers \/ scope \in {Sender[m], Recipient[m]}}

\* Takes the lock and reads the unanchored rows; with none, returns at once.
StartRun(t, scope) ==
  /\ run[t].pc = "idle"
  /\ LockFree(t)
  /\ Pending(scope) # {}
  /\ lock' = [lock EXCEPT ![ProcOf[t]] = t]
  /\ run' = [run EXCEPT ![t] = [IdleRun EXCEPT !.pc = "selected", !.picked = Pending(scope)]]
  /\ UNCHANGED <<msg, claim, rec, tx, mined, poll, faults>>

\* get_transaction_count: only mined transactions count.
ReadNonce(t) ==
  /\ run[t].pc = "selected"
  /\ run' = [run EXCEPT ![t] = [@ EXCEPT !.pc = "grouping", !.nonce = mined]]
  /\ UNCHANGED <<msg, claim, rec, tx, mined, lock, poll, faults>>

KeepLock(t) == UNCHANGED lock
\* The finally clause of anchor_pending.
ReleaseLock(t) == lock' = [lock EXCEPT ![ProcOf[t]] = NoThread]

\* The run ends by an exception: the connection is closed, the lock released.
AbortRun(t) ==
  /\ run[t].pc = "selected"
  /\ Fault
  /\ run' = [run EXCEPT ![t] = IdleRun]
  /\ ReleaseLock(t)
  /\ UNCHANGED <<msg, claim, rec, tx, mined, poll>>

\* The next group: all fetched rows of one recipient.
Group(t, u) == {m \in run[t].picked : Recipient[m] = u}

\* The thread's state once the group `batch` is done with, anchored or not.
Continue(t, batch, nonce) ==
  [IdleRun EXCEPT !.pc = "grouping", !.picked = run[t].picked \ batch, !.nonce = nonce]

\* A uuid4 nobody uses: not committed, not in another open transaction.  (Ids
\* are taken in order: which one it is makes no difference.)
Unused(r) == rec[r].state = "free" /\ \A s \in Threads : run[s].rec # r
FreshRecord(r) == Unused(r) /\ \A q \in 1..(r - 1) : ~Unused(q)

\* The UPDATE takes the row locks, and waits for them.
RowsFree(t, batch) == batch \cap LockedByOthers(t) = {}

\* INSERT the record and claim the rows, uncommitted.  The UPDATE goes by id
\* alone: a row that another process has claimed meanwhile is claimed again.
Reserve(t, u, r) ==
  LET batch == Group(t, u) IN
  /\ run[t].pc = "grouping"
  /\ batch # {}
  /\ RowsFree(t, batch)
  /\ FreshRecord(r)
  /\ run' = [run EXCEPT ![t] = [@ EXCEPT !.pc = "reserved", !.batch = batch,
                                         !.held = batch \cap Live, !.rec = r]]
  /\ UNCHANGED <<msg, claim, rec, tx, mined, lock, poll, faults>>

\* INSERT or UPDATE raises (a lock wait timeout included): on to the next group.
ReserveFails(t, u) ==
  /\ run[t].pc = "grouping"
  /\ Group(t, u) # {}
  /\ Fault
  /\ run' = [run EXCEPT ![t] = Continue(t, Group(t, u), run[t].nonce)]
  /\ UNCHANGED <<msg, claim, rec, tx, mined, lock, poll>>

\* The group is given up and its reservation rolled back.
Rollback(t) == run' = [run EXCEPT ![t] = Continue(t, run[t].batch, run[t].nonce)]

PendingWith(n) == {i \in Txs : tx[i].state = "pending" /\ tx[i].nonce = n}

\* The node takes a transaction with a new nonce, or one that pays more than
\* the pending transaction it replaces.
Accepts(n) == /\ n >= mined
              /\ PendingWith(n) = {} \/ MayReplace

FreshTx(i) == tx[i].state = "unsent" /\ \A j \in 1..(i - 1) : tx[j].state # "unsent"

\* The chain after transaction i carries root with nonce n.
WithTx(i, n, root) ==
  [j \in Txs |-> IF j = i THEN [state |-> "pending", nonce |-> n, root |-> root]
                 ELSE IF j \in PendingWith(n) THEN [tx[j] EXCEPT !.state = "replaced"]
                 ELSE tx[j]]

\* send_raw_transaction returns a hash; the nonce moves on.
SendTx(t, i) ==
  /\ run[t].pc = "reserved"
  /\ FreshTx(i)
  /\ Accepts(run[t].nonce)
  /\ tx' = WithTx(i, run[t].nonce, run[t].batch)
  /\ run' = [run EXCEPT ![t] = [@ EXCEPT !.pc = "sent", !.tx = i,
                                         !.nonce = run[t].nonce + 1]]
  /\ UNCHANGED <<msg, claim, rec, mined, lock, poll, faults>>

\* "nonce too low", "already known" or "replacement transaction underpriced".
SendRefused(t) ==
  /\ run[t].pc = "reserved"
  /\ run[t].nonce < mined \/ PendingWith(run[t].nonce) # {}
  /\ Rollback(t)
  /\ UNCHANGED <<msg, claim, rec, tx, mined, lock, poll, faults>>

\* The gas estimate or the submission fails before the node has the transaction.
SendFails(t) ==
  /\ run[t].pc = "reserved"
  /\ Fault
  /\ Rollback(t)
  /\ UNCHANGED <<msg, claim, rec, tx, mined, lock, poll>>

\* The node has it but its answer is lost: on chain, and rolled back here.
SendLost(t, i) ==
  /\ run[t].pc = "reserved"
  /\ FreshTx(i)
  /\ Accepts(run[t].nonce)
  /\ Fault
  /\ tx' = WithTx(i, run[t].nonce, run[t].batch)
  /\ Rollback(t)
  /\ UNCHANGED <<msg, claim, rec, mined, lock, poll>>

\* The rows the UPDATE matched: those that still existed.
CommitRows(t) == run[t].held

\* The record as inserted, with its tx_hash.
NewRow(t) ==
  [state |-> "live", batch |-> run[t].batch, tx |-> run[t].tx, reverts |-> 0,
   confirmed |-> FALSE]

\* UPDATE tx_hash and COMMIT: record and claims become visible together.
CommitRecord(t) ==
  /\ run[t].pc = "sent"
  /\ rec' = [rec EXCEPT ![run[t].rec] = NewRow(t)]
  /\ claim' = [m \in Msgs |-> IF m \in CommitRows(t) THEN run[t].rec ELSE claim[m]]
  /\ run' = [run EXCEPT ![t] = Continue(t, run[t].batch, run[t].nonce)]
  /\ UNCHANGED <<msg, tx, mined, lock, poll, faults>>

\* The commit fails: the transaction stays on chain, the rows are free again.
CommitFails(t) ==
  /\ run[t].pc = "sent"
  /\ Fault
  /\ Rollback(t)
  /\ UNCHANGED <<msg, claim, rec, tx, mined, lock, poll>>

\* No group left: close the connection, release the lock.
FinishRun(t) ==
  /\ run[t].pc = "grouping"
  /\ run[t].picked = {}
  /\ run' = [run EXCEPT ![t] = IdleRun]
  /\ ReleaseLock(t)
  /\ UNCHANGED <<msg, claim, rec, tx, mined, poll, faults>>

AnchorStep(t) ==
  \/ ReadNonce(t)
  \/ \E u \in Users, r \in Records : Reserve(t, u, r)
  \/ \E i \in Txs : SendTx(t, i)
  \/ SendRefused(t)
  \/ CommitRecord(t)
  \/ FinishRun(t)

AnchorFault(t) ==
  \/ AbortRun(t)
  \/ \E u \in Users : ReserveFails(t, u)
  \/ SendFails(t)
  \/ \E i \in Txs : SendLost(t, i)
  \/ CommitFails(t)

-----------------------------------------------------------------------------
(* confirm_pending                                                         *)

Unconfirmed ==
  {[rec |-> r, tx |-> rec[r].tx, reverts |-> rec[r].reverts] :
     r \in {q \in Records : rec[q].state = "live" /\ ~rec[q].confirmed}}

\* The SELECT of the unconfirmed records; no row, nothing to do.
StartPoll(p) ==
  /\ poll[p] = {}
  /\ Unconfirmed # {}
  /\ poll' = [poll EXCEPT ![p] = Unconfirmed]
  /\ UNCHANGED <<msg, claim, rec, tx, mined, lock, run, faults>>

RowDone(p, row) == poll' = [poll EXCEPT ![p] = @ \ {row}]

\* No receipt (TransactionNotFound, or None): look again next time.
NoReceipt(p, row) ==
  /\ row \in poll[p]
  /\ tx[row.tx].state \in {"pending", "replaced"}
  /\ RowDone(p, row)
  /\ UNCHANGED <<msg, claim, rec, tx, mined, lock, run, faults>>

NewCount(row) == row.reverts + 1

ToleratedOnceMore(row) == NewCount(row) <= RevertLimit + 1
\* not new_count > 3
Tolerated(row) == NewCount(row) <= RevertLimit

\* Status 0, not often enough yet: the UPDATE writes the count it computed from
\* its snapshot, and does nothing to a record that is gone.
CountRevert(p, row) ==
  /\ row \in poll[p]
  /\ tx[row.tx].state = "reverted"
  /\ Tolerated(row)
  /\ rec' = IF rec[row.rec].state = "live"
            THEN [rec EXCEPT ![row.rec] = [@ EXCEPT !.reverts = NewCount(row)]] ELSE rec
  /\ RowDone(p, row)
  /\ UNCHANGED <<msg, claim, tx, mined, lock, run, faults>>

ReleaseNothing(r) == {}
\* The rows set back to NULL: WHERE blockchain_record_id = r.
Released(r) == ClaimedBy(r)

\* Status 0 once too often: the messages go back, the record is deleted.  The
\* UPDATE waits for rows an open reservation holds.
ReleaseReverted(p, row) ==
  /\ row \in poll[p]
  /\ tx[row.tx].state = "reverted"
  /\ ~Tolerated(row)
  /\ Released(row.rec) \cap Locked = {}
  /\ claim' = [m \in Msgs |-> IF m \in Released(row.rec) THEN NoRecord ELSE claim[m]]
  /\ rec' = [rec EXCEPT ![row.rec] = [@ EXCEPT !.state = "released"]]
  /\ RowDone(p, row)
  /\ UNCHANGED <<msg, tx, mined, lock, run, faults>>

HasReceipt(i) == tx[i].state # "pending"
Succeeded(i) == tx[i].state = "ok"

\* Status 1: block_number and block_timestamp are stored.
Confirm(p, row) ==
  /\ row \in poll[p]
  /\ Succeeded(row.tx)
  /\ rec' = IF rec[row.rec].state = "live"
            THEN [rec EXCEPT ![row.rec] = [@ EXCEPT !.confirmed = TRUE]] ELSE rec
  /\ RowDone(p, row)
  /\ UNCHANGED <<msg, claim, tx, mined, lock, run, faults>>

\* The receipt, the block or the database cannot be had: the row is skipped.
PollFails(p, row) ==
  /\ row \in poll[p]
  /\ Fault
  /\ RowDone(p, row)
  /\ UNCHANGED <<msg, claim, rec, tx, mined, lock, run>>

ConfirmStep(p) ==
  \/ StartPoll(p)
  \/ \E row \in poll[p] : NoReceipt(p, row)
  \/ \E row \in poll[p] : CountRevert(p, row)
  \/ \E row \in poll[p] : ReleaseReverted(p, row)
  \/ \E row \in poll[p] : Confirm(p, row)

-----------------------------------------------------------------------------
(* The chain and the processes                                             *)

\* The wallet's transactions are mined in nonce order; storeData succeeds.
Mine(i) ==
  /\ tx[i].state = "pending"
  /\ tx[i].nonce = mined
  /\ tx' = [tx EXCEPT ![i] = [@ EXCEPT !.state = "ok"]]
  /\ mined' = mined + 1
  /\ UNCHANGED <<msg, claim, rec, lock, run, poll, faults>>

\* ... or runs out of gas: mined with status 0.
MineReverted(i) ==
  /\ tx[i].state = "pending"
  /\ tx[i].nonce = mined
  /\ Fault
  /\ tx' = [tx EXCEPT ![i] = [@ EXCEPT !.state = "reverted"]]
  /\ mined' = mined + 1
  /\ UNCHANGED <<msg, claim, rec, lock, run, poll>>

\* The process dies and systemd/gunicorn starts another: its locks and threads
\* are gone, MySQL rolls its open transactions back.
Crash(p) ==
  /\ Fault
  /\ lock' = [lock EXCEPT ![p] = NoThread]
  /\ run' = [t \in Threads |-> IF ProcOf[t] = p THEN IdleRun ELSE run[t]]
  /\ poll' = [poll EXCEPT ![p] = {}]
  /\ UNCHANGED <<msg, claim, rec, tx, mined>>

Next ==
  \/ \E m \in Msgs : SendMessage(m) \/ DeleteMessage(m)
  \/ \E t \in Threads : \E scope \in Scopes(t) : StartRun(t, scope)
  \/ \E t \in Threads : AnchorStep(t) \/ AnchorFault(t)
  \/ \E p \in Procs : ConfirmStep(p)
  \/ \E p \in Procs : \E row \in poll[p] : PollFails(p, row)
  \/ \E i \in Txs : Mine(i) \/ MineReverted(i)
  \/ \E p \in Procs : Crash(p)

Spec == Init /\ [][Next]_vars

-----------------------------------------------------------------------------
(* Properties                                                              *)

\* A claimed message belongs to a record that exists, whose batch it is in with
\* messages to the same recipient only, and whose transaction went to the chain
\* with the root of that batch.  This is what "reserve, send, commit" together
\* with the release of reverted records must keep under every interleaving.
ClaimCovered ==
  \A m \in Live : claim[m] # NoRecord =>
    LET row == rec[claim[m]] IN
      /\ row.state = "live"
      /\ m \in row.batch
      /\ \A n \in row.batch : Recipient[n] = Recipient[m]
      /\ row.tx # NoTx
      /\ tx[row.tx].state # "unsent"
      /\ tx[row.tx].root = row.batch

\* A message shown as anchored in a block (its record has a block number) is
\* digested by a root that the contract really stored.
ConfirmedIsStored ==
  \A m \in Live : (claim[m] # NoRecord /\ rec[claim[m]].confirmed) =>
    LET row == rec[claim[m]] IN tx[row.tx].state = "ok" /\ m \in tx[row.tx].root

\* The row locks at work: no two open transactions have written the same row.  A part
\* of the invariant behind the others, not a claim about the code.
ReservationsDisjoint ==
  \A s, t \in Threads : s # t => run[s].held \cap run[t].held = {}

\* A confirmed record is never unconfirmed, released or deleted again, though
\* every process polls from its own stale snapshot.
ConfirmedStays ==
  [][\A r \in Records : rec[r].confirmed =>
       rec'[r].confirmed /\ rec'[r].state = "live"]_vars

\* The reservation's promise: "a concurrent scheduler run won't pick up the same
\* messages".  No message that exists is in the batches of two records.
AnchoredOnce ==
  \A r, q \in Records :
    (rec[r].state = "live" /\ rec[q].state = "live" /\ r # q)
      => rec[r].batch \cap rec[q].batch \cap Live = {}

\* What the deployment relies on: the interval jobs keep firing, a run that has
\* started goes on, the node mines.  Flushes, deletions and faults happen or not.
Fairness ==
  /\ \A t \in Schedulers : WF_vars(StartRun(t, AllUsers))
  /\ \A t \in Threads : WF_vars(AnchorStep(t))
  /\ \A p \in Procs : WF_vars(ConfirmStep(p))
  /\ \A i \in Txs : WF_vars(Mine(i))

FairSpec == Spec /\ Fairness

\* Every message that is not deleted ends up in a record with a block number.
EventuallyConfirmed ==
  \A m \in Msgs :
    msg[m] = "live" ~> (msg[m] = "deleted" \/ (claim[m] # NoRecord /\ rec[claim[m]].confirmed))

\* The status that AnchorSpec speaks about, and what the stored roots digest.
StatusOf(m) ==
  IF msg[m] # "live" THEN msg[m]
  ELSE IF claim[m] = NoRecord THEN "waiting"
  ELSE IF rec[claim[m]].confirmed THEN "confirmed" ELSE "claimed"

Digested == UNION {tx[i].root : i \in {j \in Txs : tx[j].state = "ok"}}

Abstract == INSTANCE AnchorSpec WITH
  status <- [m \in Msgs |-> StatusOf(m)],
  stored <- Digested

\* With one server process, anchoring implements its abstract specification: a
\* claim is never taken over by another record, and no confirmation is undone.
ImplementsAnchorSpec == Abstract!ASpec
=============================================================================
