---------------------------- MODULE AnchorProofs ----------------------------
(***************************************************************************)
(* Proofs about Anchor, for any number of processes, threads, messages and *)
(* faults: type correctness, the soundness of claims and confirmations.    *)
(* Then, with one server process, that no message is anchored twice and    *)
(* that anchoring implements AnchorSpec.                                   *)
(***************************************************************************)
EXTENDS Anchor, TLAPS

\* A thread between groups holds nothing; inside one, its record is not yet
\* visible, its locked rows exist and are of the batch, which has one recipient;
\* after the send, its transaction carries the batch's root.
RunOK ==
  \A t \in Threads :
    /\ run[t].pc \in {"idle", "selected", "grouping"} =>
         run[t].held = {} /\ run[t].rec = NoRecord
    /\ run[t].pc \in {"reserved", "sent"} =>
         /\ run[t].rec \in Records
         /\ rec[run[t].rec].state = "free"
         /\ run[t].held \subseteq run[t].batch
         /\ run[t].held \subseteq Live
         /\ \A m, n \in run[t].batch : Recipient[m] = Recipient[n]
    /\ run[t].pc = "sent" =>
         /\ run[t].tx \in Txs
         /\ tx[run[t].tx].state # "unsent"
         /\ tx[run[t].tx].root = run[t].batch

\* Two open transactions never insert the same record.
RecordsDistinct ==
  \A s, t \in Threads : (s # t /\ run[s].rec # NoRecord) => run[s].rec # run[t].rec

\* A claim is on a message that exists, by a record that exists and covers it.
ClaimsOK ==
  \A m \in Msgs : claim[m] # NoRecord =>
    /\ msg[m] = "live"
    /\ rec[claim[m]].state = "live"
    /\ m \in rec[claim[m]].batch

\* A committed record's transaction carries its batch, of one recipient, and is
\* mined with status 1 if the record is confirmed.
RecordsOK ==
  \A r \in Records :
    /\ rec[r].state # "free" =>
         /\ rec[r].tx \in Txs
         /\ tx[rec[r].tx].state # "unsent"
         /\ tx[rec[r].tx].root = rec[r].batch
         /\ \A m, n \in rec[r].batch : Recipient[m] = Recipient[n]
    /\ rec[r].confirmed => rec[r].state = "live" /\ tx[rec[r].tx].state = "ok"

\* A polled row names the transaction of its record, even if that is gone.
PollOK ==
  \A p \in Procs : \A row \in poll[p] :
    rec[row.rec].state # "free" /\ rec[row.rec].tx = row.tx

\* The inductive invariant.
IInv ==
  /\ TypeOK
  /\ RunOK
  /\ RecordsDistinct
  /\ ReservationsDisjoint
  /\ ClaimsOK
  /\ RecordsOK
  /\ PollOK

USE DEF Records, NoRecord, Txs, NoTx

-----------------------------------------------------------------------------
(* Type correctness                                                        *)

\* Between two groups a thread's state is well typed.
LEMMA ContinueType ==
  ASSUME TypeOK, NEW t \in Threads, NEW batch \in SUBSET Msgs, NEW n \in Nat
  PROVE  Continue(t, batch, n) \in AnchorRun
  BY DEF Continue, IdleRun, AnchorRun, TypeOK

\* So is that of an idle one.
LEMMA IdleType == IdleRun \in AnchorRun
  BY DEF IdleRun, AnchorRun

\* A fresh transaction keeps the chain well typed.
LEMMA WithTxType ==
  ASSUME TypeOK, NEW i \in Txs, NEW n \in Nat, NEW root \in SUBSET Msgs
  PROVE  WithTx(i, n, root) \in [Txs -> ChainTx]
  BY DEF WithTx, ChainTx, TypeOK, PendingWith

\* Every step keeps the state well typed.
LEMMA TypeStep == TypeOK /\ [Next]_vars => TypeOK'
<1> USE ThreadsAssumption, MessagesAssumption, BoundsAssumption
<1> SUFFICES ASSUME TypeOK, [Next]_vars PROVE TypeOK'
  OBVIOUS
<1>1. ASSUME NEW m \in Msgs, SendMessage(m) \/ DeleteMessage(m) PROVE TypeOK'
  BY <1>1 DEF SendMessage, DeleteMessage, TypeOK
<1>2. ASSUME NEW t \in Threads, NEW scope, StartRun(t, scope) PROVE TypeOK'
  <2>1. [IdleRun EXCEPT !.pc = "selected", !.picked = Pending(scope)] \in AnchorRun
    BY DEF IdleRun, AnchorRun, Pending, Live
  <2>2. QED
    BY <1>2, <2>1 DEF StartRun, TypeOK
<1>3. ASSUME NEW t \in Threads, AnchorStep(t) PROVE TypeOK'
  <2>0. run[t] \in AnchorRun
    BY DEF TypeOK
  <2>1. CASE ReadNonce(t)
    <3>1. [run[t] EXCEPT !.pc = "grouping", !.nonce = mined] \in AnchorRun
      BY <2>0 DEF AnchorRun, TypeOK
    <3>2. QED
      BY <2>1, <3>1 DEF ReadNonce, TypeOK
  <2>2. ASSUME NEW u \in Users, NEW r \in Records, Reserve(t, u, r) PROVE TypeOK'
    <3>1. [run[t] EXCEPT !.pc = "reserved", !.batch = Group(t, u),
                         !.held = Group(t, u) \cap Live, !.rec = r] \in AnchorRun
      BY <2>0 DEF AnchorRun, Group
    <3>2. QED
      BY <2>2, <3>1 DEF Reserve, TypeOK
  <2>3. ASSUME NEW i \in Txs, SendTx(t, i) PROVE TypeOK'
    <3>1. tx' \in [Txs -> ChainTx]
      BY <2>3, WithTxType DEF SendTx, TypeOK, AnchorRun
    <3>2. [run[t] EXCEPT !.pc = "sent", !.tx = i, !.nonce = run[t].nonce + 1] \in AnchorRun
      <4>1. run[t].nonce + 1 \in Nat
        BY <2>0 DEF AnchorRun
      <4>2. QED
        BY <2>0, <4>1 DEF AnchorRun
    <3>3. QED
      BY <2>3, <3>1, <3>2 DEF SendTx, TypeOK
  <2>4. CASE SendRefused(t)
    <3>1. Continue(t, run[t].batch, run[t].nonce) \in AnchorRun
      BY ContinueType DEF TypeOK, AnchorRun
    <3>2. QED
      BY <2>4, <3>1 DEF SendRefused, Rollback, TypeOK
  <2>5. CASE CommitRecord(t)
    <3>1. Continue(t, run[t].batch, run[t].nonce) \in AnchorRun
      BY ContinueType DEF TypeOK, AnchorRun
    <3>2. NewRow(t) \in RecordRow
      <4>1. run[t].tx \in Txs \cup {NoTx} /\ run[t].batch \in SUBSET Msgs
        BY <2>0 DEF AnchorRun
      <4>2. QED
        BY <4>1 DEF NewRow, RecordRow
    <3>3. QED
      <4>1. run[t].rec \in Records \cup {NoRecord} /\ CommitRows(t) \subseteq Msgs
        BY <2>0 DEF AnchorRun, CommitRows
      <4>2. claim' \in [Msgs -> Records \cup {NoRecord}]
        BY <2>5, <4>1 DEF CommitRecord, TypeOK
      <4>3. QED
        BY <2>5, <3>1, <3>2, <4>2 DEF CommitRecord, TypeOK
  <2>6. CASE FinishRun(t)
    BY <2>6, IdleType DEF FinishRun, ReleaseLock, TypeOK
  <2>7. QED
    BY <1>3, <2>1, <2>2, <2>3, <2>4, <2>5, <2>6 DEF AnchorStep
<1>4. ASSUME NEW t \in Threads, AnchorFault(t) PROVE TypeOK'
  <2>1. CASE AbortRun(t)
    BY <2>1, IdleType DEF AbortRun, Fault, ReleaseLock, TypeOK
  <2>2. ASSUME NEW u \in Users, ReserveFails(t, u) PROVE TypeOK'
    <3>1. Continue(t, Group(t, u), run[t].nonce) \in AnchorRun
      BY ContinueType DEF TypeOK, AnchorRun, Group
    <3>2. QED
      BY <2>2, <3>1 DEF ReserveFails, Fault, TypeOK
  <2>3. Continue(t, run[t].batch, run[t].nonce) \in AnchorRun
    BY ContinueType DEF TypeOK, AnchorRun
  <2>4. CASE SendFails(t) \/ CommitFails(t)
    <3>1. faults' \in Nat
      BY <2>4 DEF SendFails, CommitFails, Fault, TypeOK
    <3>2. QED
      BY <2>3, <2>4, <3>1 DEF SendFails, CommitFails, Rollback, TypeOK
  <2>5. ASSUME NEW i \in Txs, SendLost(t, i) PROVE TypeOK'
    <3>1. tx' \in [Txs -> ChainTx]
      BY <2>5, WithTxType DEF SendLost, TypeOK, AnchorRun
    <3>2. QED
      BY <2>3, <2>5, <3>1 DEF SendLost, Rollback, Fault, TypeOK
  <2>6. QED
    BY <1>4, <2>1, <2>2, <2>4, <2>5 DEF AnchorFault
<1>5. ASSUME NEW p \in Procs, ConfirmStep(p) PROVE TypeOK'
  <2>1. CASE StartPoll(p)
    <3>1. Unconfirmed \subseteq PollRow
      BY DEF Unconfirmed, PollRow, TypeOK, RecordRow
    <3>2. QED
      BY <2>1, <3>1 DEF StartPoll, TypeOK
  <2>0. \A row \in poll[p] : row.rec \in Records /\ rec[row.rec] \in RecordRow
    BY DEF TypeOK, PollRow
  <2>2. CASE \E row \in poll[p] : NoReceipt(p, row)
    BY <2>2 DEF NoReceipt, RowDone, TypeOK
  <2>3. ASSUME NEW row \in poll[p], CountRevert(p, row) PROVE TypeOK'
    <3>1. NewCount(row) \in 0..RevertLimit
      BY <2>3 DEF CountRevert, Tolerated, NewCount, TypeOK, PollRow
    <3>2. [rec[row.rec] EXCEPT !.reverts = NewCount(row)] \in RecordRow
      BY <2>0, <3>1 DEF RecordRow
    <3>3. QED
      BY <2>3, <2>0, <3>2 DEF CountRevert, RowDone, TypeOK
  <2>4. ASSUME NEW row \in poll[p], ReleaseReverted(p, row) PROVE TypeOK'
    <3>1. [rec[row.rec] EXCEPT !.state = "released"] \in RecordRow
      BY <2>0 DEF RecordRow
    <3>2. QED
      BY <2>4, <2>0, <3>1 DEF ReleaseReverted, RowDone, TypeOK
  <2>5. ASSUME NEW row \in poll[p], Confirm(p, row) PROVE TypeOK'
    <3>1. [rec[row.rec] EXCEPT !.confirmed = TRUE] \in RecordRow
      BY <2>0 DEF RecordRow
    <3>2. QED
      BY <2>5, <2>0, <3>1 DEF Confirm, RowDone, TypeOK
  <2>6. QED
    BY <1>5, <2>1, <2>2, <2>3, <2>4, <2>5 DEF ConfirmStep
<1>6. ASSUME NEW p \in Procs, NEW row \in poll[p], PollFails(p, row) PROVE TypeOK'
  BY <1>6 DEF PollFails, RowDone, Fault, TypeOK
<1>7. ASSUME NEW i \in Txs, Mine(i) \/ MineReverted(i) PROVE TypeOK'
  <2>1. /\ [tx[i] EXCEPT !.state = "ok"] \in ChainTx
        /\ [tx[i] EXCEPT !.state = "reverted"] \in ChainTx
    <3>1. tx[i] \in ChainTx
      BY DEF TypeOK
    <3>2. QED
      BY <3>1 DEF ChainTx
  <2>2. CASE Mine(i)
    BY <2>1, <2>2 DEF Mine, TypeOK
  <2>3. CASE MineReverted(i)
    BY <2>1, <2>3 DEF MineReverted, Fault, TypeOK
  <2>4. QED
    BY <1>7, <2>2, <2>3
<1>8. ASSUME NEW p \in Procs, Crash(p) PROVE TypeOK'
  <2>1. run' \in [Threads -> AnchorRun]
    BY <1>8, IdleType DEF Crash, TypeOK
  <2>2. QED
    BY <1>8, <2>1 DEF Crash, Fault, TypeOK
<1>9. CASE UNCHANGED vars
  BY <1>9 DEF vars, TypeOK
<1>10. QED
  BY <1>1, <1>2, <1>3, <1>4, <1>5, <1>6, <1>7, <1>8, <1>9 DEF Next

\* Every state of every execution is well typed.
THEOREM TypeCorrect == Spec => []TypeOK
<1>1. Init => TypeOK
  BY BoundsAssumption
  DEF Init, TypeOK, FreeRow, RecordRow, UnsentTx, ChainTx, IdleRun, AnchorRun
<1>2. QED
  BY <1>1, TypeStep, PTL DEF Spec

-----------------------------------------------------------------------------
(* The inductive invariant                                                 *)

\* The chain forgets no transaction, changes no root and undoes no success.
ChainKept ==
  \A i \in Txs :
    /\ tx[i].state # "unsent" => tx'[i].state # "unsent" /\ tx'[i].root = tx[i].root
    /\ tx[i].state = "ok" => tx'[i].state = "ok"

\* An anchoring thread that holds nothing.
HoldsNothing(a) ==
  a.pc \in {"idle", "selected", "grouping"} /\ a.held = {} /\ a.rec = NoRecord

\* Steps that touch no table, that only end reservations and only drop polled
\* rows keep the invariant.
LEMMA QuietStep ==
  ASSUME IInv, TypeOK', ChainKept, UNCHANGED <<msg, claim, rec>>,
         \A t \in Threads : run'[t] = run[t] \/ HoldsNothing(run'[t]),
         \A p \in Procs : poll'[p] \subseteq poll[p]
  PROVE  IInv'
<1>1. RunOK'
  BY DEF IInv, RunOK, HoldsNothing, ChainKept, Live
<1>2. RecordsDistinct'
  BY DEF IInv, RecordsDistinct, HoldsNothing
<1>3. ReservationsDisjoint'
  BY DEF IInv, ReservationsDisjoint, HoldsNothing
<1>4. ClaimsOK'
  BY DEF IInv, ClaimsOK
<1>5. RecordsOK'
  BY DEF IInv, RecordsOK, ChainKept
<1>6. PollOK'
  BY DEF IInv, PollOK
<1>7. QED
  BY <1>1, <1>2, <1>3, <1>4, <1>5, <1>6 DEF IInv

\* A submission adds its transaction and loses none.
LEMMA SendKeepsChain ==
  ASSUME TypeOK, NEW i \in Txs, NEW n \in Nat, NEW root \in SUBSET Msgs,
         tx[i].state = "unsent", tx' = WithTx(i, n, root)
  PROVE  ChainKept /\ tx'[i].state = "pending" /\ tx'[i].root = root
<1>1. tx'[i] = [state |-> "pending", nonce |-> n, root |-> root]
  BY DEF WithTx
<1>2. ASSUME NEW j \in Txs, j # i
      PROVE  tx'[j] = tx[j] \/ (tx[j].state = "pending" /\ tx'[j] = [tx[j] EXCEPT !.state = "replaced"])
  BY <1>2 DEF WithTx, PendingWith
<1>3. ASSUME NEW j \in Txs, tx[j].state # "unsent"
      PROVE  tx'[j].state # "unsent" /\ tx'[j].root = tx[j].root /\ (tx[j].state = "ok" => tx'[j].state = "ok")
  <2>1. tx[j] \in ChainTx
    BY DEF TypeOK
  <2>2. QED
    BY <1>2, <1>3, <2>1 DEF ChainTx
<1>4. QED
  BY <1>1, <1>3 DEF ChainKept

\* So does mining, with either status.
LEMMA MineKeepsChain ==
  ASSUME TypeOK, NEW i \in Txs, Mine(i) \/ MineReverted(i)
  PROVE  ChainKept
<1>1. PICK s \in {"ok", "reverted"} : tx' = [tx EXCEPT ![i] = [@ EXCEPT !.state = s]]
  BY DEF Mine, MineReverted
<1>2. tx[i].state = "pending"
  BY DEF Mine, MineReverted
<1>3. \A j \in Txs : tx[j] \in ChainTx
  BY DEF TypeOK
<1>4. tx'[i].state = s /\ tx'[i].root = tx[i].root /\ \A j \in Txs : j # i => tx'[j] = tx[j]
  BY <1>1, <1>3 DEF TypeOK, ChainTx
<1>5. QED
  BY <1>2, <1>4 DEF ChainKept

-----------------------------------------------------------------------------
(* One lemma per operation that touches a table or opens a reservation     *)

\* Posting and deleting messages: a row that an open reservation has locked
\* cannot be deleted under it.
LEMMA MessageStep ==
  ASSUME IInv, TypeOK', NEW m \in Msgs, SendMessage(m) \/ DeleteMessage(m)
  PROVE  IInv'
<1>1. UNCHANGED <<rec, tx, run, poll>>
  BY DEF SendMessage, DeleteMessage
<1>2. \A t \in Threads : run[t].held \subseteq Live => run[t].held \subseteq Live'
  <2>1. CASE SendMessage(m)
    BY <2>1 DEF SendMessage, Live, IInv, TypeOK
  <2>2. CASE DeleteMessage(m)
    BY <2>2 DEF DeleteMessage, Live, Locked, IInv, TypeOK
  <2>3. QED
    BY <2>1, <2>2
<1>3. RunOK'
  BY <1>1, <1>2 DEF IInv, RunOK
<1>4. ClaimsOK'
  BY <1>1 DEF IInv, TypeOK, ClaimsOK, SendMessage, DeleteMessage
<1>5. RecordsDistinct' /\ ReservationsDisjoint' /\ RecordsOK' /\ PollOK'
  BY <1>1 DEF IInv, RecordsDistinct, ReservationsDisjoint, RecordsOK, PollOK
<1>6. QED
  BY <1>3, <1>4, <1>5 DEF IInv

\* Opening a reservation: a new record, and rows nobody else holds.
LEMMA ReserveStep ==
  ASSUME IInv, TypeOK', NEW t \in Threads, NEW u \in Users, NEW r \in Records,
         Reserve(t, u, r)
  PROVE  IInv'
<1>1. UNCHANGED <<msg, claim, rec, tx, poll>>
  BY DEF Reserve
<1>2. run[t] \in AnchorRun
  BY DEF IInv, TypeOK
<1>3. /\ run'[t].pc = "reserved"
      /\ run'[t].batch = Group(t, u)
      /\ run'[t].held = Group(t, u) \cap Live
      /\ run'[t].rec = r
  BY <1>2 DEF Reserve, AnchorRun, IInv, TypeOK
<1>4. \A s \in Threads \ {t} : run'[s] = run[s]
  BY DEF Reserve, IInv, TypeOK
<1>5. rec[r].state = "free" /\ \A s \in Threads : run[s].rec # r
  BY DEF Reserve, FreshRecord, Unused
<1>6. \A s \in Threads \ {t} : Group(t, u) \cap run[s].held = {}
  BY DEF Reserve, RowsFree, LockedByOthers
<1>7. RunOK'
  BY <1>1, <1>3, <1>4, <1>5 DEF IInv, RunOK, Group, Live
<1>8. RecordsDistinct'
  BY <1>3, <1>4, <1>5 DEF IInv, RecordsDistinct
<1>9. ReservationsDisjoint'
  BY <1>3, <1>4, <1>6 DEF IInv, ReservationsDisjoint
<1>10. ClaimsOK' /\ RecordsOK' /\ PollOK'
  BY <1>1 DEF IInv, ClaimsOK, RecordsOK, PollOK
<1>11. QED
  BY <1>7, <1>8, <1>9, <1>10 DEF IInv

\* Sending the group's transaction.
LEMMA SendStep ==
  ASSUME IInv, TypeOK', NEW t \in Threads, NEW i \in Txs, SendTx(t, i)
  PROVE  IInv'
<1>1. UNCHANGED <<msg, claim, rec, poll>>
  BY DEF SendTx
<1>2. run[t] \in AnchorRun
  BY DEF IInv, TypeOK
<1>3. run[t].pc = "reserved"
  BY DEF SendTx
<1>4. /\ run'[t].pc = "sent"
      /\ run'[t].tx = i
      /\ run'[t].batch = run[t].batch
      /\ run'[t].held = run[t].held
      /\ run'[t].rec = run[t].rec
  BY <1>2 DEF SendTx, AnchorRun, IInv, TypeOK
<1>5. \A s \in Threads \ {t} : run'[s] = run[s]
  BY DEF SendTx, IInv, TypeOK
<1>6. ChainKept /\ tx'[i].state = "pending" /\ tx'[i].root = run[t].batch
  <2>1. run[t].nonce \in Nat /\ run[t].batch \in SUBSET Msgs
    BY <1>2 DEF AnchorRun
  <2>2. tx[i].state = "unsent" /\ tx' = WithTx(i, run[t].nonce, run[t].batch)
    BY DEF SendTx, FreshTx
  <2>3. QED
    BY <2>1, <2>2, SendKeepsChain DEF IInv
<1>7. RunOK'
  BY <1>1, <1>3, <1>4, <1>5, <1>6 DEF IInv, RunOK, Live, ChainKept
<1>8. RecordsDistinct' /\ ReservationsDisjoint'
  BY <1>4, <1>5 DEF IInv, RecordsDistinct, ReservationsDisjoint
<1>9. ClaimsOK' /\ PollOK'
  BY <1>1 DEF IInv, ClaimsOK, PollOK
<1>10. RecordsOK'
  BY <1>1, <1>6 DEF IInv, RecordsOK, ChainKept
<1>11. QED
  BY <1>7, <1>8, <1>9, <1>10 DEF IInv

\* The commit: the record appears with its claims.  Claims of other records on
\* the same rows are overwritten, which leaves no claim without its record.
LEMMA CommitStep ==
  ASSUME IInv, TypeOK', NEW t \in Threads, CommitRecord(t)
  PROVE  IInv'
<1>1. UNCHANGED <<msg, tx, poll>>
  BY DEF CommitRecord
<1>2. run[t].pc = "sent" /\ run[t].rec \in Records /\ rec[run[t].rec].state = "free"
  BY DEF CommitRecord, IInv, RunOK
<1>3. HoldsNothing(run'[t])
  BY DEF CommitRecord, Continue, IdleRun, HoldsNothing, IInv, TypeOK
<1>4. \A s \in Threads \ {t} : run'[s] = run[s]
  BY DEF CommitRecord, IInv, TypeOK
<1>5. rec'[run[t].rec] = NewRow(t) /\ \A r \in Records : r # run[t].rec => rec'[r] = rec[r]
  BY <1>2 DEF CommitRecord, IInv, TypeOK
<1>6. RunOK'
  BY <1>1, <1>2, <1>3, <1>4, <1>5 DEF IInv, RunOK, RecordsDistinct, HoldsNothing, Live
<1>7. RecordsDistinct' /\ ReservationsDisjoint'
  BY <1>3, <1>4 DEF IInv, RecordsDistinct, ReservationsDisjoint, HoldsNothing
<1>8. ClaimsOK'
  BY <1>1, <1>2, <1>5 DEF CommitRecord, CommitRows, NewRow, IInv, TypeOK, RunOK, ClaimsOK, Live
<1>9. RecordsOK'
  BY <1>1, <1>2, <1>5 DEF NewRow, IInv, RunOK, RecordsOK
<1>10. PollOK'
  BY <1>1, <1>2, <1>5 DEF IInv, TypeOK, PollRow, PollOK
<1>11. QED
  BY <1>6, <1>7, <1>8, <1>9, <1>10 DEF IInv

\* The confirmation job's SELECT, and its updates of one record.
LEMMA PollStep ==
  ASSUME IInv, TypeOK', NEW p \in Procs, ConfirmStep(p)
  PROVE  IInv'
<1>1. CASE StartPoll(p)
  <2>1. UNCHANGED <<msg, claim, rec, tx, run>>
    BY <1>1 DEF StartPoll
  <2>2. PollOK'
    BY <1>1 DEF StartPoll, Unconfirmed, PollOK, IInv, TypeOK
  <2>3. RunOK' /\ RecordsDistinct' /\ ReservationsDisjoint' /\ ClaimsOK' /\ RecordsOK'
    BY <2>1 DEF IInv, RunOK, RecordsDistinct, ReservationsDisjoint, ClaimsOK, RecordsOK, Live
  <2>4. QED
    BY <2>2, <2>3 DEF IInv
<1>2. ASSUME NEW row \in poll[p], NoReceipt(p, row) PROVE IInv'
  <2>1. ChainKept
    BY <1>2 DEF NoReceipt, ChainKept
  <2>2. \A q \in Procs : poll'[q] \subseteq poll[q]
    BY <1>2 DEF NoReceipt, RowDone, IInv, TypeOK
  <2>3. UNCHANGED <<msg, claim, rec, run>>
    BY <1>2 DEF NoReceipt
  <2>4. QED
    BY <2>1, <2>2, <2>3, QuietStep
<1>3. ASSUME NEW row \in poll[p],
             CountRevert(p, row) \/ ReleaseReverted(p, row) \/ Confirm(p, row)
      PROVE  IInv'
  <2>1. UNCHANGED <<msg, tx, run>>
    BY <1>3 DEF CountRevert, ReleaseReverted, Confirm
  <2>2. \A q \in Procs : poll'[q] \subseteq poll[q]
    BY <1>3 DEF CountRevert, ReleaseReverted, Confirm, RowDone, IInv, TypeOK
  <2>3. /\ row.rec \in Records
        /\ rec[row.rec] \in RecordRow
        /\ rec[row.rec].state # "free"
        /\ rec[row.rec].tx = row.tx
    BY DEF IInv, TypeOK, PollRow, PollOK
  <2>4. \A r \in Records : r # row.rec => rec'[r] = rec[r]
    BY <1>3, <2>3 DEF CountRevert, ReleaseReverted, Confirm, IInv, TypeOK
  <2>5. /\ rec'[row.rec].batch = rec[row.rec].batch
        /\ rec'[row.rec].tx = rec[row.rec].tx
        /\ rec'[row.rec].state \in {rec[row.rec].state, "released"}
    BY <1>3, <2>3 DEF CountRevert, ReleaseReverted, Confirm, RecordRow, IInv, TypeOK
  <2>6. rec'[row.rec].confirmed = rec[row.rec].confirmed \/ Confirm(p, row)
    BY <1>3, <2>3 DEF CountRevert, ReleaseReverted, RecordRow, IInv, TypeOK
  <2>7. rec'[row.rec].state = rec[row.rec].state \/ ReleaseReverted(p, row)
    <3>1. CASE CountRevert(p, row)
      BY <2>3, <3>1 DEF CountRevert, RecordRow, IInv, TypeOK
    <3>2. CASE Confirm(p, row)
      BY <2>3, <3>2 DEF Confirm, RecordRow, IInv, TypeOK
    <3>3. QED
      BY <1>3, <3>1, <3>2
  <2>8. RunOK'
    BY <2>1, <2>3, <2>4 DEF IInv, RunOK, Live
  <2>9. ClaimsOK'
    <3>1. CASE ReleaseReverted(p, row)
      BY <2>1, <2>3, <2>4, <3>1 DEF ReleaseReverted, Released, ClaimedBy, IInv, TypeOK, ClaimsOK
    <3>2. CASE ~ReleaseReverted(p, row)
      <4>1. UNCHANGED claim
        BY <1>3, <3>2 DEF CountRevert, Confirm
      <4>2. QED
        BY <2>1, <2>4, <2>5, <2>7, <3>2, <4>1 DEF IInv, TypeOK, ClaimsOK
    <3>3. QED
      BY <3>1, <3>2
  <2>10. RecordsOK'
    <3>1. Confirm(p, row) /\ rec'[row.rec].confirmed =>
             rec'[row.rec].state = "live" /\ tx[row.tx].state = "ok"
      BY <2>3 DEF Confirm, Succeeded, RecordRow, IInv, TypeOK, RecordsOK
    <3>2. ReleaseReverted(p, row) => ~rec[row.rec].confirmed
      BY <2>3 DEF ReleaseReverted, IInv, RecordsOK
    <3>3. /\ rec'[row.rec].tx \in Txs
          /\ tx[rec'[row.rec].tx].state # "unsent"
          /\ tx[rec'[row.rec].tx].root = rec'[row.rec].batch
          /\ \A m, n \in rec'[row.rec].batch : Recipient[m] = Recipient[n]
      BY <2>3, <2>5 DEF IInv, RecordsOK
    <3>4. rec'[row.rec].confirmed =>
            rec'[row.rec].state = "live" /\ tx[rec'[row.rec].tx].state = "ok"
      <4>1. CASE Confirm(p, row)
        BY <2>3, <2>5, <3>1, <4>1
      <4>2. CASE ~Confirm(p, row)
        <5>1. rec[row.rec].confirmed =>
                rec[row.rec].state = "live" /\ tx[rec[row.rec].tx].state = "ok"
          BY <2>3 DEF IInv, RecordsOK
        <5>2. QED
          BY <2>5, <2>6, <2>7, <3>2, <4>2, <5>1
      <4>3. QED
        BY <4>1, <4>2
    <3>5. QED
      <4>1. SUFFICES ASSUME NEW r \in Records, r # row.rec
                     PROVE  /\ rec'[r].state # "free" =>
                                 /\ rec'[r].tx \in Txs
                                 /\ tx[rec'[r].tx].state # "unsent"
                                 /\ tx[rec'[r].tx].root = rec'[r].batch
                                 /\ \A m, n \in rec'[r].batch : Recipient[m] = Recipient[n]
                            /\ rec'[r].confirmed =>
                                 rec'[r].state = "live" /\ tx[rec'[r].tx].state = "ok"
        BY <2>1, <3>3, <3>4 DEF RecordsOK
      <4>2. QED
        BY <2>4, <4>1 DEF IInv, RecordsOK
  <2>11. PollOK'
    <3>1. ASSUME NEW q \in Procs, NEW other \in poll[q]
          PROVE  rec'[other.rec].state # "free" /\ rec'[other.rec].tx = other.tx
      <4>1. /\ other.rec \in Records
            /\ rec[other.rec].state # "free"
            /\ rec[other.rec].tx = other.tx
        BY DEF IInv, TypeOK, PollRow, PollOK
      <4>2. QED
        BY <2>3, <2>4, <2>5, <4>1
    <3>2. QED
      BY <2>2, <3>1 DEF PollOK
  <2>12. RecordsDistinct' /\ ReservationsDisjoint'
    BY <2>1 DEF IInv, RecordsDistinct, ReservationsDisjoint
  <2>13. QED
    BY <2>8, <2>9, <2>10, <2>11, <2>12 DEF IInv
<1>4. QED
  BY <1>1, <1>2, <1>3 DEF ConfirmStep

\* The invariant is inductive.
LEMMA IInvStep == IInv /\ [Next]_vars => IInv'
<1> SUFFICES ASSUME IInv, [Next]_vars PROVE IInv'
  OBVIOUS
<1>1. TypeOK'
  BY TypeStep DEF IInv
<1>2. ASSUME NEW t \in Threads, NEW scope, StartRun(t, scope) PROVE IInv'
  <2>1. \A s \in Threads : run'[s] = run[s] \/ HoldsNothing(run'[s])
    BY <1>2 DEF StartRun, IdleRun, HoldsNothing, IInv, TypeOK
  <2>2. UNCHANGED <<msg, claim, rec, tx, poll>>
    BY <1>2 DEF StartRun
  <2>3. QED
    BY <1>1, <2>1, <2>2, QuietStep DEF ChainKept
<1>3. ASSUME NEW t \in Threads, AnchorStep(t) PROVE IInv'
  <2>1. CASE ReadNonce(t)
    <3>1. HoldsNothing(run'[t])
      <4>1. run[t] \in AnchorRun /\ run[t].held = {} /\ run[t].rec = NoRecord
        BY <2>1 DEF ReadNonce, IInv, TypeOK, RunOK
      <4>2. QED
        BY <2>1, <4>1 DEF ReadNonce, AnchorRun, HoldsNothing, IInv, TypeOK
    <3>2. \A s \in Threads : run'[s] = run[s] \/ HoldsNothing(run'[s])
      BY <2>1, <3>1 DEF ReadNonce, IInv, TypeOK
    <3>3. UNCHANGED <<msg, claim, rec, tx, poll>>
      BY <2>1 DEF ReadNonce
    <3>4. QED
      BY <1>1, <3>2, <3>3, QuietStep DEF ChainKept
  <2>2. CASE SendRefused(t)
    <3>1. \A s \in Threads : run'[s] = run[s] \/ HoldsNothing(run'[s])
      BY <2>2 DEF SendRefused, Rollback, Continue, IdleRun, HoldsNothing, IInv, TypeOK
    <3>2. UNCHANGED <<msg, claim, rec, tx, poll>>
      BY <2>2 DEF SendRefused
    <3>3. QED
      BY <1>1, <3>1, <3>2, QuietStep DEF ChainKept
  <2>3. CASE FinishRun(t)
    <3>1. \A s \in Threads : run'[s] = run[s] \/ HoldsNothing(run'[s])
      BY <2>3 DEF FinishRun, IdleRun, HoldsNothing, IInv, TypeOK
    <3>2. UNCHANGED <<msg, claim, rec, tx, poll>>
      BY <2>3 DEF FinishRun
    <3>3. QED
      BY <1>1, <3>1, <3>2, QuietStep DEF ChainKept
  <2>4. QED
    BY <1>1, <1>3, <2>1, <2>2, <2>3, ReserveStep, SendStep, CommitStep DEF AnchorStep
<1>4. ASSUME NEW t \in Threads, AnchorFault(t) PROVE IInv'
  <2>1. \A s \in Threads : run'[s] = run[s] \/ HoldsNothing(run'[s])
    <3>1. CASE AbortRun(t)
      BY <3>1 DEF AbortRun, IdleRun, HoldsNothing, IInv, TypeOK
    <3>2. CASE \E u \in Users : ReserveFails(t, u)
      BY <3>2 DEF ReserveFails, Continue, IdleRun, HoldsNothing, IInv, TypeOK
    <3>3. CASE Rollback(t)
      BY <3>3 DEF Rollback, Continue, IdleRun, HoldsNothing, IInv, TypeOK
    <3>4. QED
      BY <1>4, <3>1, <3>2, <3>3 DEF AnchorFault, SendFails, SendLost, CommitFails
  <2>2. UNCHANGED <<msg, claim, rec, poll>>
    BY <1>4 DEF AnchorFault, AbortRun, ReserveFails, SendFails, SendLost, CommitFails
  <2>3. ChainKept
    <3>1. CASE UNCHANGED tx
      BY <3>1 DEF ChainKept
    <3>2. ASSUME NEW i \in Txs, SendLost(t, i) PROVE ChainKept
      <4>1. run[t].nonce \in Nat /\ run[t].batch \in SUBSET Msgs
        BY DEF IInv, TypeOK, AnchorRun
      <4>2. QED
        BY <3>2, <4>1, SendKeepsChain DEF SendLost, FreshTx, IInv
    <3>3. QED
      BY <1>4, <3>1, <3>2 DEF AnchorFault, AbortRun, ReserveFails, SendFails, CommitFails
  <2>4. QED
    BY <1>1, <2>1, <2>2, <2>3, QuietStep
<1>5. ASSUME NEW p \in Procs, NEW row \in poll[p], PollFails(p, row) PROVE IInv'
  <2>1. \A q \in Procs : poll'[q] \subseteq poll[q]
    BY <1>5 DEF PollFails, RowDone, IInv, TypeOK
  <2>2. UNCHANGED <<msg, claim, rec, tx, run>>
    BY <1>5 DEF PollFails
  <2>3. QED
    BY <1>1, <2>1, <2>2, QuietStep DEF ChainKept
<1>6. ASSUME NEW i \in Txs, Mine(i) \/ MineReverted(i) PROVE IInv'
  <2>1. UNCHANGED <<msg, claim, rec, run, poll>>
    BY <1>6 DEF Mine, MineReverted
  <2>2. QED
    BY <1>1, <1>6, <2>1, MineKeepsChain, QuietStep DEF IInv
<1>7. ASSUME NEW p \in Procs, Crash(p) PROVE IInv'
  <2>1. \A s \in Threads : run'[s] = run[s] \/ HoldsNothing(run'[s])
    BY <1>7 DEF Crash, IdleRun, HoldsNothing
  <2>2. \A q \in Procs : poll'[q] \subseteq poll[q]
    BY <1>7 DEF Crash, IInv, TypeOK
  <2>3. UNCHANGED <<msg, claim, rec, tx>>
    BY <1>7 DEF Crash
  <2>4. QED
    BY <1>1, <2>1, <2>2, <2>3, QuietStep DEF ChainKept
<1>8. CASE UNCHANGED vars
  BY <1>1, <1>8, QuietStep DEF vars, ChainKept
<1>9. QED
  BY <1>1, <1>2, <1>3, <1>4, <1>5, <1>6, <1>7, <1>8, MessageStep, PollStep DEF Next

\* The invariant holds of every execution.
THEOREM Invariance == Spec => []IInv
<1>1. Init => TypeOK
  BY BoundsAssumption
  DEF Init, TypeOK, FreeRow, RecordRow, UnsentTx, ChainTx, IdleRun, AnchorRun
<1>2. Init => IInv
  BY <1>1 DEF Init, IInv, RunOK, RecordsDistinct, ReservationsDisjoint, ClaimsOK, RecordsOK,
              PollOK, IdleRun, FreeRow
<1>3. QED
  BY <1>2, IInvStep, PTL DEF Spec

-----------------------------------------------------------------------------
(* The properties                                                          *)

\* With any number of server processes, threads and faults, a claimed message
\* always has a record that exists, covers it and went to the chain.
THEOREM ClaimsAreCovered == Spec => []ClaimCovered
<1>1. IInv => ClaimCovered
  BY DEF IInv, TypeOK, ClaimsOK, RecordsOK, ClaimCovered, Live
<1>2. QED
  BY <1>1, Invariance, PTL

\* A message that is shown as confirmed is digested by a stored root.
THEOREM ConfirmationsAreStored == Spec => []ConfirmedIsStored
<1>1. IInv => ConfirmedIsStored
  BY DEF IInv, TypeOK, ClaimsOK, RecordsOK, ConfirmedIsStored, Live
<1>2. QED
  BY <1>1, Invariance, PTL

\* No step of any process takes a confirmation back.
THEOREM ConfirmationsStay == Spec => ConfirmedStays
<1>1. ASSUME IInv, [Next]_vars
      PROVE  [\A r \in Records : rec[r].confirmed =>
                rec'[r].confirmed /\ rec'[r].state = "live"]_vars
  <2> SUFFICES ASSUME NEW r \in Records, rec[r].confirmed
               PROVE  rec'[r].confirmed /\ rec'[r].state = "live"
    OBVIOUS
  <2>1. rec[r].state = "live" /\ tx[rec[r].tx].state = "ok"
    BY <1>1 DEF IInv, RecordsOK
  <2>2. CASE UNCHANGED rec
    BY <2>1, <2>2
  <2>3. ASSUME NEW t \in Threads, CommitRecord(t) PROVE rec'[r] = rec[r]
    <3>1. run[t].rec \in Records /\ rec[run[t].rec].state = "free"
      BY <1>1, <2>3 DEF CommitRecord, IInv, RunOK
    <3>2. QED
      BY <1>1, <2>1, <2>3, <3>1 DEF CommitRecord, IInv, TypeOK
  <2>4. ASSUME NEW p \in Procs, ConfirmStep(p)
        PROVE  rec'[r].confirmed /\ rec'[r].state = "live"
    <3>1. ASSUME NEW row \in poll[p], CountRevert(p, row) \/ ReleaseReverted(p, row)
          PROVE  rec'[r] = rec[r]
      <4>1. row.rec # r
        BY <1>1, <2>1, <3>1 DEF CountRevert, ReleaseReverted, IInv, PollOK
      <4>2. QED
        BY <1>1, <3>1, <4>1 DEF CountRevert, ReleaseReverted, IInv, TypeOK
    <3>2. ASSUME NEW row \in poll[p], Confirm(p, row)
          PROVE  rec'[r].confirmed /\ rec'[r].state = "live"
      <4>1. rec[r] \in RecordRow
        BY <1>1 DEF IInv, TypeOK
      <4>2. QED
        BY <1>1, <2>1, <3>2, <4>1 DEF Confirm, RecordRow, IInv, TypeOK
    <3>3. QED
      BY <2>1, <2>4, <3>1, <3>2 DEF ConfirmStep, StartPoll, NoReceipt
  <2>5. QED
    BY <1>1, <2>1, <2>2, <2>3, <2>4
    DEF Next, vars, SendMessage, DeleteMessage, StartRun, AnchorStep, AnchorFault, ReadNonce,
        Reserve, SendTx, SendRefused, FinishRun, AbortRun, ReserveFails, SendFails, SendLost,
        CommitFails, PollFails, Mine, MineReverted, Crash
<1>2. QED
  BY <1>1, Invariance, PTL DEF Spec, ConfirmedStays

-----------------------------------------------------------------------------
(* One server process                                                      *)

\* The deployment in which the lock of anchor.py covers every thread.
OneProcess == \A p, q \in Procs : p = q

\* A thread that is in a run holds its process's lock.
LockOK == \A t \in Threads : run[t] # IdleRun => lock[ProcOf[t]] = t

\* A fetched row not yet handled stays unclaimed; what a reservation does not
\* hold of its batch no longer exists.
PickedFree ==
  \A t \in Threads :
    /\ \A m \in run[t].picked : msg[m] # "unsent" /\ claim[m] = NoRecord
    /\ run[t].pc \in {"reserved", "sent"} =>
         run[t].batch \subseteq run[t].picked /\ run[t].batch \cap Live \subseteq run[t].held

\* A record that exists has the claim on every message of its batch that exists.
BatchesClaimed ==
  \A r \in Records : rec[r].state = "live" =>
    \A m \in rec[r].batch : msg[m] # "unsent" /\ (msg[m] = "live" => claim[m] = r)

\* The inductive invariant, on top of IInv.
OneInv == LockOK /\ PickedFree /\ BatchesClaimed

-----------------------------------------------------------------------------
(* The invariant                                                           *)

\* With one process at most one thread is in a run.
LEMMA Alone ==
  ASSUME OneProcess, LockOK, NEW s \in Threads, NEW t \in Threads, s # t, run[t] # IdleRun
  PROVE  run[s] = IdleRun
  BY ThreadsAssumption DEF OneProcess, LockOK

\* A thread's run goes on from a to b without fetching or reserving anything.
GoesOn(a, b) ==
  /\ b.picked \subseteq a.picked
  /\ b.pc \in {"reserved", "sent"} =>
       /\ a.pc \in {"reserved", "sent"}
       /\ b.picked = a.picked
       /\ b.batch = a.batch
       /\ b.held = a.held

\* Steps that touch no table and fetch or reserve nothing keep the invariant if
\* they keep the lock.
LEMMA QuietOne ==
  ASSUME OneInv, UNCHANGED <<msg, claim, rec>>, LockOK',
         \A t \in Threads : GoesOn(run[t], run'[t])
  PROVE  OneInv'
<1>1. PickedFree'
  BY DEF OneInv, PickedFree, GoesOn, Live
<1>2. BatchesClaimed'
  BY DEF OneInv, BatchesClaimed
<1>3. QED
  BY <1>1, <1>2 DEF OneInv

\* One thread's move under its lock, to a state that does not reserve.
LEMMA MoveOne ==
  ASSUME IInv, OneInv, UNCHANGED <<msg, claim, rec, lock>>, NEW t \in Threads,
         run[t].pc # "idle", NEW a, run' = [run EXCEPT ![t] = a], GoesOn(run[t], a)
  PROVE  OneInv'
<1>1. run[t] # IdleRun
  BY DEF IdleRun
<1>2. \A s \in Threads : run'[s] = IF s = t THEN a ELSE run[s]
  BY DEF IInv, TypeOK
<1>3. LockOK'
  BY <1>1, <1>2 DEF OneInv, LockOK
<1>4. \A s \in Threads : GoesOn(run[s], run'[s])
  BY <1>2 DEF GoesOn
<1>5. QED
  BY <1>3, <1>4, QuietOne

\* A thread leaves its run and releases the lock.
LEMMA LeaveOne ==
  ASSUME IInv, OneInv, UNCHANGED <<msg, claim, rec>>, NEW t \in Threads,
         run[t].pc # "idle", run' = [run EXCEPT ![t] = IdleRun], ReleaseLock(t)
  PROVE  OneInv'
<1>1. run[t] # IdleRun
  BY DEF IdleRun
<1>2. \A s \in Threads : run'[s] = IF s = t THEN IdleRun ELSE run[s]
  BY DEF IInv, TypeOK
<1>3. LockOK'
  <2>1. SUFFICES ASSUME NEW s \in Threads, run'[s] # IdleRun PROVE lock'[ProcOf[s]] = s
    BY DEF LockOK
  <2>2. s # t /\ run[s] # IdleRun
    BY <1>2, <2>1
  <2>3. lock[ProcOf[s]] = s /\ lock[ProcOf[t]] = t
    BY <1>1, <2>2 DEF OneInv, LockOK
  <2>4. QED
    BY <2>2, <2>3, ThreadsAssumption DEF ReleaseLock, IInv, TypeOK
<1>4. \A s \in Threads : GoesOn(run[s], run'[s])
  BY <1>2 DEF GoesOn, IdleRun
<1>5. QED
  BY <1>3, <1>4, QuietOne

\* The group is given up: what is left of the fetched rows is still free.
LEMMA GivenUp ==
  ASSUME NEW t \in Threads, NEW batch, NEW n
  PROVE  GoesOn(run[t], Continue(t, batch, n))
  BY DEF GoesOn, Continue, IdleRun

\* Posting and deleting: neither touches a fetched or anchored row's claim,
\* except by removing the row.
LEMMA MessageOne ==
  ASSUME IInv, OneInv, NEW m \in Msgs, SendMessage(m) \/ DeleteMessage(m)
  PROVE  OneInv'
<1>1. UNCHANGED <<rec, run, lock>>
  BY DEF SendMessage, DeleteMessage
<1>2. ASSUME NEW n \in Msgs, msg[n] # "unsent"
      PROVE  /\ msg'[n] # "unsent"
             /\ claim[n] = NoRecord => claim'[n] = NoRecord
             /\ msg'[n] = "live" => msg[n] = "live" /\ claim'[n] = claim[n]
  <2>1. CASE SendMessage(m)
    BY <1>2, <2>1 DEF SendMessage, IInv, TypeOK
  <2>2. CASE DeleteMessage(m)
    BY <1>2, <2>2 DEF DeleteMessage, IInv, TypeOK
  <2>3. QED
    BY <2>1, <2>2
<1>3. LockOK'
  BY <1>1 DEF OneInv, LockOK
<1>4. \A t \in Threads : run[t].picked \subseteq Msgs
  BY DEF IInv, TypeOK, AnchorRun
<1>5. PickedFree'
  BY <1>1, <1>2, <1>4 DEF OneInv, PickedFree, Live
<1>6. \A r \in Records : rec[r].batch \subseteq Msgs
  BY DEF IInv, TypeOK, RecordRow
<1>7. BatchesClaimed'
  BY <1>1, <1>2, <1>6 DEF OneInv, BatchesClaimed
<1>8. QED
  BY <1>3, <1>5, <1>7 DEF OneInv

\* Starting a run takes the lock, and fetches rows that are free.
LEMMA StartOne ==
  ASSUME IInv, OneInv, NEW t \in Threads, NEW scope, StartRun(t, scope)
  PROVE  OneInv'
<1> DEFINE a == [IdleRun EXCEPT !.pc = "selected", !.picked = Pending(scope)]
<1>1. UNCHANGED <<msg, claim, rec>>
  BY DEF StartRun
<1>2. \A s \in Threads : run'[s] = IF s = t THEN a ELSE run[s]
  BY DEF StartRun, IInv, TypeOK
<1>3. a.pc = "selected" /\ a.picked = Pending(scope)
  BY DEF IdleRun
<1>4. LockOK'
  <2>1. SUFFICES ASSUME NEW s \in Threads, run'[s] # IdleRun PROVE lock'[ProcOf[s]] = s
    BY DEF LockOK
  <2>2. lock' = [lock EXCEPT ![ProcOf[t]] = t] /\ lock[ProcOf[t]] = NoThread
    BY DEF StartRun, LockFree
  <2>3. CASE s = t
    BY <2>2, <2>3, ThreadsAssumption DEF IInv, TypeOK
  <2>4. CASE s # t
    <3>1. lock[ProcOf[s]] = s
      BY <1>2, <2>1, <2>4 DEF OneInv, LockOK
    <3>2. QED
      BY <2>2, <3>1, ThreadsAssumption DEF IInv, TypeOK
  <2>5. QED
    BY <2>3, <2>4
<1>5. \A m \in Pending(scope) : msg[m] # "unsent" /\ claim[m] = NoRecord
  BY DEF Pending, Live
<1>6. PickedFree'
  BY <1>1, <1>2, <1>3, <1>5 DEF OneInv, PickedFree, Live
<1>7. BatchesClaimed'
  BY <1>1 DEF OneInv, BatchesClaimed
<1>8. QED
  BY <1>4, <1>6, <1>7 DEF OneInv

\* A reservation holds every row of the group that still exists.
LEMMA ReserveOne ==
  ASSUME IInv, OneInv, NEW t \in Threads, NEW u \in Users, NEW r \in Records, Reserve(t, u, r)
  PROVE  OneInv'
<1>1. UNCHANGED <<msg, claim, rec, lock>> /\ run[t].pc = "grouping"
  BY DEF Reserve
<1>2. run[t] \in AnchorRun
  BY DEF IInv, TypeOK
<1>3. /\ run'[t].picked = run[t].picked
      /\ run'[t].batch = Group(t, u)
      /\ run'[t].held = Group(t, u) \cap Live
  BY <1>2 DEF Reserve, AnchorRun, IInv, TypeOK
<1>4. \A s \in Threads \ {t} : run'[s] = run[s]
  BY DEF Reserve, IInv, TypeOK
<1>5. Group(t, u) \subseteq run[t].picked
  BY DEF Group
<1>6. LockOK'
  BY <1>1, <1>4 DEF OneInv, LockOK, IdleRun
<1>7. PickedFree'
  BY <1>1, <1>3, <1>4, <1>5 DEF OneInv, PickedFree, Live
<1>8. BatchesClaimed'
  BY <1>1 DEF OneInv, BatchesClaimed
<1>9. QED
  BY <1>6, <1>7, <1>8 DEF OneInv

\* The commit claims free rows only: the lock kept every other run away from
\* them since they were fetched.
LEMMA CommitOne ==
  ASSUME OneProcess, IInv, OneInv, NEW t \in Threads, CommitRecord(t)
  PROVE  OneInv'
<1> DEFINE b == run[t].batch
           r == run[t].rec
<1>1. UNCHANGED <<msg, lock>> /\ run[t].pc = "sent"
  BY DEF CommitRecord
<1>2. /\ r \in Records
      /\ rec[r].state = "free"
      /\ run[t].held \subseteq b
      /\ b \subseteq run[t].picked
      /\ b \cap Live \subseteq run[t].held
  BY <1>1 DEF IInv, RunOK, OneInv, PickedFree
<1>3. run[t].picked \subseteq Msgs /\ \A m \in run[t].picked : msg[m] # "unsent" /\ claim[m] = NoRecord
  BY DEF IInv, TypeOK, AnchorRun, OneInv, PickedFree
<1>4. \A m \in Msgs : claim'[m] = IF m \in run[t].held THEN r ELSE claim[m]
  BY DEF CommitRecord, CommitRows
<1>5. /\ run'[t].picked = run[t].picked \ b
      /\ run'[t].pc = "grouping"
  BY DEF CommitRecord, Continue, IdleRun, IInv, TypeOK
<1>6. \A s \in Threads \ {t} : run'[s] = run[s] /\ run[s] = IdleRun
  <2>1. run[t] # IdleRun
    BY <1>1 DEF IdleRun
  <2>2. QED
    BY <2>1, Alone DEF CommitRecord, OneInv, IInv, TypeOK
<1>7. rec'[r] = NewRow(t) /\ \A q \in Records : q # r => rec'[q] = rec[q]
  BY <1>2 DEF CommitRecord, IInv, TypeOK
<1>8. LockOK'
  BY <1>1, <1>6 DEF OneInv, LockOK, IdleRun
<1>9. PickedFree'
  BY <1>1, <1>2, <1>3, <1>4, <1>5, <1>6 DEF PickedFree, IdleRun
<1>10. BatchesClaimed'
  <2>1. SUFFICES ASSUME NEW q \in Records, rec'[q].state = "live", NEW m \in rec'[q].batch
                 PROVE  msg[m] # "unsent" /\ (msg[m] = "live" => claim'[m] = q)
    BY <1>1 DEF BatchesClaimed
  <2>2. CASE q = r
    BY <1>2, <1>3, <1>4, <1>7, <2>1, <2>2 DEF NewRow, Live
  <2>3. CASE q # r
    <3>1. rec[q].state = "live" /\ m \in rec[q].batch /\ m \in Msgs
      BY <1>7, <2>1, <2>3 DEF IInv, TypeOK, RecordRow
    <3>2. msg[m] # "unsent" /\ (msg[m] = "live" => claim[m] = q)
      BY <3>1 DEF OneInv, BatchesClaimed
    <3>3. q # NoRecord
      BY BoundsAssumption DEF Records, NoRecord
    <3>4. QED
      BY <1>2, <1>3, <1>4, <3>1, <3>2, <3>3
  <2>4. QED
    BY <2>2, <2>3
<1>11. QED
  BY <1>8, <1>9, <1>10 DEF OneInv

\* The confirmation job changes no batch, and frees a claim only when it
\* deletes the record.
LEMMA PollOne ==
  ASSUME IInv, OneInv, NEW p \in Procs, NEW row \in poll[p],
         CountRevert(p, row) \/ ReleaseReverted(p, row) \/ Confirm(p, row)
  PROVE  OneInv'
<1>1. UNCHANGED <<msg, run, lock>>
  BY DEF CountRevert, ReleaseReverted, Confirm
<1>2. row.rec \in Records /\ rec[row.rec] \in RecordRow
  BY DEF IInv, TypeOK, PollRow
<1>3. \A q \in Records :
        /\ rec'[q].batch = rec[q].batch
        /\ rec'[q].state = "live" => rec[q].state = "live" /\ (ReleaseReverted(p, row) => q # row.rec)
  <2>1. CASE CountRevert(p, row)
    BY <1>2, <2>1 DEF CountRevert, ReleaseReverted, RecordRow, IInv, TypeOK
  <2>2. CASE ReleaseReverted(p, row)
    BY <1>2, <2>2 DEF ReleaseReverted, RecordRow, IInv, TypeOK
  <2>3. CASE Confirm(p, row)
    BY <1>2, <2>3 DEF Confirm, Succeeded, ReleaseReverted, RecordRow, IInv, TypeOK
  <2>4. QED
    BY <2>1, <2>2, <2>3
<1>4. \A m \in Msgs : claim'[m] = claim[m]
                      \/ (ReleaseReverted(p, row) /\ claim[m] = row.rec /\ claim'[m] = NoRecord)
  BY DEF CountRevert, ReleaseReverted, Confirm, Released, ClaimedBy
<1>5. LockOK'
  BY <1>1 DEF OneInv, LockOK
<1>6. PickedFree'
  <2>1. \A t \in Threads : run[t].picked \subseteq Msgs
    BY DEF IInv, TypeOK, AnchorRun
  <2>2. QED
    BY <1>1, <1>4, <2>1 DEF OneInv, PickedFree, Live
<1>7. BatchesClaimed'
  <2>1. \A r \in Records : rec[r].batch \subseteq Msgs
    BY DEF IInv, TypeOK, RecordRow
  <2>2. QED
    BY <1>1, <1>3, <1>4, <2>1 DEF OneInv, BatchesClaimed
<1>8. QED
  BY <1>5, <1>6, <1>7 DEF OneInv

\* The invariant is inductive with one process.
LEMMA OneInvStep == OneProcess /\ IInv /\ OneInv /\ [Next]_vars => OneInv'
<1> SUFFICES ASSUME OneProcess, IInv, OneInv, [Next]_vars PROVE OneInv'
  OBVIOUS
<1>1. ASSUME NEW t \in Threads, AnchorStep(t) PROVE OneInv'
  <2>1. CASE ReadNonce(t)
    <3>1. run[t] \in AnchorRun
      BY DEF IInv, TypeOK
    <3>2. GoesOn(run[t], [run[t] EXCEPT !.pc = "grouping", !.nonce = mined])
      BY <2>1, <3>1 DEF ReadNonce, GoesOn, AnchorRun
    <3>3. QED
      BY <2>1, <3>2, MoveOne DEF ReadNonce
  <2>2. ASSUME NEW i \in Txs, SendTx(t, i) PROVE OneInv'
    <3>1. run[t] \in AnchorRun
      BY DEF IInv, TypeOK
    <3>2. GoesOn(run[t], [run[t] EXCEPT !.pc = "sent", !.tx = i, !.nonce = run[t].nonce + 1])
      BY <2>2, <3>1 DEF SendTx, GoesOn, AnchorRun
    <3>3. QED
      BY <2>2, <3>2, MoveOne DEF SendTx
  <2>3. CASE SendRefused(t)
    BY <2>3, MoveOne, GivenUp DEF SendRefused, Rollback
  <2>4. CASE FinishRun(t)
    BY <2>4, LeaveOne DEF FinishRun
  <2>5. QED
    BY <1>1, <2>1, <2>2, <2>3, <2>4, ReserveOne, CommitOne DEF AnchorStep
<1>2. ASSUME NEW t \in Threads, AnchorFault(t) PROVE OneInv'
  <2>1. CASE AbortRun(t)
    BY <2>1, LeaveOne DEF AbortRun
  <2>2. ASSUME NEW u \in Users, ReserveFails(t, u) PROVE OneInv'
    BY <2>2, MoveOne, GivenUp DEF ReserveFails
  <2>3. CASE SendFails(t)
    BY <2>3, MoveOne, GivenUp DEF SendFails, Rollback
  <2>4. ASSUME NEW i \in Txs, SendLost(t, i) PROVE OneInv'
    BY <2>4, MoveOne, GivenUp DEF SendLost, Rollback
  <2>5. CASE CommitFails(t)
    BY <2>5, MoveOne, GivenUp DEF CommitFails, Rollback
  <2>6. QED
    BY <1>2, <2>1, <2>2, <2>3, <2>4, <2>5 DEF AnchorFault
<1>3. ASSUME UNCHANGED <<msg, claim, rec, lock, run>> PROVE OneInv'
  BY <1>3 DEF OneInv, LockOK, PickedFree, BatchesClaimed, Live
<1>4. ASSUME NEW p \in Procs, ConfirmStep(p) PROVE OneInv'
  <2>1. CASE StartPoll(p) \/ \E row \in poll[p] : NoReceipt(p, row)
    BY <1>3, <2>1 DEF StartPoll, NoReceipt
  <2>2. QED
    BY <1>4, <2>1, PollOne DEF ConfirmStep
<1>5. ASSUME NEW p \in Procs, Crash(p) PROVE OneInv'
  <2>1. UNCHANGED <<msg, claim, rec>>
    BY <1>5 DEF Crash
  <2>2. \A t \in Threads : run'[t] = IF ProcOf[t] = p THEN IdleRun ELSE run[t]
    BY <1>5 DEF Crash
  <2>3. LockOK'
    BY <1>5, <2>2, ThreadsAssumption DEF Crash, OneInv, LockOK, IInv, TypeOK
  <2>4. \A t \in Threads : GoesOn(run[t], run'[t])
    BY <2>2 DEF GoesOn, IdleRun
  <2>5. QED
    BY <2>1, <2>3, <2>4, QuietOne
<1>6. QED
  BY <1>1, <1>2, <1>3, <1>4, <1>5, MessageOne, StartOne
  DEF Next, vars, PollFails, Mine, MineReverted

\* Both invariants hold of every execution with one process.
LEMMA OneInvariance == OneProcess /\ Spec => [](IInv /\ OneInv)
<1>1. Init => OneInv
  BY DEF Init, OneInv, LockOK, PickedFree, BatchesClaimed, IdleRun, FreeRow
<1>2. Spec => []IInv
  BY Invariance
<1>3. OneProcess /\ IInv /\ OneInv /\ [Next]_vars => OneInv'
  BY OneInvStep
<1>4. QED
  <2>1. CASE OneProcess
    BY <1>1, <1>2, <1>3, <2>1, PTL DEF Spec
  <2>2. QED
    BY <2>1

\* With one server process no message that exists is in the batches of two
\* records, whatever the flushes, deletions, reverts and crashes.
THEOREM OneAnchorsOnce == OneProcess /\ Spec => []AnchoredOnce
<1>1. OneInv => AnchoredOnce
  BY DEF OneInv, BatchesClaimed, AnchoredOnce, Live
<1>2. QED
  BY <1>1, OneInvariance, PTL

-----------------------------------------------------------------------------
(* The refinement                                                          *)

\* The refinement mapping.
AbsStatus == [m \in Msgs |-> StatusOf(m)]

\* A step that keeps the tables and the stored roots is a stutter.
LEMMA SameTables ==
  ASSUME UNCHANGED <<msg, claim, rec>>
  PROVE  UNCHANGED AbsStatus
  BY DEF AbsStatus, StatusOf

\* Posting and deleting.
LEMMA MessageMaps ==
  ASSUME IInv, NEW m \in Msgs, SendMessage(m) \/ DeleteMessage(m)
  PROVE  Abstract!ANext
<1>1. UNCHANGED <<rec, tx>>
  BY DEF SendMessage, DeleteMessage
<1>2. UNCHANGED Digested
  BY <1>1 DEF Digested
<1>3. CASE SendMessage(m)
  <2>1. claim[m] = NoRecord
    BY <1>3 DEF SendMessage, IInv, ClaimsOK
  <2>2. Abstract!Post(m)
    BY <1>1, <1>2, <1>3, <2>1
    DEF SendMessage, Abstract!Post, Abstract!Move, StatusOf, IInv, TypeOK
  <2>3. QED
    BY <2>2 DEF Abstract!ANext
<1>4. CASE DeleteMessage(m)
  <2>1. Abstract!Delete(m)
    BY <1>1, <1>2, <1>4 DEF DeleteMessage, Abstract!Delete, StatusOf, IInv, TypeOK
  <2>2. QED
    BY <2>1 DEF Abstract!ANext
<1>5. QED
  BY <1>3, <1>4

\* The commit claims what the reservation holds, and takes no claim over.
LEMMA CommitMaps ==
  ASSUME IInv, OneInv, NEW t \in Threads, CommitRecord(t)
  PROVE  Abstract!ANext
<1> DEFINE S == run[t].held
           r == run[t].rec
<1>1. UNCHANGED <<msg, tx>> /\ run[t].pc = "sent"
  BY DEF CommitRecord
<1>2. r \in Records /\ rec[r].state = "free" /\ S \subseteq Live /\ S \subseteq run[t].picked
  BY <1>1 DEF IInv, RunOK, OneInv, PickedFree
<1>3. \A m \in S : m \in Msgs /\ msg[m] = "live" /\ claim[m] = NoRecord
  BY <1>2 DEF Live, OneInv, PickedFree
<1>4. r # NoRecord
  BY <1>2, BoundsAssumption DEF Records, NoRecord
<1>5. \A m \in Msgs : claim'[m] = IF m \in S THEN r ELSE claim[m]
  BY DEF CommitRecord, CommitRows
<1>6. rec'[r] = NewRow(t) /\ \A q \in Records : q # r => rec'[q] = rec[q]
  BY <1>2 DEF CommitRecord, IInv, TypeOK
<1>7. ~rec'[r].confirmed
  BY <1>6 DEF NewRow
<1>8. \A m \in S : StatusOf(m) = "waiting" /\ StatusOf(m)' = "claimed"
  BY <1>1, <1>3, <1>4, <1>5, <1>7 DEF StatusOf
<1>9. ASSUME NEW m \in Msgs \ S PROVE StatusOf(m)' = StatusOf(m)
  <2>1. claim'[m] = claim[m] /\ (claim[m] # NoRecord => rec'[claim[m]] = rec[claim[m]])
    <3>1. claim[m] # NoRecord => claim[m] \in Records /\ rec[claim[m]].state = "live"
      BY DEF IInv, TypeOK, ClaimsOK
    <3>2. QED
      BY <1>2, <1>5, <1>6, <3>1
  <2>2. QED
    BY <1>1, <2>1 DEF StatusOf
<1>10. UNCHANGED Digested
  BY <1>1 DEF Digested
<1>11. Abstract!Claim(S)
  BY <1>3, <1>8, <1>9, <1>10 DEF Abstract!Claim, Abstract!Move
<1>12. S \in SUBSET Msgs
  BY <1>3
<1>13. QED
  BY <1>11, <1>12 DEF Abstract!ANext

\* The confirmation job confirms the claims of a record whose root is stored, or
\* gives them up, or changes nothing that is visible.
LEMMA PollMaps ==
  ASSUME IInv, NEW p \in Procs, NEW row \in poll[p],
         CountRevert(p, row) \/ ReleaseReverted(p, row) \/ Confirm(p, row)
  PROVE  Abstract!ANext \/ (UNCHANGED AbsStatus /\ UNCHANGED Digested)
<1> DEFINE r == row.rec
           S == ClaimedBy(r)
<1>1. UNCHANGED <<msg, tx>>
  BY DEF CountRevert, ReleaseReverted, Confirm
<1>2. r \in Records /\ rec[r] \in RecordRow /\ rec[r].tx = row.tx /\ rec[r].state # "free"
  BY DEF IInv, TypeOK, PollRow, PollOK
<1>3. \A q \in Records : q # r => rec'[q] = rec[q]
  BY <1>2 DEF CountRevert, ReleaseReverted, Confirm, IInv, TypeOK
<1>4. UNCHANGED Digested
  BY <1>1 DEF Digested
<1>5. r # NoRecord /\ \A m \in Msgs : claim[m] \in Records \cup {NoRecord}
  BY <1>2, BoundsAssumption DEF Records, NoRecord, IInv, TypeOK
<1>6. S \in SUBSET Msgs /\ \A m \in S : claim[m] = r /\ msg[m] = "live" /\ m \in rec[r].batch
  BY <1>5 DEF ClaimedBy, IInv, ClaimsOK
<1>7. \A m \in Msgs \ S : claim[m] # r
  BY DEF ClaimedBy
<1>8. ASSUME NEW m \in Msgs \ S, claim'[m] = claim[m] PROVE StatusOf(m)' = StatusOf(m)
  BY <1>1, <1>3, <1>5, <1>7, <1>8 DEF StatusOf
<1>9. CASE CountRevert(p, row)
  <2>1. UNCHANGED claim /\ rec'[r].confirmed = rec[r].confirmed
    BY <1>2, <1>9 DEF CountRevert, RecordRow, IInv, TypeOK
  <2>2. \A m \in S : StatusOf(m)' = StatusOf(m)
    BY <1>1, <1>6, <2>1 DEF StatusOf
  <2>3. UNCHANGED AbsStatus
    BY <1>8, <2>1, <2>2 DEF AbsStatus
  <2>4. QED
    BY <1>4, <2>3
<1>10. CASE ReleaseReverted(p, row)
  <2>1. \A m \in Msgs : claim'[m] = IF m \in S THEN NoRecord ELSE claim[m]
    BY <1>10 DEF ReleaseReverted, Released
  <2>2. ~rec[r].confirmed
    BY <1>2, <1>10 DEF ReleaseReverted, IInv, RecordsOK
  <2>3. \A m \in S : StatusOf(m) = "claimed" /\ StatusOf(m)' = "waiting"
    BY <1>1, <1>5, <1>6, <2>1, <2>2 DEF StatusOf
  <2>4. \A m \in Msgs \ S : StatusOf(m)' = StatusOf(m)
    BY <1>8, <2>1
  <2>5. Abstract!Unclaim(S)
    BY <1>4, <1>6, <2>3, <2>4 DEF Abstract!Unclaim, Abstract!Move
  <2>6. QED
    BY <1>6, <2>5 DEF Abstract!ANext
<1>11. CASE Confirm(p, row)
  <2>1. UNCHANGED claim
    BY <1>11 DEF Confirm
  <2>2. \A m \in Msgs \ S : StatusOf(m)' = StatusOf(m)
    BY <1>8, <2>1
  <2>3. CASE rec'[r].confirmed = rec[r].confirmed
    <3>1. \A m \in S : StatusOf(m)' = StatusOf(m)
      BY <1>1, <1>6, <2>1, <2>3 DEF StatusOf
    <3>2. UNCHANGED AbsStatus
      BY <2>2, <3>1 DEF AbsStatus
    <3>3. QED
      BY <1>4, <3>2
  <2>4. CASE rec'[r].confirmed # rec[r].confirmed
    <3>1. ~rec[r].confirmed /\ rec'[r].confirmed
      BY <1>2, <1>11, <2>4 DEF Confirm, RecordRow, IInv, TypeOK
    <3>2. \A m \in S : StatusOf(m) = "claimed" /\ StatusOf(m)' = "confirmed"
      BY <1>1, <1>5, <1>6, <2>1, <3>1 DEF StatusOf
    <3>3. rec[r].tx \in Txs /\ tx[rec[r].tx].state = "ok" /\ tx[rec[r].tx].root = rec[r].batch
      BY <1>2, <1>11 DEF Confirm, Succeeded, IInv, RecordsOK
    <3>4. S \subseteq Digested
      BY <1>6, <3>3 DEF Digested
    <3>5. Abstract!Confirmed(S)
      BY <1>4, <1>6, <2>2, <3>2, <3>4 DEF Abstract!Confirmed, Abstract!Move
    <3>6. QED
      BY <1>6, <3>5 DEF Abstract!ANext
  <2>5. QED
    BY <2>3, <2>4
<1>12. QED
  BY <1>9, <1>10, <1>11

\* A submission stores nothing yet, and what it replaces had stored nothing.
LEMMA SendMaps ==
  ASSUME TypeOK, NEW t \in Threads, NEW i \in Txs, SendTx(t, i) \/ SendLost(t, i)
  PROVE  UNCHANGED Digested
<1>1. tx[i].state = "unsent" /\ tx' = WithTx(i, run[t].nonce, run[t].batch)
  BY DEF SendTx, SendLost, FreshTx
<1>2. run[t].nonce \in Nat /\ run[t].batch \in SUBSET Msgs
  BY DEF TypeOK, AnchorRun
<1>3. tx'[i].state = "pending"
  BY <1>1, <1>2, SendKeepsChain
<1>4. \A j \in Txs \ {i} : tx'[j] = tx[j] \/ (tx[j].state = "pending" /\ tx'[j].state = "replaced")
  BY <1>1 DEF WithTx, PendingWith, TypeOK, ChainTx
<1>5. \A j \in Txs : (tx'[j].state = "ok" <=> tx[j].state = "ok")
                     /\ (tx[j].state = "ok" => tx'[j].root = tx[j].root)
  BY <1>1, <1>3, <1>4
<1>6. QED
  BY <1>5 DEF Digested

\* A transaction that succeeds stores its root; one that reverts does nothing.
LEMMA MineMaps ==
  ASSUME TypeOK, NEW i \in Txs, Mine(i) \/ MineReverted(i)
  PROVE  Abstract!ANext \/ (UNCHANGED AbsStatus /\ UNCHANGED Digested)
<1>1. UNCHANGED AbsStatus
  BY SameTables DEF Mine, MineReverted
<1>2. tx[i] \in ChainTx /\ tx[i].state = "pending"
  BY DEF TypeOK, Mine, MineReverted
<1>3. CASE Mine(i)
  <2>1. tx'[i].state = "ok" /\ tx'[i].root = tx[i].root /\ \A j \in Txs \ {i} : tx'[j] = tx[j]
    BY <1>2, <1>3 DEF Mine, TypeOK, ChainTx
  <2>2. Digested' = Digested \cup tx[i].root
    BY <1>2, <2>1 DEF Digested
  <2>3. tx[i].root \in SUBSET Msgs
    BY <1>2 DEF ChainTx
  <2>4. Abstract!Store(tx[i].root)
    BY <1>1, <2>2 DEF Abstract!Store, AbsStatus
  <2>5. QED
    BY <2>3, <2>4 DEF Abstract!ANext
<1>4. CASE MineReverted(i)
  <2>1. tx'[i].state = "reverted" /\ \A j \in Txs \ {i} : tx'[j] = tx[j]
    BY <1>2, <1>4 DEF MineReverted, TypeOK, ChainTx
  <2>2. UNCHANGED Digested
    BY <1>2, <2>1 DEF Digested
  <2>3. QED
    BY <1>1, <2>2
<1>5. QED
  BY <1>3, <1>4

\* Every step maps to a step of AnchorSpec or to a stutter.
LEMMA StepMaps ==
  ASSUME IInv, OneInv, [Next]_vars
  PROVE  Abstract!ANext \/ (UNCHANGED AbsStatus /\ UNCHANGED Digested)
<1>1. ASSUME UNCHANGED <<msg, claim, rec, tx>> PROVE UNCHANGED AbsStatus /\ UNCHANGED Digested
  BY <1>1, SameTables DEF Digested
<1>2. ASSUME NEW t \in Threads, NEW i \in Txs, SendTx(t, i) \/ SendLost(t, i)
      PROVE  UNCHANGED AbsStatus /\ UNCHANGED Digested
  BY <1>2, SameTables, SendMaps DEF SendTx, SendLost, IInv
<1>3. ASSUME NEW t \in Threads, AnchorStep(t) \/ AnchorFault(t)
      PROVE  Abstract!ANext \/ (UNCHANGED AbsStatus /\ UNCHANGED Digested)
  BY <1>1, <1>2, <1>3, CommitMaps
  DEF AnchorStep, AnchorFault, ReadNonce, Reserve, SendRefused, FinishRun, AbortRun, ReserveFails,
      SendFails, CommitFails
<1>4. ASSUME NEW p \in Procs, ConfirmStep(p)
      PROVE  Abstract!ANext \/ (UNCHANGED AbsStatus /\ UNCHANGED Digested)
  BY <1>1, <1>4, PollMaps DEF ConfirmStep, StartPoll, NoReceipt
<1>5. QED
  BY <1>1, <1>3, <1>4, MessageMaps, MineMaps
  DEF Next, vars, StartRun, PollFails, Crash, IInv

\* With one server process anchoring implements its abstract specification: a
\* claim goes to a free message, a confirmation to a stored one, and stays.
THEOREM OneImplements == OneProcess /\ Spec => ImplementsAnchorSpec
<1>1. Init => Abstract!AInit
  BY DEF Init, Abstract!AInit, StatusOf, Digested, UnsentTx
<1>2. IInv /\ OneInv /\ [Next]_vars => [Abstract!ANext]_(Abstract!avars)
  BY StepMaps DEF Abstract!avars, AbsStatus
<1>3. QED
  BY <1>1, <1>2, OneInvariance, PTL DEF Spec, ImplementsAnchorSpec, Abstract!ASpec
=============================================================================
