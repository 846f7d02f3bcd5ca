# WhatSaS: TLA+ models and proofs

WhatSaS is an end-to-end encrypted messenger. A Flask server stores accounts and
ciphertexts in MySQL and anchors digests of the messages on an Ethereum chain; a
web client (plain JavaScript) and a C++ console client encrypt, poll and display.
This directory holds TLA+ models of the parts whose behaviour depends on
interleavings, lost answers, restarts and stale copies, the TLC configurations
that check them, and proofs checked by TLAPS.

Contents: [inventory](#inventory), [modules](#modules), [runs](#runs),
[bounds](#bounds), [fairness](#fairness), [proofs](#proofs),
[where code and comments disagree](#where-code-and-comments-disagree),
[not modelled](#what-is-not-modelled), [plan](#plan), [how to run](#how-to-run).

## Inventory

| Part | Source | State | Operations | Modules |
| --- | --- | --- | --- | --- |
| Anchoring | `server/app/messages/anchor.py`, started by `__init__.py`, `/flush`, `/auth/logout` | `messages.blockchain_record_id`, `blockchain_records`, two locks per process, the wallet's nonce | `anchor_pending`, `confirm_pending` | `Anchor`, `AnchorSpec` |
| DataStore | `contracts/DataStore.sol` | stored roots | `storeData`, two views | `Anchor` |
| Message routes | `server/app/messages/routes.py` | `messages` | list, send, read, delete, forward, revoke, flush, blockchain-record | `Anchor`, `Inbox`, `Wire` |
| Accounts | `server/app/auth/routes.py`, `__init__.py` | `users` row: password hash, wrapped private key; the JWT blocklist of each process | register, login (with rehash), change-password, logout | `Accounts`, `Console` |
| Audit | `__init__.py:log_audit`, `audit/routes.py` | `audit_log` | best-effort insert, list | |
| Users | `users/routes.py` | none of its own | look a public key up | `Pins` |
| Web session | `client-web/js/api.js`, `app.js`, `views/auth.js` | token, cached wrapped key (sessionStorage), private key (memory) of each tab | login, unlock, logout, register, route | `Accounts` |
| Web inbox | `client-web/js/views/inbox.js` | `currentConvMap`, `knownIds`, the polls and requests under way | load, poll, send, delete, revoke, forward, download, change-password dialog | `Inbox` |
| Web verification | `client-web/blockchain/`, `crypto/merkle.js` | the fetched record, digests in localStorage | fetch, compute root, compare | |
| C++ pins | `client-cpp/src/Client.cpp` | pins in memory, `whatsas_pins.txt` and its temporary file, both shared by all users and processes of a directory | load, fetch a key, save | `Pins` |
| C++ messages | `Client.cpp`, `main.cpp` | the conversation on view, `sentCache`, downloads | view, refresh, send, reply, forward, revoke, delete, download, switch user | `Wire` |
| C++ stores | `Conversation.cpp`, `MessageStore.cpp` | messages, ids seen, index by pair of users | add, clear, look up | `Store` |
| C++ HTTP | `HttpClient.cpp`, `http_response.cpp` | none between calls | send a request, read and parse the answer | `Http` |
| C++ accounts | `main.cpp`, `Auth.cpp`, `AuthCLI.hpp`, `key_wrap.hpp` | `auth`, `client`, `sessionSk`, the loop that makes a client | register, log in, switch, log out, change the password | `Console` |
| Cryptography | `key_wrap.hpp`, `message_crypto.hpp`, `hpke_utils.hpp`, `client-web/crypto/`, `crypto-library/` | none | wrap, seal, derive | `Wire`, `Console` (ideal) |
| Deployment | `whatsas.service`, `run.py`, `docs/nginx-sas.conf` | processes | start, restart, two workers | `Anchor`, `Accounts` |

How they interact. Routes and jobs of every gunicorn worker share one database
and nothing else: `_lock`, `_confirm_lock` and the JWT blocklist exist once per
process. Both jobs of anchoring share one wallet, whose nonce is kept by the
chain. Clients learn of changes by polling `GET /messages`; nothing is pushed.
Each browser tab has its own session and its own cached copy of the wrapped key.
Every run of the console client has its own session, conversation and cache, and
shares one pins file with whoever else runs it in the same directory. Both clients
write the same rows: a key wrapped by one must open in the other.

What is hard, and what correctness means there:

- *Anchoring* runs in several processes; a database transaction is held open
  around a network call. Correct: a message that claims a record is covered by the
  root the record's transaction carries; what is shown as confirmed is really
  stored and stays so; no message is anchored twice; every message is confirmed
  in the end.
- *The inbox* changes one array from overlapping continuations, each after an
  await, from answers that may be old. Correct: no message is lost, what is shown
  as revoked is revoked, an entry is patched in place, and the view converges to
  the server's listing.
- *Accounts* keep two things that belong together (hash and wrapped key) that are
  read and written in separate steps, with copies in every tab and every console.
  Correct: a login that is answered gives the key, the row of an account never loses
  it, whichever client wrote it; a logout ends its own session and no other; who is
  inside has the key the server hands out for him.
- *Pins* (trust on first use) live in one file, renamed from one temporary file,
  for several users and processes. Correct: nobody trusts a key another user was
  told, and a key once used for a peer is never silently replaced.
- *Messages of the console* are read again and again while others revoke and
  delete them, and are told from placeholders by their wording. Correct: a view is
  the server's listing of its moment; what is shown, saved or forwarded is what was
  sent; what is sent can be read.
- *Answers* may be cut anywhere, lost, or belong to a request served after it was
  given up. Correct: what is read is a prefix of what was sent, and no loss makes
  the client believe in a state the server is not in.
- *Routes* check in one statement and write in another, and audit afterwards.
- *Verification* compares a fetched record with a locally computed root.

`PROJECT.json` lists the hazards of each part at the line where they bite, with
the properties that guard against them, or the reason why none does.

## Modules

Every module states what it leaves out in its head. A variable is named as in the
code where the code has a name for it.

`Anchor.tla` — `anchor.py`, the routes that insert and delete messages, the
scheduler, and as much of the chain as the code observes.

- The variables `msg`, `claim` and `rec` are the *committed* columns. An open
  transaction (from the reservation of a group to its commit, `anchor.py:119-165`)
  lives in `run[t]`: the record it inserted and the rows it has locked. A rollback
  or a crash forgets it; that is MySQL's READ COMMITTED view for everyone else.
- `run[t].pc` walks through `anchor_pending`: `StartRun` (lock and SELECT),
  `ReadNonce`, then per recipient `Reserve`, `SendTx`, `CommitRecord`, and
  `FinishRun`. Each `except` branch is an action of its own: `AbortRun`,
  `ReserveFails`, `SendRefused`, `SendFails`, `CommitFails`; `SendLost` is the
  exception that arrives although the node took the transaction.
- `poll[p]` is the snapshot `_confirm_run` iterates over, with the `revert_count`
  it read: `Confirm`, `CountRevert`, `ReleaseReverted`, `NoReceipt`, `PollFails`
  handle one row each.
- `SendMessage` and `DeleteMessage` are the routes; a forward is an insert like a
  send. `Mine`, `MineReverted` and `WithTx` are the chain: nonces in order, a
  pending transaction may be replaced by one that pays more (`MayReplace`).
- `Crash(p)` drops everything a process holds.

A Merkle root stands for the set of messages it was built from. The docstring of
`anchor_pending` speaks of a root per conversation; the code groups by recipient
(`anchor.py:98-100`), and so does `Group`.

`AnchorSpec.tla` — what a client sees of a message: it waits, is claimed, is
confirmed only when a stored root digests it, and never loses a confirmation.
`Anchor!ImplementsAnchorSpec` maps a message's row and record to its status and
the mined transactions to the stored digests.

`Inbox.tla` — one open inbox and the server it polls. `thread` is the array of
one conversation in `currentConvMap`, `known` is `knownIds`. A call of `doPoll`
is `StartPoll`, `AnswerPoll` (the server builds its listing), `ReceivePoll` (from
the answer to the next await: forgetting deleted ids included), `Decrypted`, one
of `SkipMissing`, `PatchSent` and `AwaitPatch`/`WritePatch` per changed message,
and `Merge`. JavaScript runs one continuation at a time: `busy` names the poll
that holds the event loop between two awaits that really yield. Awaiting a sent
message, which only reads sessionStorage, ends within the same task, and its
microtasks run before any other event. `detached` records that the array a patch
has found was removed from the map while it waited; a write beyond the end of an
array leaves a hole, after which every `find` of later polls throws: the tab is
`broken`. A patch that has hit an entry other than its own leaves the tab
`muddled`, which differs from `ready` for the properties only. A tab whose initial
load failed is `failed` for good: it never polls. The conversation may be the one
with oneself (`toSelf`): every message then has two rows in a listing (`RowWays`),
both are pushed, and whatever looks for an entry finds the first. Send, delete and
revoke are three steps (`Ask…`, `Perform…` at the server, `Finish…` in the tab)
and may fail in between; a delete and a revocation of one message may both be under
way. The `…Elsewhere` actions and `Arrive` are other clients, `AnchorChanges` is the
anchoring job, and after `TokenExpires` the server answers 401 only.

`Accounts.tla` — one account, the tabs of its user and the server processes. A
password stands for the hash, the salt and the key derived from it: `hash` is the
password the stored hash verifies, `wrap` the one the stored private key opens
with. `SelectLogin`, `Rehash`/`RehashFails`, `FinishLogin` are `login`; the tab then
has its token and its wrapped key, and `OpenKey` sets the private key after the awaits
that open it, whatever happened in between. `Unlock` ends in the same step. A change of
the password opens the key first (`ChangePassword`, `PostChange`), then comes the
server (`SelectChange`, `WriteChange`/`WriteFails`) and `FinishChange` in the tab.
`LoseAnswer` and `Reload` let the server go on without the tab. `ServeLogout` is late
by construction: the client does not wait for it. `aged` says that accounts have
hashes made with older Argon2 parameters.

`Pins.tla` — the pins of the C++ client. `Start` is the constructor with
`loadPins`, whose trailer decides whether the file counts; `FirstFetch` pins a key
in memory and begins a save; `WriteTmp`, `Rename`, `SaveFails` and `FirstReturned`
are `savePins` and its callers, with every other process free to run in between;
`FetchAgain` compares. `Stop` is a logout, a switch of users or a crash at any
point. The server may answer anything. `by`, `got`, `old` and `users` are history.

`Wire.tla` — the console client's messages, beside an honest server and everybody
who sends, revokes and deletes at any time: the user logged in does so too, from
another client (`OtherSends`, `OtherWithdraws`), which is also what a request of this
client does that is served after it was given up. Texts may read like a placeholder.
Cryptography is ideal: `HpkeSend` and
`HpkeReceive` are terms that agree when the Diffie-Hellman values do, and a cipher
text opens under its key and its associated data only. The clock is read where the
code reads it: in `Encrypt`, and again in `Stamp` for a message that is not a
forward. `Fetch` is `receiveMessages` with the merging of `main.cpp`; a message
to oneself is listed twice, in either order. `Post` and `PostFails` are the
request with its answer or without. `Withdraw` may be served and unanswered; `told`
is the history of those that were answered. `Download` saves the text on view, or the
server's answer as it is (`Raw`) when it does not parse (`main.cpp:411`). `SwitchUser`
keeps `cache`, as `main.cpp` does.

`Store.tla` — `MessageStore` with its index by `peerKey`, escaping included, and
`Conversation` with its set of ids. An allocation may fail in either: `StoreFails`
leaves the message in the list and not in its bucket, which may have been made empty;
`AddToConv` takes the id back. `added` is the history of the additions that returned.

`Http.tla` — no state: the streams a server may send, which are a body of `BodyLen`
pieces by itself or in any of its `Chunkings`; `DecodeChunked` (a recursive
function over the turns of its loop) and `ParseResponse` on every prefix of them. The
server's framing is honest: a chunk size that overflows, or that is larger than what
follows other than by a cut (`http_response.cpp:134-140`), is not represented.

`Console.tla` (EXTENDS `Http`) — accounts in the console client over the routes of
`auth/routes.py`. `pc[c]` is where `main` is: the loop that makes a client
(`prompt`, `register`, `login`), the main menu, a request from it. `req`, `answer`
and `late` are the network: a request may never be sent (`NotSent`), be given up
(`GiveUp`) and served afterwards (`ServeLate`), and a good answer may be read in
part. `Serve` runs a handler, or the first part of one: a login that renews the hash
(`Rehashes`) and a change of the password read the row and leave a `Write`, of which
`Update` is served later and does not look at the row again. Each worker has its own
blocklist (`blocked`), which `Restart` empties; `forgotten` is the history of what was
lost so. A wrapped key has a form (`bundle` of two layers, or `flat` as
`promptPasswordChange` makes it), a password and the lanes of Argon2, which differ
between builds (`FullArgon`). `WebChange` is a password change from the web client, up
to its UPDATE, `Expire` a token's end.

`AnchorProofs`, `InboxProofs`, `AccountsProofs`, `PinsProofs`, `WireProofs`,
`StoreProofs`, `ConsoleProofs` — the proofs, each over the module it is named for.
`Flattening` — facts about sequences that are flattened, for the last two.
`MCAnchor`, `MCAnchorOne`, `MCInbox`, `MCAccounts`, `MCPins`,
`MCWire`, `MCStore`, `MCConsole` — constants for TLC.

Operators marked as a mutant in the modules are plausible wrong versions of the
definition that follows them. No run uses them; replacing the definition by one
makes the property named for it in `PROJECT.json` fail.

## Runs

| Run | Configuration | Checks | Result |
| --- | --- | --- | --- |
| anchor_pair | two workers, two messages to one recipient, one fault | TypeOK, ClaimCovered, ConfirmedIsStored, ConfirmedStays | holds |
| anchor_one | one worker (scheduler and flush thread), two messages to two recipients, two faults, fair | AnchoredOnce, ImplementsAnchorSpec, EventuallyConfirmed | holds |
| anchor_two_processes | two workers, two messages, no fault | AnchoredOnce | violated |
| inbox_all | two polls, everything enabled, with a partner or with oneself | TypeOK, RevokedIsTrue, KnownIsShown | holds |
| inbox_reader | one poll, a partner, revocations and anchoring, a load that fails, a token that expires, fair | ShownOnce, PollShowsAnswer, ViewConverges | holds |
| inbox_patch | one poll, a partner, delete button and anchoring | PatchInPlace | violated |
| accounts | two tabs, two requests, two tokens, restarts | TypeOK, SessionsSurvive, LoginGivesKey | holds |
| pins | two users, two processes, two peers, two keys, two ids | TypeOK, OneKey, OneId, NoForeignPins | holds |
| wire | three users, two messages, two texts of which one reads `[revoked]`, two seconds | TypeOK, ShownText, ForwardFaithful, ForwardOpens, ViewIsListing, NotAfterTold | holds |
| wire_stamp | the same | SentOpens | violated |
| store | four names with the delimiter and the escape character, two ids | TypeOK, IndexAgrees, SeenAgrees | holds |
| console | two consoles of two builds, two workers, one name, two passwords, two key pairs, two tokens | TypeOK, KeyIsMine, RowKeepsKey, GoodbyeEndsSession, BodyIsPrefix | holds |

Deadlock is checked for `store` only: every other system may stop (no message left
to send, no token left to issue, a tab that is broken, a program that was left).

Some properties have a hypothesis that matters. `KnownIsShown` speaks of a tab that
is `loading` or `ready`: once a patch has overwritten another entry, that entry's
id stays in `knownIds` for good, which `inbox_patch` shows. `OneKey` and `OneId`
speak of one user in one process (`Alone`), and `ShownOnce` and `PollShowsAnswer` of a
tab with a single poll at a time that neither sends nor deletes, in a conversation with
a partner; `ViewConverges` of such a tab that was loaded and whose token lasts.
`LoginGivesKey` speaks of accounts whose hash no login renews (`~aged`). `NotAfterTold`
speaks of revocations that this client has confirmed to its user; `GoodbyeEndsSession`
of one worker, until it restarts; `IndexAgrees` of the messages whose addition
returned. See below for what happens otherwise.

### Bounds

- *Anchor.* Two messages to one recipient make one group (`anchor_pair`); two
  recipients make two, so that a failing group is followed by another, and with two
  senders a flush of one of them fetches part of the rows (`anchor_one`).
- *Records, transactions, faults* (`MaxRecords`, `MaxTxs`, `MaxFaults`). One fault
  at any point, two in `anchor_one`, and as many rows and transactions as one retry
  for each fault takes. When the bound is used up nothing further is inserted; in
  the liveness run it is large enough for every behaviour with two faults.
- *RevertLimit* is 3 in the code; 1 in `anchor_pair`, 2 in `anchor_one`, where a
  revert is then counted once before it is a release. It is a parameter of the
  proofs.
- *Inbox.* One received and one own message are one of each kind that is patched
  differently, and two entries are what a moved index takes. Two polls overlap in
  `inbox_all`, which has the constraint `Few`: a token that lasts, two requests of the
  tab under way at a time (polls, sends, deletes, revocations), no anchoring of its own
  messages, three entries (the third is what a hole in the array takes), and with
  oneself one message, which has two entries. The other runs have one poll and the
  constraint `WithPartner`.
- *Accounts.* Two tabs and two requests are what overlapping takes; two passwords,
  two tokens. One process that restarts, since only the blocklist is of a process
  and the proofs are about any number of them.
- *Pins.* One user in one process is explored over two peers, keys and ids; as soon
  as a second one has used the file, one peer and one id are enough (`Few`), since
  what they share is the file as a whole.
- *Wire.* Three users: the one on view, the one logged in next, and somebody to
  forward to. Two messages: an original and its forward. Two texts: one that reads like
  a placeholder, one that does not. Two seconds: the tick that ends between two
  readings. Forwards of forwards are left to the proof.
- *Store.* Names `a`, `|`, `a|` and `%7C` hold the delimiter, a name ending with it
  and the escape sequence itself; two messages, the second in the same bucket or in
  another. `IndexAgrees` is about all pairs of names; any other names, of any
  length, are left to the proof.
- *Console.* One username that both want; one password the server refuses to
  register and one it takes, and changes to the former (`NewPasswords`), which
  `change_password` does not refuse; two key pairs, since every turn of the
  registration loop makes one; two workers, so that one knows what the other does not;
  `MaxLate` is one request, or the second half of one. `Expire` takes a token off the
  blocklists too, which are not looked at for a token that has expired. A body has two
  pieces (`BodyLen`): each of its two chunkings, and each cut of each, is read. Longer
  ones are left to the proof.

### Fairness

`Anchor!Fairness`: APScheduler's interval jobs fire again and again
(`__init__.py:140-143`), so a scheduler that could start a run does; a thread that
is inside a run takes its next step; confirmation jobs go through their rows; the
chain mines the next nonce. Nothing is assumed of flushes, deletions, faults or
of a message being sent. In `anchor_one` the retry after a fault is the
scheduler's, and no pending transaction is replaced (`MayReplace = FALSE`).

`Inbox!Fairness`: `setInterval` keeps starting polls (`inbox.js:572`). A request
and a continuation are strongly fair: an attempt may fail or wait for the event
loop, but not always. The initial load is one request, which is not repeated: it may
fail, and `setInterval` is then never reached; and every poll fails from the moment the
token has expired. `ViewConverges` therefore speaks of behaviours in which the load
succeeds, the token lasts and the server stops changing. Nothing is assumed of the user
or of other clients.

The console modules have no fairness: a user at a prompt owes nothing.

## Proofs

The theorems about a module's behaviours are `Spec => []P` or `Spec => [][A]_vars`
for every value of the constants, from the named assumptions of the modules, which
TLC evaluates in the runs. Each rests on an invariant that is shown to hold
initially and to be preserved by every action (`IInv`, where no other name is
given). `EscapeIsInjective` and `KeyIsThePair` are about operators of the code, and the
facts of `Flattening` are lemmas for them and for the chunk decoder.

*Anchor* (`AnchorProofs.tla`), for any number of processes, threads, messages,
records, transactions and faults. `ClaimCovered` is not inductive: that a
committed record carries the root of its batch is only known at the commit if it
was true of the open transaction since it was sent. `IInv` adds that:

- `RunOK`: an open reservation's record is still invisible, its locked rows exist
  and are of the batch, the batch has one recipient, and after the send the
  transaction carries the batch's root;
- `RecordsDistinct`: two open transactions never insert the same record;
- `ReservationsDisjoint`: nor have they locked the same row;
- `ClaimsOK`: a claim is on a message that exists, by a record that exists and
  covers it (so a deletion takes its claim along, and a release takes all);
- `RecordsOK`: a committed record's transaction carries its batch, and is mined
  with status 1 if the record is confirmed;
- `PollOK`: a polled row names the transaction of its record, even when that was
  released meanwhile, which is what makes a stale snapshot harmless.

From `IInv` follow `ClaimsAreCovered`, `ConfirmationsAreStored` and, as an action
property, `ConfirmationsStay`. `ReservationsDisjoint` is what InnoDB's row locks
provide, a part of the invariant and no claim about this code.

*Anchor with one process* (the end of `AnchorProofs.tla`). What two workers break holds for
one: under `OneProcess` the lock admits one run (`LockOK`), the rows a run has
fetched stay unclaimed while it runs (`PickedFree`), its locked rows are all of
its batch that still exists, and a live record owns the claims of all its batch's
messages (`BatchesClaimed`). `OneAnchorsOnce` concludes `AnchoredOnce`, and
`OneImplements` that every step is a step of `AnchorSpec` or leaves it alone.

*Inbox* (`InboxProofs.tla`), for any number of messages and of polls that overlap.
`CallsOK`: what a call was told is revoked has been, however old the answer, and a
patch that awaits has a place and a message. `ActsOK`: what was answered has been
done, which is why an answer that arrives after other polls can be believed. Arrays
are handled by three lemmas: pushing rows, cutting out the first places of some
messages, and replacing a row at its own place keep every other id
(`PushIs`, `WithoutIs`, `ReplacedIs`), over those about ascending order
(`AscendingIs`) and about the rows of one message (`PushedAre`). All of this covers
messages to oneself. `RevocationsAreTrue` and `NothingKnownIsHidden` follow.
A tab that only reads and revokes messages of a partner, one poll at a time, has a second invariant
(`RInv`): what a poll takes for new is not in `knownIds` before it is merged, the
place found before an await is still that of the message, and nothing is there or
polled before the inbox is loaded. It gives `EachIsShownOnce`; the first two parts
fail when polls overlap. `AnswerInv` adds what a poll has still to do: every
entry that differs from the answer waits in the poll's `changed`, every listed id
that is not known waits in `fresh`, and nothing that is not listed is left after the
answer was received. When both are used up the poll ends, and `PollsShowTheirAnswer` follows:
the safety half of `ViewConverges`, which adds that a poll with the server's last
listing comes to its end.

*Accounts* (`AccountsProofs.tla`), for any number of tabs, processes, requests,
passwords and tokens. `KeyInv`: with no hash to renew, a login writes nothing, and
the key it selected, and then opens in its tab, opens with the password it verified;
`LoginGivesKey` follows. `SessionInv`: a token is held by one tab at most, until it
leaves that tab for good; `SessionsSurvive` follows.

*Pins* (`PinsProofs.tla`), for any number of users, processes, peers, keys and ids.
`OwnPins`: whatever is in memory or in either file was fetched by the user under
whose trailer it stands; this needs no exclusion between processes, because a file
is renamed with its trailer. `OneClient`, for a user alone: memory and file agree
except on the pin being saved (`MemoryIsFile`), a temporary file that is written
is the memory of its process (`TmpIsMemory`), and every key that was ever returned
is in the file (`GotIsFile`). A crash between write and rename then loses only a
key that was never returned.

*Wire* (`WireProofs.tla`), for any number of users, messages, texts and seconds.
`DraftShape`: an encrypted request has an id no row has, opens for its recipient,
and a forward has its original's text. `RowShape`: nothing is known of a message
before its row is there, and rows never change. `ShowsWhatWasSent`,
`ForwardsAreFaithful` (through any number of forwards) and `ForwardsOpen` follow.
`BlobShape` (every row was encrypted by its sender for its recipient under its id)
gives `ViewsAreListings`, and `OwnNotTold` (what is on view as one's own text is not
among those one was told are withdrawn, unless its text reads `[revoked]` itself) gives
`NoForwardAfterTold`; both are action properties.

*Store* (`StoreProofs.tla`), for any names and any number of messages. No code
of a character (`Percent`, `Bar` or the character itself) is the beginning of
another, hence `EscapeIsInjective`; no escaped name holds the delimiter, so
that a key splits in one place only, and `Less` orders any two names, so that the
key does not depend on which of them sent: `KeyIsThePair`. With it the bucket of two
users is `Between` them after every addition that returned (`BetweenAppend`), and an
addition that fails leaves every bucket as it was or an empty one (`StoreKeepsIndex`):
`BucketsAreConversations`. `SeenIsShown` holds also when storing fails.

*Flattening* (`Flattening.tla`): what `FlattenSeq` does with an empty and an extended
sequence, and where each piece is found in the result, from its recursion, whose
solution is shown to exist and to be unique. `LeastNatural` and `EveryNatural`
replace the induction theorems of the library, whose operator parameter no backend
can instantiate: they speak of a set of naturals instead of a predicate, and
follow from the finite subsets of an interval being well founded.

*Console* (`ConsoleProofs.tla`), for any number of consoles, workers, names, keys and
late requests. `RequestShape`: a registration carries a bundle of its own key, a change
from a console carries none, and what is left of a handler that is half done carries
the key of its user, also among the requests still to arrive; so whatever is written
late leaves `RowKeepsKey` true. One conjunct per place of the program: in `Registering`
a good answer means that the row has this turn's key, in `LoggingIn` it carries a
bundle of the user's key, in `LoggedIn` the client's key is the row's, in `Leaving` a
good answer means that a worker was told (`Told`), in `LoggedOff` a token of which no
worker was told has been warned of. `Idle` says that no answer is left over for the
next call. `KeysAreOwn`, `RowsKeepKeys` and `GoodbyesEndSessions` follow. The last section is about answers: for a body of any
length in any chunking, each turn of the decoder is at the start of a chunk, what it
has read are the chunks before, and it stops at the first chunk that is not there in
full; a turn that goes on moves ahead, so that there are fewer turns than items.
`BodiesArePrefixes` follows for every cut and framing.

Only model-checked: `ViewConverges` and `EventuallyConfirmed`, since fairness and
ENABLED are beyond the prover. Every other property of a passing run is stated by
a theorem.

## Where code and comments disagree

Shown by a run:

- Two workers anchor the same message twice (`anchor_two_processes`): a
  reservation is uncommitted, hence invisible, until after the chain transaction
  (`anchor.py:117`), and the UPDATE claims rows by id only.
- `msgs[idx] = {… await …}` (`inbox.js:516`) writes to an index found before the
  await: a deletion in between makes it overwrite another message, or duplicate
  itself (`inbox_patch`).
- The clock is read once for the associated data and once for the stored time of a
  message (`message_crypto.hpp:29`, `Client.cpp:249`): when a second ends in
  between, the message was sent and can never be opened (`wire_stamp`).

Met while modelling, and excluded by a hypothesis rather than shown by a run:

- A login that renews the hash (`auth/routes.py:152-164`) overwrites the hash a
  password change wrote after the SELECT: the key is then wrapped under a password
  that no longer logs in. `Accounts` and `Console` have the race; hence the `~aged` of
  `LoginGivesKey`, and hence `RowKeepsKey`, which says that the key is in the row and
  not which password opens it.
- A logout while a login or an unlock awaits the opening of the key (`api.js:130-140`,
  `views/auth.js:64-68`) clears a key that is not there yet; it is set afterwards, and
  stays in memory, where the comment says "Cleared on logout" (`api.js:12`).
- A message to oneself is shown twice, since the listing has it twice
  (`messages/routes.py:53-82`) and ids are looked up in `knownIds` before the first of
  the two is added; deleting, marking and patching reach the first entry only, so that
  the second of a message deleted from elsewhere stays on view until a reload. Hence
  `~toSelf` in `ShownOnce`, `PollShowsAnswer` and `ViewConverges`.
- When the initial load fails (`inbox.js:433-436`), polling never begins.
- The console tells placeholders from texts by their wording: a message typed as
  `[revoked]` (`ui.hpp:151-172`) is shown, and can then be neither forwarded nor
  downloaded (`main.cpp:327`). The models allow it, and no property forbids it.
- A download whose answer does not parse saves the answer and says "saved"
  (`main.cpp:411-412`). `ShownText` therefore allows the raw answer in a file.
- A revocation that was not answered, or that came from another client of the user,
  does not stop him from forwarding the text on view (`main.cpp:359-367`,
  `messages/routes.py:243-305`); `NotAfterTold` speaks of the others.
- When memory runs out between the two insertions of `MessageStore::addMessage`
  (`MessageStore.cpp:8-9`), list and index disagree by that message, which
  `Conversation::addMessage` takes care of and this does not. The exception leaves
  `main`'s menu and ends the program.
- A run that starts while an earlier transaction is pending reuses its nonce
  (`anchor.py:109`); if the node replaces the earlier one, its record waits for a
  receipt for ever. Hence `MayReplace = FALSE` in `anchor_one`.
- A token that was logged out is accepted again after a restart, or by the other
  worker, until it expires; the comment accepts that for 15 minutes
  (`__init__.py:87-88`), the code gives tokens one hour (line 72).
  `GoodbyeEndsSession` says no more than that one worker was told. The tokens of earlier
  turns of the console's loop, and that of a login answer that was cut, stay alive
  without a word.
- Users of one directory share the pins file but seal it with their own key: after
  a switch of users the file counts as tampered with, and the next save replaces
  it. Pins then do not "survive restarts" (`Client.hpp:31`), and a key that changed
  meanwhile is not "rejected" (`:25`). Hence `Alone` in `OneKey`.
- Overlapping polls append a new message twice (`inbox.js:506-538`), hence the
  single poll of `inbox_reader`; so does a send whose answer comes after a poll.
- The password change of the console wraps the key in a form the server refuses
  with 400 (`main.cpp:232-250`, `auth/routes.py:226-233`), so that it never succeeds;
  `RowKeepsKey` depends on that refusal.
- Reading one message by id ignores `is_revoked` (`messages/routes.py:182`), which
  the listing honours.

Noticed, and outside of what the models distinguish: the flush before the rename of
the pins file (`Client.cpp:175`) does not outlast a power failure; where OpenSSL's
derivation fails at run time (`key_wrap.hpp:135`) libsodium's, with one lane, wraps
a key that builds with four do not open; `SSL_read` has no timeout
(`HttpClient.cpp:98`); when the key cannot be unwrapped after a login
(`main.cpp:114`) the session stays alive without a word; a row without a timestamp
is read with its `created_at` (`Client.cpp:347-378`), and one whose `created_at` is
no string ends the listing (`:353`); a duplicated last node of an odd layer gives
two batches one root (`anchor.py:43`).

## What is not modelled

- Cryptography and encodings: terms that agree or do not, as described for `Wire`
  and `Console`.
- Reorganisations of the chain, and other users of the wallet: the code has no
  notion of either.
- Foreign keys: `docs/schema.sql` elides them. Message ids are used once.
- The audit log: a best-effort insert after each commit. Its order with respect to
  the commit is visible only in the log.
- Routes as several statements: in `Inbox` and `Wire` a route is one step. A
  revocation between the check of a forward and its insert is then ordered after
  the forward, which no client can tell apart.
- The verification view: it compares digests, and its one race (two fetches, of
  which the older answers last, `blockchainVerifyView.js:258`) is put right by the next
  fetch. Merkle trees are sets here.
- Framing that lies: chunk sizes that overflow or exceed what follows
  (`http_response.cpp:134-140`).
- A thread opened by New Chat before the initial load has ended or after it failed
  (`inbox.js:73-78`): what is sent there is not in the arrays of the loaded inbox.
- A forward that is served after its client gave it up: in `Wire` a request served so
  late is a message sent from elsewhere, and one without an original.
- In the web client: rendering, dialogs, routing between views, the registration
  form, forward and download, and its own key pins.
- In the console client: input validation, drawing, parsing of one malformed row,
  the text format of the pins file, URL parsing, and what TLS verifies. Two
  processes that write into the temporary pins file at the same moment: each fills
  it in one step.
- `Conversation::getSortedMessages`, the counts of frequent contacts and printing,
  which change no state.
- The legacy service under `verification/`, which `whatsas.service` does not start.

## Plan

The order was: anchoring with its abstract specification and proofs, the web inbox,
accounts; then the console client: `Pins`, `Wire`, `Store`, `Http`, `Console`, each
with its proof. All of that is done. What would come next, in order:

1. `Messages` and `Audit`: each route as its SELECT and its write, over users and
   messages: forwarding against revocation, revocation against deletion, audit
   after commit. Abstract specification: what a user may read.
2. `Verify`: overlapping fetches and the locally computed root, and `Merkle` as a
   recursive function checked against the server's and the browser's loop.
3. The web client's own pins, and both clients' pins in one account.
4. `Inbox` with two conversations and a thread that is switched during an await.

## How to run

    tlc -workers 2 -config MCAnchor.cfg MCAnchor.tla
    tlapm AnchorProofs.tla

`PROJECT.json` names module and configuration of every run, the source lines each
definition stands for, the mutants, the findings and the hazards.
