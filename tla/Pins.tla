--------------------------------- MODULE Pins ---------------------------------
(***************************************************************************)
(* Trust on first use in the C++ client (client-cpp/src/Client.cpp).       *)
(*                                                                         *)
(* The first key a user gets for a peer is pinned, in memory and in a file *)
(* whose trailer is an HMAC under the user's private key.  main.cpp gives  *)
(* every user and every process on a computer the same file.  A save       *)
(* writes all pins of one process to one temporary file and renames it;    *)
(* processes run between the two, and may die there.  The write is one     *)
(* step here: two processes do not fill the temporary file at once.        *)
(*                                                                         *)
(* The server may answer any key and any id for a peer: that is what pins  *)
(* are for.                                                                *)
(***************************************************************************)
EXTENDS Naturals

CONSTANTS
  Owners,   \* users who log in on this computer, each with a key pair
  Procs,    \* processes of the client
  Peers,    \* usernames looked up
  Keys,     \* public keys of peers
  Ids,      \* UUIDs of peers
  None      \* no user, key, id

ASSUME NoneAssumption == None \notin Owners \cup Keys \cup Ids

VARIABLES
  file,     \* whatsas_pins.txt
  tmp,      \* whatsas_pins.txt.tmp
  user,     \* whose Client each process holds
  mem,      \* its pinnedKeys_ and pinnedIds_
  pc,       \* how far its savePins is
  new,      \* the peer whose first key is being saved
  old,      \* peers whose pins an older client wrote (history)
  users,    \* who has run where (history)
  got       \* what fetchPeerPublicKey returned to each user (history)

client == <<user, mem, pc, new>>
vars == <<file, tmp, client, old, users, got>>

\* by: the user whose session fetched the key, None for a pin of an older client
\* (history).  There is no id without a key.
Pin ==
  {pin \in [key: Keys \cup {None}, id: Ids \cup {None}, by: Owners \cup {None}] :
     pin.key = None => pin.id = None}
NoPin == [key |-> None, id |-> None, by |-> None]
NoPins == [x \in Peers |-> NoPin]
Pinned(pin) == pin.key # None

\* mac: the user under whose key the trailer verifies, None without a trailer.
File == [there: BOOLEAN, mac: Owners \cup {None}, pins: [Peers -> Pin]]
NoFile == [there |-> FALSE, mac |-> None, pins |-> NoPins]

Answer == [key: Keys, id: Ids]

TypeOK ==
  /\ file \in File /\ tmp \in File
  /\ user \in [Procs -> Owners \cup {None}]
  /\ mem \in [Procs -> [Peers -> Pin]]
  /\ pc \in [Procs -> {"idle", "save", "written", "saved"}]
  /\ new \in [Procs -> Peers \cup {None}]
  /\ old \subseteq Peers
  /\ users \subseteq Procs \X Owners
  /\ got \in [Owners -> [Peers -> SUBSET Answer]]

\* An older client may have left a file without trailer and without ids.
Init ==
  /\ old \in SUBSET Peers
  /\ \E key \in [old -> Keys] :
       file = [there |-> old # {}, mac |-> None,
               pins |-> [x \in Peers |->
                           IF x \in old THEN [NoPin EXCEPT !.key = key[x]] ELSE NoPin]]
  /\ tmp = NoFile
  /\ user = [p \in Procs |-> None]
  /\ mem = [p \in Procs |-> NoPins]
  /\ pc = [p \in Procs |-> "idle"]
  /\ new = [p \in Procs |-> None]
  /\ users = {}
  /\ got = [o \in Owners |-> [x \in Peers |-> {}]]

-----------------------------------------------------------------------------
(* A Client is constructed and dropped                                     *)

\* Mutant: the trailer is not looked at.
Unverified(o) == file.pins

\* A file with a trailer of somebody else is as good as none.
LoadPins(o) == IF file.mac \in {o, None} THEN file.pins ELSE NoPins

Start(p, o) ==
  /\ user[p] = None
  /\ user' = [user EXCEPT ![p] = o]
  /\ mem' = [mem EXCEPT ![p] = LoadPins(o)]
  /\ users' = users \cup {<<p, o>>}
  /\ UNCHANGED <<file, tmp, pc, new, old, got>>

\* Logout, switching the user, or a crash anywhere in a save.
Stop(p) ==
  /\ user[p] # None
  /\ user' = [user EXCEPT ![p] = None]
  /\ mem' = [mem EXCEPT ![p] = NoPins]
  /\ pc' = [pc EXCEPT ![p] = "idle"]
  /\ new' = [new EXCEPT ![p] = None]
  /\ UNCHANGED <<file, tmp, old, users, got>>

-----------------------------------------------------------------------------
(* fetchPeerPublicKey                                                      *)

Idle(p) == user[p] # None /\ pc[p] = "idle"

Return(p, x, a) == got' = [got EXCEPT ![user[p]][x] = @ \cup {a}]

FirstFetch(p, x, a) ==
  /\ Idle(p) /\ ~Pinned(mem[p][x])
  /\ mem' = [mem EXCEPT ![p][x] = [key |-> a.key, id |-> a.id, by |-> user[p]]]
  /\ pc' = [pc EXCEPT ![p] = "save"]
  /\ new' = [new EXCEPT ![p] = x]
  /\ UNCHANGED <<file, tmp, user, old, users, got>>

\* Mutant: only the key is compared.
SameKey(pin, a) == pin.key = a.key

Matches(pin, a) == pin.key = a.key /\ pin.id \in {a.id, None}

\* An id seen for the first time is kept in memory only; an answer that does not
\* match the pin is refused.
FetchAgain(p, x, a) ==
  /\ Idle(p) /\ Pinned(mem[p][x])
  /\ \/ /\ Matches(mem[p][x], a)
        /\ mem' = [mem EXCEPT ![p][x] = [key |-> a.key, id |-> a.id, by |-> @.by]]
        /\ Return(p, x, a)
     \/ ~Matches(mem[p][x], a) /\ UNCHANGED <<mem, got>>
  /\ UNCHANGED <<file, tmp, user, pc, new, old, users>>

-----------------------------------------------------------------------------
(* savePins                                                                *)

WriteTmp(p) ==
  /\ pc[p] = "save"
  /\ tmp' = [there |-> TRUE, mac |-> user[p], pins |-> mem[p]]
  /\ pc' = [pc EXCEPT ![p] = "written"]
  /\ UNCHANGED <<file, user, mem, new, old, users, got>>

\* Whatever the temporary file holds by now replaces the pins.
Rename(p) ==
  /\ pc[p] = "written" /\ tmp.there
  /\ file' = tmp /\ tmp' = NoFile
  /\ pc' = [pc EXCEPT ![p] = "saved"]
  /\ UNCHANGED <<user, mem, new, old, users, got>>

\* Mutant: a failed save leaves the pin in memory.
KeepPin(p) == mem[p]

\* Mutant: pinnedIds_ is not erased.
EraseKey(p) == [mem[p] EXCEPT ![new[p]].key = None]

ErasePin(p) == [mem[p] EXCEPT ![new[p]] = NoPin]

\* The file cannot be opened, written or renamed: the temporary file is removed, if
\* it was opened, and nothing is returned.
SaveFails(p) ==
  /\ pc[p] \in {"save", "written"}
  /\ \/ tmp' = NoFile
     \/ pc[p] = "save" /\ UNCHANGED tmp
  /\ mem' = [mem EXCEPT ![p] = ErasePin(p)]
  /\ pc' = [pc EXCEPT ![p] = "idle"]
  /\ new' = [new EXCEPT ![p] = None]
  /\ UNCHANGED <<file, user, old, users, got>>

FirstReturned(p) ==
  /\ pc[p] = "saved"
  /\ LET pin == mem[p][new[p]] IN Return(p, new[p], [key |-> pin.key, id |-> pin.id])
  /\ pc' = [pc EXCEPT ![p] = "idle"]
  /\ new' = [new EXCEPT ![p] = None]
  /\ UNCHANGED <<file, tmp, user, mem, old, users>>

-----------------------------------------------------------------------------

Session(p) ==
  \/ \E o \in Owners : Start(p, o)
  \/ Stop(p)
  \/ \E x \in Peers, a \in Answer : FirstFetch(p, x, a) \/ FetchAgain(p, x, a)
  \/ WriteTmp(p) \/ Rename(p) \/ SaveFails(p) \/ FirstReturned(p)

Next == \E p \in Procs : Session(p)

Spec == Init /\ [][Next]_vars

-----------------------------------------------------------------------------
(* Properties                                                              *)

Alone == \A u, v \in users : u = v

(* "Existing pins are loaded at construction and survive restarts"          *)
(* (include/Client.hpp:31) and "Subsequent fetches that differ are rejected" *)
(* (:25): as long as one user runs one client on the computer, a key that   *)
(* was returned once for a peer is the only one ever returned, whatever      *)
(* saves fail and wherever the client dies.                                  *)
OneKey ==
  Alone => \A o \in Owners, x \in Peers : \A a, b \in got[o][x] : a.key = b.key

(* The same for the id, except for pins an older client wrote without one,   *)
(* whose id is forgotten unless another pin is saved.                        *)
OneId ==
  Alone => \A o \in Owners : \A x \in Peers \ old : \A a, b \in got[o][x] : a.id = b.id

(* A pin that a client trusts was fetched by a session of its own user, or   *)
(* comes from a file without trailer: no interleaving of saves through the   *)
(* shared temporary file makes one user trust what another one was told.     *)
NoForeignPins ==
  \A p \in Procs : user[p] # None =>
    \A x \in Peers : mem[p][x].by \in {user[p], None}
=============================================================================
