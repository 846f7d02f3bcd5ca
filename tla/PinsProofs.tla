------------------------------ MODULE PinsProofs ------------------------------
(* Proofs about Pins, for any number of users, processes, peers, keys, ids.  *)
EXTENDS Pins, TLAPS

Running(p) == user[p] # None
Saving(p, x) == pc[p] \in {"save", "written"} /\ new[p] = x

\* A save is under way only in a running client, for a peer pinned in memory.
SaveShape ==
  \A p \in Procs : pc[p] # "idle" =>
    Running(p) /\ new[p] \in Peers /\ Pinned(mem[p][new[p]])

\* What is pinned in this session has an id.
NewHasId == \A p \in Procs : pc[p] # "idle" => mem[p][new[p]].id # None

TInv == TypeOK /\ SaveShape /\ NewHasId

\* Pins in memory and in the files were fetched by the user they belong to.
OwnPins ==
  /\ NoForeignPins
  /\ \A m \in {file, tmp} : \A x \in Peers : m.pins[x].by \in {m.mac, None}

\* Whoever runs, has left a trailer or has got a key is among the users.
KnownUsers ==
  /\ \A p \in Procs : Running(p) => <<p, user[p]>> \in users
  /\ \A m \in {file, tmp} : m.mac # None => \E q \in Procs : <<q, m.mac>> \in users
  /\ \A o \in Owners, x \in Peers : got[o][x] # {} => \E q \in Procs : <<q, o>> \in users

\* One client: memory and file agree, except on the pin that is being saved.
MemoryIsFile ==
  \A p \in Procs : Running(p) => \A x \in Peers :
    /\ Pinned(file.pins[x]) => mem[p][x].key = file.pins[x].key
    /\ Pinned(mem[p][x]) /\ ~Saving(p, x) => Pinned(file.pins[x])
    /\ Saving(p, x) => ~Pinned(file.pins[x])
    /\ Pinned(file.pins[x]) /\ x \notin old => mem[p][x].id = file.pins[x].id
    /\ Pinned(mem[p][x]) /\ x \notin old => mem[p][x].id # None

TmpIsMemory ==
  \A p \in Procs : pc[p] = "written" /\ tmp.there => tmp.pins = mem[p]

GotIsFile ==
  \A o \in Owners, x \in Peers : \A a \in got[o][x] :
    /\ file.pins[x].key = a.key
    /\ x \notin old => file.pins[x].id = a.id

FileHasIds == \A x \in Peers \ old : Pinned(file.pins[x]) => file.pins[x].id # None

OneClient == Alone => MemoryIsFile /\ TmpIsMemory /\ GotIsFile /\ FileHasIds

IInv == TInv /\ OwnPins /\ KnownUsers /\ OneClient

-----------------------------------------------------------------------------
(* Types                                                                     *)

\* What stands for no pin and no file is of their types.
LEMMA NoPinTypes == NoPin \in Pin /\ NoPins \in [Peers -> Pin] /\ NoFile \in File
  BY DEF NoPin, Pin, NoPins, NoFile, File

(* The initial state is well typed.                                          *)
LEMMA TypeInit == Init => TInv
<1> SUFFICES ASSUME Init PROVE TInv
  OBVIOUS
<1>1. PICK key \in [old -> Keys] :
        file = [there |-> old # {}, mac |-> None,
                pins |-> [x \in Peers |->
                            IF x \in old THEN [NoPin EXCEPT !.key = key[x]] ELSE NoPin]]
  BY DEF Init
<1>2. \A x \in old : [NoPin EXCEPT !.key = key[x]] \in Pin
  BY NoneAssumption DEF NoPin, Pin
<1>3. file \in File
  BY <1>1, <1>2, NoPinTypes DEF File
<1> QED
  BY <1>3, NoPinTypes DEF Init, TInv, TypeOK, SaveShape, NewHasId

(* Every step of a client keeps every variable within its type.              *)
LEMMA TypeStep == TInv /\ [Next]_vars => TInv'
<1> SUFFICES ASSUME TInv, [Next]_vars PROVE TInv'
  OBVIOUS
<1> USE DEF TInv, TypeOK, SaveShape, NewHasId, Running
<1>0. CASE UNCHANGED vars
  BY <1>0 DEF vars, client
<1>a. SUFFICES ASSUME NEW p \in Procs, Session(p) PROVE TInv'
  BY <1>0 DEF Next
<1>1. ASSUME NEW o \in Owners, Start(p, o) PROVE TInv'
  <2>1. LoadPins(o) \in [Peers -> Pin]
    BY NoPinTypes DEF LoadPins, File
  <2> QED
    BY <1>1, <2>1 DEF Start
<1>2. ASSUME Stop(p) PROVE TInv'
  BY <1>2, NoPinTypes DEF Stop
<1>3. ASSUME NEW x \in Peers, NEW a \in Answer, FirstFetch(p, x, a) PROVE TInv'
  <2> DEFINE pin == [key |-> a.key, id |-> a.id, by |-> user[p]]
  <2>1. pin \in Pin /\ Pinned(pin) /\ pin.id # None
    BY <1>3, NoneAssumption DEF FirstFetch, Idle, Answer, Pinned, Pin
  <2> QED
    BY <1>3, <2>1 DEF FirstFetch, Idle
<1>4. ASSUME NEW x \in Peers, NEW a \in Answer, FetchAgain(p, x, a) PROVE TInv'
  <2>1. CASE ~Matches(mem[p][x], a)
    BY <1>4, <2>1 DEF FetchAgain
  <2>2. CASE Matches(mem[p][x], a)
    <3> DEFINE pin == [key |-> a.key, id |-> a.id, by |-> mem[p][x].by]
    <3>0. user[p] \in Owners /\ mem[p][x] \in Pin
      BY <1>4 DEF FetchAgain, Idle
    <3>1. pin \in Pin /\ Pinned(pin)
      BY <3>0, NoneAssumption DEF Pin, Answer, Pinned
    <3>2. mem' = [mem EXCEPT ![p] = [mem[p] EXCEPT ![x] = pin]]
      BY <1>4, <2>2 DEF FetchAgain
    <3>3. got' = [got EXCEPT ![user[p]] = [got[user[p]] EXCEPT ![x] = @ \cup {a}]]
      BY <1>4, <2>2 DEF FetchAgain, Return
    <3>4. got' \in [Owners -> [Peers -> SUBSET Answer]]
      BY <3>3, <3>0
    <3> QED
      BY <1>4, <3>1, <3>2, <3>4 DEF FetchAgain, Idle
  <2> QED
    BY <2>1, <2>2
<1>5. ASSUME WriteTmp(p) PROVE TInv'
  BY <1>5 DEF WriteTmp, File
<1>6. ASSUME Rename(p) PROVE TInv'
  BY <1>6, NoPinTypes DEF Rename
<1>7. ASSUME SaveFails(p) PROVE TInv'
  <2>1. ErasePin(p) \in [Peers -> Pin]
    BY NoPinTypes DEF ErasePin
  <2> QED
    BY <1>7, <2>1, NoPinTypes DEF SaveFails
<1>8. ASSUME FirstReturned(p) PROVE TInv'
  <2>1. [key |-> mem[p][new[p]].key, id |-> mem[p][new[p]].id] \in Answer
    BY <1>8 DEF FirstReturned, Answer, Pin, Pinned
  <2> QED
    BY <1>8, <2>1 DEF FirstReturned, Return
<1> QED
  BY <1>a, <1>1, <1>2, <1>3, <1>4, <1>5, <1>6, <1>7, <1>8 DEF Session

-----------------------------------------------------------------------------
(* Whose pins                                                                *)

(* A client loads pins only from a file of its own user, or without trailer, *)
(* and everything it saves was fetched by itself or loaded that way.         *)
LEMMA OwnStep == TInv /\ OwnPins /\ [Next]_vars => OwnPins'
<1> SUFFICES ASSUME TInv, OwnPins, [Next]_vars PROVE OwnPins'
  OBVIOUS
<1> USE DEF TInv, TypeOK, OwnPins, NoForeignPins
<1>0. CASE UNCHANGED vars
  BY <1>0 DEF vars, client
<1>a. SUFFICES ASSUME NEW p \in Procs, Session(p) PROVE OwnPins'
  BY <1>0 DEF Next
<1>b. NoPin.by = None /\ \A x \in Peers : NoPins[x].by = None
  BY DEF NoPin, NoPins
<1>1. ASSUME NEW o \in Owners, Start(p, o) PROVE OwnPins'
  <2>1. \A x \in Peers : LoadPins(o)[x].by \in {o, None}
    BY <1>b DEF LoadPins
  <2> QED
    BY <1>1, <2>1 DEF Start
<1>2. ASSUME Stop(p) PROVE OwnPins'
  BY <1>2 DEF Stop
<1>3. ASSUME NEW x \in Peers, NEW a \in Answer, FirstFetch(p, x, a) PROVE OwnPins'
  BY <1>3 DEF FirstFetch, Idle
<1>4. ASSUME NEW x \in Peers, NEW a \in Answer, FetchAgain(p, x, a) PROVE OwnPins'
  <2>1. \A q \in Procs, y \in Peers : mem'[q][y].by = mem[q][y].by
    <3>1. CASE Matches(mem[p][x], a)
      <4> DEFINE pin == [key |-> a.key, id |-> a.id, by |-> mem[p][x].by]
      <4>1. mem' = [mem EXCEPT ![p] = [mem[p] EXCEPT ![x] = pin]]
        BY <1>4, <3>1 DEF FetchAgain
      <4>2. pin.by = mem[p][x].by
        OBVIOUS
      <4> QED
        BY <4>1, <4>2
    <3> QED
      BY <1>4, <3>1 DEF FetchAgain
  <2> QED
    BY <1>4, <2>1 DEF FetchAgain
<1>5. ASSUME WriteTmp(p) PROVE OwnPins'
  BY <1>5 DEF WriteTmp, SaveShape, Running
<1>6. ASSUME Rename(p) PROVE OwnPins'
  BY <1>6, <1>b DEF Rename, NoFile
<1>7. ASSUME SaveFails(p) PROVE OwnPins'
  <2>1. \A x \in Peers : ErasePin(p)[x].by \in {user[p], None}
    BY <1>7, <1>b DEF ErasePin, SaveFails, SaveShape, Running
  <2> QED
    BY <1>7, <1>b, <2>1 DEF SaveFails, NoFile
<1>8. ASSUME FirstReturned(p) PROVE OwnPins'
  BY <1>8 DEF FirstReturned
<1> QED
  BY <1>a, <1>1, <1>2, <1>3, <1>4, <1>5, <1>6, <1>7, <1>8 DEF Session

(* Who runs, has signed a file or has got a key has started a client.        *)
LEMMA UsersStep == TInv /\ KnownUsers /\ [Next]_vars => KnownUsers'
<1> SUFFICES ASSUME TInv, KnownUsers, [Next]_vars PROVE KnownUsers'
  OBVIOUS
<1> USE DEF TInv, TypeOK, KnownUsers, Running
<1>0. CASE UNCHANGED vars
  BY <1>0 DEF vars, client
<1>a. SUFFICES ASSUME NEW p \in Procs, Session(p) PROVE KnownUsers'
  BY <1>0 DEF Next
<1>1. ASSUME NEW o \in Owners, Start(p, o) PROVE KnownUsers'
  BY <1>1 DEF Start
<1>2. ASSUME Stop(p) PROVE KnownUsers'
  BY <1>2 DEF Stop
<1>3. ASSUME NEW x \in Peers, NEW a \in Answer, FirstFetch(p, x, a) PROVE KnownUsers'
  BY <1>3 DEF FirstFetch
<1>4. ASSUME NEW x \in Peers, NEW a \in Answer, FetchAgain(p, x, a) PROVE KnownUsers'
  <2>1. \A o \in Owners, y \in Peers :
          o # user[p] => got'[o][y] = got[o][y]
    BY <1>4 DEF FetchAgain, Return
  <2> QED
    BY <1>4, <2>1 DEF FetchAgain, Idle
<1>b. ASSUME UNCHANGED <<user, users, got>>,
             \A m \in {file', tmp'} : m.mac # None => \E q \in Procs : <<q, m.mac>> \in users
      PROVE  KnownUsers'
  BY <1>b
<1>5. ASSUME WriteTmp(p) PROVE KnownUsers'
  <2>1. file' = file /\ tmp'.mac = user[p] /\ <<p, user[p]>> \in users
    BY <1>5 DEF WriteTmp, SaveShape
  <2>2. UNCHANGED <<user, users, got>>
    BY <1>5 DEF WriteTmp
  <2> QED
    BY <1>b, <2>1, <2>2
<1>6. ASSUME Rename(p) PROVE KnownUsers'
  <2>1. file' = tmp /\ tmp'.mac = None /\ UNCHANGED <<user, users, got>>
    BY <1>6 DEF Rename, NoFile
  <2> QED
    BY <1>b, <2>1
<1>7. ASSUME SaveFails(p) PROVE KnownUsers'
  <2>1. /\ file' = file /\ UNCHANGED <<user, users, got>>
        /\ tmp'.mac = None \/ tmp' = tmp
    BY <1>7 DEF SaveFails, NoFile
  <2> QED
    BY <1>b, <2>1
<1>8. ASSUME FirstReturned(p) PROVE KnownUsers'
  <2>1. \A o \in Owners, y \in Peers :
          o # user[p] => got'[o][y] = got[o][y]
    BY <1>8 DEF FirstReturned, Return
  <2> QED
    BY <1>8, <2>1 DEF FirstReturned, SaveShape
<1> QED
  BY <1>a, <1>1, <1>2, <1>3, <1>4, <1>5, <1>6, <1>7, <1>8 DEF Session

-----------------------------------------------------------------------------
(* One client                                                                *)

(* Somebody who is alone on the computer runs one process.                   *)
LEMMA AloneFacts ==
  ASSUME TInv, KnownUsers, Alone, NEW p \in Procs, Running(p)
  PROVE  \A q \in Procs \ {p} : ~Running(q) /\ pc[q] = "idle"
<1>1. \A q \in Procs : Running(q) => <<q, user[q]>> = <<p, user[p]>>
  BY DEF KnownUsers, Alone
<1> QED
  BY <1>1 DEF TInv, TypeOK, SaveShape

(* With one client, the file holds what memory holds, but for the pin being  *)
(* saved, and everything returned was in the file first.                     *)
LEMMA ClientStep == IInv /\ [Next]_vars => OneClient'
<1> SUFFICES ASSUME IInv, [Next]_vars, Alone' PROVE (MemoryIsFile /\ TmpIsMemory
                                                       /\ GotIsFile /\ FileHasIds)'
  BY DEF OneClient
<1> DEFINE Goal == MemoryIsFile /\ TmpIsMemory /\ GotIsFile /\ FileHasIds
<1>0. CASE UNCHANGED vars
  BY <1>0 DEF vars, client, IInv, OneClient, Alone, MemoryIsFile, TmpIsMemory,
              GotIsFile, FileHasIds, Running, Saving
<1>a. SUFFICES ASSUME NEW p \in Procs, Session(p) PROVE Goal'
  BY <1>0 DEF Next
<1> USE DEF IInv, TInv, TypeOK
<1>b. users \subseteq users'
  BY <1>a DEF Session, Start, Stop, FirstFetch, FetchAgain, WriteTmp, Rename,
              SaveFails, FirstReturned
<1>c. Alone /\ Goal
  BY <1>b DEF Alone, OneClient
<1>d. Running(p) => \A q \in Procs \ {p} : ~Running(q) /\ pc[q] = "idle"
  BY <1>c, AloneFacts
<1>1. ASSUME NEW o \in Owners, Start(p, o) PROVE Goal'
  <2>1. <<p, o>> \in users'
    BY <1>1 DEF Start
  <2>2. \A q \in Procs : ~Running(q) /\ pc[q] = "idle"
    BY <1>1, <1>b, <2>1 DEF Alone, KnownUsers, Running, SaveShape, Start
  <2>3. file.mac \in {o, None}
    BY <1>b, <2>1 DEF Alone, KnownUsers
  <2>4. mem' = [mem EXCEPT ![p] = file.pins] /\ user' = [user EXCEPT ![p] = o]
    BY <1>1, <2>3 DEF Start, LoadPins
  <2>5. MemoryIsFile'
    BY <1>1, <1>c, <2>2, <2>4 DEF MemoryIsFile, Start, Running, Saving, FileHasIds, File
  <2> QED
    BY <1>1, <1>c, <2>2, <2>5 DEF Start, TmpIsMemory, GotIsFile, FileHasIds
<1>2. ASSUME Stop(p) PROVE Goal'
  BY <1>2, <1>c DEF Stop, MemoryIsFile, TmpIsMemory, GotIsFile, FileHasIds, Running, Saving
<1>3. ASSUME NEW x \in Peers, NEW a \in Answer, FirstFetch(p, x, a) PROVE Goal'
  <2>1. Running(p) /\ ~Pinned(file.pins[x])
    BY <1>3, <1>c DEF FirstFetch, Idle, MemoryIsFile, Running, Pinned
  <2>2. MemoryIsFile'
    BY <1>3, <1>c, <2>1, NoneAssumption
       DEF FirstFetch, Idle, MemoryIsFile, Running, Saving, Pinned, Answer
  <2> QED
    BY <1>3, <1>c, <2>2 DEF FirstFetch, TmpIsMemory, GotIsFile, FileHasIds
<1>4. ASSUME NEW x \in Peers, NEW a \in Answer, FetchAgain(p, x, a) PROVE Goal'
  <2>1. CASE ~Matches(mem[p][x], a)
    BY <1>4, <1>c, <2>1 DEF FetchAgain, MemoryIsFile, TmpIsMemory, GotIsFile,
                            FileHasIds, Running, Saving
  <2>2. CASE Matches(mem[p][x], a)
    <3>1. Running(p) /\ user[p] \in Owners /\ ~Saving(p, x) /\ Pinned(mem[p][x])
      BY <1>4 DEF FetchAgain, Idle, Running, Saving
    <3>2. /\ file.pins[x].key = a.key
          /\ x \notin old => file.pins[x].id = a.id /\ mem[p][x].id = a.id
      BY <1>c, <2>2, <3>1 DEF MemoryIsFile, Matches
    <3>3. /\ mem'[p][x].key = mem[p][x].key
          /\ x \notin old => mem'[p][x].id = mem[p][x].id
          /\ \A y \in Peers \ {x} : mem'[p][y] = mem[p][y]
          /\ \A q \in Procs \ {p} : mem'[q] = mem[q]
      BY <1>4, <2>2, <3>2 DEF FetchAgain, Matches
    <3>4. MemoryIsFile'
      BY <1>4, <1>c, <3>3 DEF FetchAgain, MemoryIsFile, Running, Saving, Pinned
    <3>5. TmpIsMemory'
      BY <1>4, <1>c, <3>3 DEF FetchAgain, Idle, TmpIsMemory
    <3>6. \A o \in Owners, y \in Peers : \A b \in got'[o][y] :
            b \in got[o][y] \/ (y = x /\ b = a)
      BY <1>4, <2>2, <3>1 DEF FetchAgain, Return
    <3>7. GotIsFile'
      BY <1>4, <1>c, <3>2, <3>6 DEF FetchAgain, GotIsFile
    <3> QED
      BY <1>4, <1>c, <3>4, <3>5, <3>7 DEF FetchAgain, FileHasIds
  <2> QED
    BY <2>1, <2>2
<1>5. ASSUME WriteTmp(p) PROVE Goal'
  <2>1. Running(p)
    BY <1>5 DEF WriteTmp, SaveShape
  <2>2. MemoryIsFile'
    BY <1>5, <1>c DEF WriteTmp, MemoryIsFile, Running, Saving
  <2>3. TmpIsMemory'
    BY <1>5, <1>d, <2>1 DEF WriteTmp, TmpIsMemory
  <2> QED
    BY <1>5, <1>c, <2>2, <2>3 DEF WriteTmp, GotIsFile, FileHasIds
<1>6. ASSUME Rename(p) PROVE Goal'
  <2>1. Running(p)
    BY <1>6 DEF Rename, SaveShape
  <2>2. file'.pins = mem[p]
    BY <1>6, <1>c DEF Rename, TmpIsMemory
  <2>3. MemoryIsFile'
    BY <1>6, <1>c, <1>d, <2>1, <2>2 DEF Rename, MemoryIsFile, Running, Saving
  <2>4. TmpIsMemory'
    BY <1>6 DEF Rename, TmpIsMemory, NoFile
  <2>5. GotIsFile'
    <3> SUFFICES ASSUME NEW o \in Owners, NEW x \in Peers, NEW a \in got[o][x]
                 PROVE  /\ mem[p][x].key = a.key
                        /\ x \notin old => mem[p][x].id = a.id
      BY <1>6, <2>2 DEF Rename, GotIsFile
    <3>1. Pinned(file.pins[x])
      BY <1>c, NoneAssumption DEF GotIsFile, Answer, Pinned
    <3> QED
      BY <1>c, <2>1, <3>1 DEF MemoryIsFile, GotIsFile
  <2>6. FileHasIds'
    BY <1>6, <1>c, <2>1, <2>2 DEF Rename, MemoryIsFile, FileHasIds
  <2> QED
    BY <2>3, <2>4, <2>5, <2>6
<1>7. ASSUME SaveFails(p) PROVE Goal'
  <2>1. Running(p) /\ Saving(p, new[p]) /\ new[p] \in Peers
    BY <1>7 DEF SaveFails, SaveShape, Saving
  <2>2. MemoryIsFile'
    BY <1>7, <1>c, <2>1 DEF SaveFails, MemoryIsFile, Running, Saving, ErasePin, NoPin, Pinned
  <2>3. TmpIsMemory'
    BY <1>7, <1>d, <2>1 DEF SaveFails, TmpIsMemory
  <2> QED
    BY <1>7, <1>c, <2>2, <2>3 DEF SaveFails, GotIsFile, FileHasIds
<1>8. ASSUME FirstReturned(p) PROVE Goal'
  <2> DEFINE pin == mem[p][new[p]]
             a == [key |-> pin.key, id |-> pin.id]
  <2>1. /\ Running(p) /\ new[p] \in Peers /\ user[p] \in Owners
        /\ Pinned(pin) /\ ~Saving(p, new[p])
    BY <1>8 DEF FirstReturned, SaveShape, Saving, Running
  <2>2. /\ file.pins[new[p]].key = pin.key
        /\ new[p] \notin old => file.pins[new[p]].id = pin.id
    BY <1>c, <2>1 DEF MemoryIsFile
  <2>3. \A o \in Owners, y \in Peers : \A b \in got'[o][y] :
          b \in got[o][y] \/ (y = new[p] /\ b = a)
    BY <1>8, <2>1 DEF FirstReturned, Return
  <2>4. GotIsFile'
    BY <1>8, <1>c, <2>2, <2>3 DEF FirstReturned, GotIsFile
  <2>5. MemoryIsFile'
    BY <1>8, <1>c DEF FirstReturned, MemoryIsFile, Running, Saving
  <2>6. TmpIsMemory'
    BY <1>8, <1>c DEF FirstReturned, TmpIsMemory
  <2> QED
    BY <1>8, <1>c, <2>4, <2>5, <2>6 DEF FirstReturned, FileHasIds
<1> QED
  BY <1>a, <1>1, <1>2, <1>3, <1>4, <1>5, <1>6, <1>7, <1>8 DEF Session

-----------------------------------------------------------------------------
(* Theorems                                                                  *)

(* An older client may have left pins without an id and without a trailer.   *)
LEMMA IInvInit == Init => IInv
<1> SUFFICES ASSUME Init PROVE IInv
  OBVIOUS
<1>1. PICK key \in [old -> Keys] :
        file = [there |-> old # {}, mac |-> None,
                pins |-> [x \in Peers |->
                            IF x \in old THEN [NoPin EXCEPT !.key = key[x]] ELSE NoPin]]
  BY DEF Init
<1>2. \A x \in Peers : /\ file.pins[x].by = None
                       /\ x \notin old => ~Pinned(file.pins[x])
  BY <1>1 DEF NoPin, Pinned
<1>3. \A p \in Procs : user[p] = None /\ pc[p] = "idle"
  BY DEF Init
<1>4. OwnPins
  BY <1>2, <1>3 DEF OwnPins, NoForeignPins, Init, NoFile, NoPins, NoPin
<1>5. KnownUsers
  BY <1>1, <1>3 DEF KnownUsers, Init, NoFile, Running
<1>6. OneClient
  BY <1>2, <1>3 DEF Init, OneClient, MemoryIsFile, TmpIsMemory, GotIsFile, FileHasIds,
                    Running
<1> QED
  BY TypeInit, <1>4, <1>5, <1>6 DEF IInv

(* The invariant of the module holds in every state.                         *)
LEMMA PinsInvariant == Spec => []IInv
<1>1. IInv /\ [Next]_vars => IInv'
  BY TypeStep, OwnStep, UsersStep, ClientStep DEF IInv
<1> QED
  BY IInvInit, <1>1, PTL DEF Spec

(* Every variable of the pins stays within its type.                         *)
THEOREM TypesOfPins == Spec => []TypeOK
<1>1. IInv => TypeOK
  BY DEF IInv, TInv
<1> QED
  BY PinsInvariant, <1>1, PTL

(* No interleaving of saves makes one user trust what another one was told,  *)
(* for any number of users and processes that share the file.                *)
THEOREM PinsAreOwn == Spec => []NoForeignPins
<1>1. IInv => NoForeignPins
  BY DEF IInv, OwnPins
<1> QED
  BY PinsInvariant, <1>1, PTL

(* One user in one process at a time gets one key per peer for ever, through *)
(* failed saves, crashes and restarts.                                       *)
THEOREM PinsGiveOneKey == Spec => []OneKey
<1>1. IInv => OneKey
  BY DEF IInv, OneClient, GotIsFile, OneKey
<1> QED
  BY PinsInvariant, <1>1, PTL

(* And one id, for every peer whose pin was never without one.               *)
THEOREM PinsGiveOneId == Spec => []OneId
<1>1. IInv => OneId
  BY DEF IInv, OneClient, GotIsFile, OneId
<1> QED
  BY PinsInvariant, <1>1, PTL
=============================================================================
