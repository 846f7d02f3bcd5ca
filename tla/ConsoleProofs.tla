----------------------------- MODULE ConsoleProofs ----------------------------
(* Proofs about Console, for any number of consoles, workers, names,         *)
(* passwords, keys and requests that arrive late.                            *)
EXTENDS Console, Flattening, TLAPS

\* The server hands out this key for the user.
Row(n, key) == users[n] # NoUser /\ users[n].pub = key

\* A bundle that the row of the user may hold.
BundleOf(wrap, n) == wrap \in Wrap /\ wrap.form = "bundle" /\ Row(n, wrap.key)

\* A worker has been told that the token's session is over, or the token has expired.
Told(k) ==
  /\ session[k].of # None
  /\ ~session[k].live \/ k \in forgotten \/ \E x \in Workers : k \in blocked[x]

Got(c) == answer[c] # NoAnswer /\ answer[c].status \in {200, 201}

\* What Auth and main put into a request, a change carrying no bundle; and what is
\* left of one that is half done.
RequestShape(r) ==
  /\ r.kind = "register" =>
       /\ r.name \in Names /\ r.pw \in Passwords /\ r.pub \in Keys /\ r.wrap \in Wrap
       /\ r.wrap.form = "bundle" /\ r.wrap.key = r.pub
  /\ r.kind = "login" => r.name \in Names /\ r.pw \in Passwords
  /\ r.kind = "change" => r.wrap \in Wrap /\ r.wrap.form = "flat"
  /\ r.kind = "write" =>
       /\ r \in Write /\ (r.wrap = None => r.found # None)
       /\ r.wrap = None \/ BundleOf(r.wrap, r.name)
       /\ r.found = None \/ BundleOf(r.found, r.name)

ReqShape(c) == req[c] # NoRequest => RequestShape(req[c])

\* No answer is left over for the next call.
Idle(c) ==
  pc[c] \in {"menu", "prompt", "main", "exit"} => req[c] = NoRequest /\ answer[c] = NoAnswer

Registering(c) ==
  pc[c] = "register" =>
    /\ typed[c] \in Creds /\ pair[c] \in Keys /\ choice[c] = "register"
    /\ req[c] # NoRequest =>
         req[c].kind = "register" /\ req[c].name = typed[c].name /\ req[c].pub = pair[c]
    /\ Got(c) => Row(typed[c].name, pair[c])

LoggingIn(c) ==
  pc[c] = "login" =>
    /\ typed[c] \in Creds
    /\ choice[c] = "register" => pair[c] \in Keys /\ Row(typed[c].name, pair[c])
    /\ req[c] # NoRequest =>
         /\ req[c].kind \in {"login", "write"} /\ req[c].name = typed[c].name
         /\ req[c].kind = "write" => req[c].found # None
    /\ Got(c) =>
         /\ answer[c].token \in Tokens /\ session[answer[c].token].of = typed[c].name
         /\ BundleOf(answer[c].wrap, typed[c].name)

LoggedIn(c) ==
  c \in Inside =>
    /\ auth[c] \in Auth /\ client[c] \in [key: Keys, name: Names]
    /\ client[c].name = auth[c].name /\ sessionSk[c] = client[c].key
    /\ Row(client[c].name, client[c].key)
    /\ session[auth[c].token].of = client[c].name

Leaving(c) ==
  pc[c] \in {"leave", "switch"} =>
    /\ req[c] # NoRequest => req[c].kind = "logout" /\ req[c].token = auth[c].token
    /\ Got(c) => Told(auth[c].token)

LoggedOff(c) ==
  pc[c] \in {"menu", "exit"} /\ auth[c] # NoAuth =>
    auth[c] \in Auth /\ (auth[c].token \in warned \/ Told(auth[c].token))

Shape(c) ==
  Idle(c) /\ Registering(c) /\ LoggingIn(c) /\ LoggedIn(c) /\ Leaving(c) /\ LoggedOff(c)

IInv ==
  /\ TypeOK
  /\ RowKeepsKey
  /\ \A r \in late : RequestShape(r)
  /\ \A c \in Consoles : ReqShape(c) /\ Shape(c)

-----------------------------------------------------------------------------
(* Data                                                                      *)

(* The records that stand for nothing are of no other kind.                  *)
LEMMA NothingTypes ==
  /\ NoUser \notin User
  /\ NoAnswer \notin Answer /\ NoAnswer # NothingRead
  /\ NoAuth \notin Auth
  /\ NoRequest \notin Request \cup Write
  BY NoneAssumption
     DEF NoUser, User, NoAnswer, NothingRead, Answer, NoAuth, Auth, NoRequest, Request, Write

(* However an answer is cut, its status is the one sent, or 0.               *)
LEMMA ResponseStatus ==
  ASSUME NEW c \in Consoles, NEW r \in Responses(c)
  PROVE  r.status \in {0, answer[c].status}
<1>1. ASSUME NEW framing, NEW s, NEW x \in Reads(framing, s)
      PROVE  x.status \in {0, s}
  BY <1>1 DEF Reads, ParseResponse, Failed
<1> QED
  BY <1>1 DEF Responses, Failed

(* A response that reads as success was one.                                 *)
LEMMA SuccessIsGot ==
  ASSUME TypeOK, NEW c \in Consoles, answer[c] # NoAnswer,
         NEW r \in Responses(c), Succeeded(r)
  PROVE  Got(c) /\ answer[c] \in Answer
<1>1. answer[c] \in Answer \cup {NothingRead}
  BY DEF TypeOK
<1>2. r.status = answer[c].status /\ r.status # 0
  BY ResponseStatus DEF Succeeded
<1>3. answer[c] \in Answer
  BY <1>1, <1>2 DEF NothingRead
<1>4. answer[c].status \in Statuses
  BY <1>3 DEF Answer
<1> QED
  BY <1>2, <1>3, <1>4 DEF Got, Statuses, Succeeded

(* A login asks as its name says.                                            *)
LEMMA AskLoginTypes ==
  ASSUME NEW n \in Names, NEW pw \in Passwords
  PROVE  /\ AskLogin(n, pw) \in Request
         /\ AskLogin(n, pw).kind = "login"
         /\ AskLogin(n, pw).name = n /\ AskLogin(n, pw).pw = pw
  BY DEF AskLogin, Blank, Request

-----------------------------------------------------------------------------
(* What lasts                                                                *)

\* Accounts keep their keys.
RowsLast == \A n \in Names, key \in Keys : Row(n, key) => Row(n, key)'

\* Tokens keep their users, and an ended session is not begun anew.
TokensLast ==
  /\ \A k \in Tokens : session[k].of # None => session'[k].of = session[k].of
  /\ \A k \in Tokens : Told(k) => Told(k)'

Lasts == RowsLast /\ TokensLast /\ warned \subseteq warned'

\* What a console keeps, with its call.
Own(c) ==
  <<pc[c], choice[c], typed[c], pair[c], auth[c], client[c], sessionSk[c], req[c],
    answer[c]>>

(* What a bundle may be of stays so.                                         *)
LEMMA BundleLasts ==
  ASSUME RowsLast, NEW n \in Names, NEW wrap, BundleOf(wrap, n)
  PROVE  BundleOf(wrap, n)'
<1>1. wrap.key \in Keys
  BY DEF BundleOf, Wrap
<1> QED
  BY <1>1 DEF BundleOf, RowsLast

(* A request stays as it should be, whatever is done to the tables.          *)
LEMMA RequestLasts ==
  ASSUME RowsLast, NEW r, RequestShape(r)
  PROVE  RequestShape(r)'
<1>1. CASE r.kind # "write"
  BY <1>1 DEF RequestShape
<1>2. CASE r.kind = "write"
  <2>1. r \in Write /\ r.name \in Names
    BY <1>2 DEF RequestShape, Write
  <2>2. r.wrap = None \/ BundleOf(r.wrap, r.name)'
    BY <1>2, <2>1, BundleLasts DEF RequestShape
  <2>3. r.found = None \/ BundleOf(r.found, r.name)'
    BY <1>2, <2>1, BundleLasts DEF RequestShape
  <2> QED
    BY <1>2, <2>2, <2>3 DEF RequestShape
<1> QED
  BY <1>1, <1>2

(* A console that does nothing is not put in the wrong by others.            *)
LEMMA ShapeKept ==
  ASSUME NEW c \in Consoles, TypeOK, Shape(c), ReqShape(c), Lasts, Own(c)' = Own(c)
  PROVE  Shape(c)' /\ ReqShape(c)'
<1> USE DEF Own
<1>1. Idle(c)'
  BY DEF Shape, Idle
<1>2. Registering(c)'
  BY DEF Shape, Registering, Got, Lasts, RowsLast, Creds
<1>3. LoggingIn(c)'
  <2>1. Got(c)' = Got(c)
    BY DEF Got
  <2>2. ASSUME pc[c] = "login", Got(c)
        PROVE  /\ session'[answer[c].token].of = typed[c].name
               /\ BundleOf(answer[c].wrap, typed[c].name)'
    <3>1. typed[c].name \in Names /\ typed[c].name # None
      BY <2>2, NoneAssumption DEF Shape, LoggingIn, Creds
    <3>2. session'[answer[c].token].of = typed[c].name
      BY <2>2, <3>1 DEF Shape, LoggingIn, Lasts, TokensLast
    <3>3. BundleOf(answer[c].wrap, typed[c].name)
      BY <2>2 DEF Shape, LoggingIn
    <3>4. \A wrap, n : n \in Names /\ BundleOf(wrap, n) => BundleOf(wrap, n)'
      BY BundleLasts DEF Lasts
    <3> QED
      BY <3>1, <3>2, <3>3, <3>4
  <2>3. pc[c] = "login" /\ choice[c] = "register" => Row(typed[c].name, pair[c])'
    BY DEF Shape, LoggingIn, Lasts, RowsLast, Creds
  <2> QED
    BY <2>1, <2>2, <2>3 DEF Shape, LoggingIn
<1>4. LoggedIn(c)'
  <2>1. c \in Inside' <=> c \in Inside
    BY DEF Inside
  <2>2. c \in Inside => /\ client[c].name \in Names /\ client[c].name # None
                        /\ client[c].key \in Keys /\ auth[c].token \in Tokens
    BY NoneAssumption DEF Shape, LoggedIn, Auth
  <2> QED
    BY <2>1, <2>2 DEF Shape, LoggedIn, Lasts, RowsLast, TokensLast
<1>5. Leaving(c)'
  <2>1. pc[c] \in {"leave", "switch"} => auth[c].token \in Tokens
    BY DEF Shape, LoggedIn, Auth, Inside
  <2>2. \A k \in Tokens : Told(k) => Told(k)'
    BY DEF Lasts, TokensLast
  <2> QED
    BY <2>1, <2>2 DEF Shape, Leaving, Got
<1>6. LoggedOff(c)'
  <2>1. \A k \in Tokens : Told(k) => Told(k)'
    BY DEF Lasts, TokensLast
  <2> QED
    BY <2>1 DEF Shape, LoggedOff, Lasts, Auth
<1>7. ReqShape(c)'
  <2>1. \A r : RequestShape(r) => RequestShape(r)'
    BY RequestLasts DEF Lasts
  <2> QED
    BY <2>1 DEF ReqShape
<1> QED
  BY <1>1, <1>2, <1>3, <1>4, <1>5, <1>6, <1>7 DEF Shape

(* The initial state.                                                        *)
LEMMA ConsoleInit == Init => IInv
<1> SUFFICES ASSUME Init PROVE IInv
  OBVIOUS
<1>1. TypeOK
  BY DEF Init, TypeOK
<1>2. RowKeepsKey /\ \A r \in late : RequestShape(r)
  BY DEF Init, RowKeepsKey
<1>3. ASSUME NEW c \in Consoles PROVE ReqShape(c) /\ Shape(c)
  BY DEF Init, ReqShape, Shape, Idle, Registering, LoggingIn, LoggedIn, Leaving, LoggedOff,
         Inside
<1> QED
  BY <1>1, <1>2, <1>3 DEF IInv

-----------------------------------------------------------------------------
(* The server                                                                *)

\* The tables, and what lasts of them.
RowsOK == users' \in [Names -> User \cup {NoUser}] /\ RowKeepsKey' /\ RowsLast

TokensOK ==
  /\ session' \in [Tokens -> [of: Names \cup {None}, live: BOOLEAN]]
  /\ blocked' \in [Workers -> SUBSET Tokens] /\ forgotten' \subseteq Tokens
  /\ TokensLast

TablesOK == RowsOK /\ TokensOK

(* Where the tables are not written they are as they were.                   *)
LEMMA SameTables ==
  ASSUME IInv
  PROVE  /\ users' = users => RowsOK
         /\ UNCHANGED tokens => TokensOK
<1>1. users' = users => RowsOK
  BY DEF IInv, TypeOK, RowsOK, RowKeepsKey, RowsLast, Row
<1>2. UNCHANGED tokens => TokensOK
  BY DEF IInv, TypeOK, tokens, TokensOK, TokensLast, Told
<1> QED
  BY <1>1, <1>2

(* A row holds a bundle of its user.                                         *)
LEMMA RowHolds ==
  ASSUME IInv, NEW n \in Names, users[n] # NoUser
  PROVE  users[n] \in User /\ BundleOf(users[n].wrap, n)
<1>1. users[n] \in User
  BY DEF IInv, TypeOK
<1> QED
  BY <1>1 DEF IInv, RowKeepsKey, BundleOf, Row, User

(* A row is written with a bundle of its user.                               *)
LEMMA WrittenRow ==
  ASSUME IInv, NEW n \in Names, NEW row \in User, users' = [users EXCEPT ![n] = row],
         row.wrap.form = "bundle", row.wrap.key = row.pub,
         users[n] = NoUser \/ users[n].pub = row.pub
  PROVE  RowsOK /\ users'[n] = row /\ Row(n, row.pub)'
<1>1. /\ users' \in [Names -> User \cup {NoUser}] /\ users'[n] = row /\ row # NoUser
      /\ \A m \in Names : m # n => users'[m] = users[m]
  BY NothingTypes DEF IInv, TypeOK
<1>2. RowKeepsKey'
  BY <1>1 DEF IInv, RowKeepsKey
<1>3. RowsLast
  BY <1>1 DEF RowsLast, Row
<1> QED
  BY <1>1, <1>2, <1>3 DEF RowsOK, Row

(* A token is issued once.                                                   *)
LEMMA IssueKeeps ==
  ASSUME IInv, NEW n \in Names, NEW k, Issue(n, k)
  PROVE  TokensOK /\ k \in Tokens /\ session'[k].of = n
<1>1. /\ TypeOK /\ k \in Tokens /\ session[k].of = None
      /\ session' = [session EXCEPT ![k] = [of |-> n, live |-> TRUE]]
      /\ UNCHANGED <<blocked, forgotten>>
  BY DEF IInv, Issue
<1>2. /\ session' \in [Tokens -> [of: Names \cup {None}, live: BOOLEAN]]
      /\ session'[k].of = n
      /\ \A j \in Tokens : j # k => session'[j] = session[j]
  BY <1>1 DEF TypeOK
<1>3. TokensLast
  BY <1>1, <1>2 DEF TokensLast, Told
<1> QED
  BY <1>1, <1>2, <1>3 DEF TokensOK, TypeOK

(* An account is made with the bundle of its key.                            *)
LEMMA RegisterKeeps ==
  ASSUME IInv, NEW r, RequestShape(r), NEW s, NEW k, Register(r, s, k)
  PROVE  /\ TablesOK /\ k = None
         /\ s \in {200, 201} => Row(r.name, r.pub)'
<1>1. UNCHANGED tokens /\ k = None
  BY DEF Register
<1>2. CASE s \in {200, 201}
  <2> DEFINE row == [pw |-> r.pw, pub |-> r.pub, wrap |-> r.wrap]
  <2>1. /\ r.name \in Names /\ r.pw \in Passwords /\ r.pub \in Keys /\ r.wrap \in Wrap
        /\ r.wrap.form = "bundle" /\ r.wrap.key = r.pub
    BY DEF Register, RequestShape
  <2>2. row \in User /\ row.wrap.form = "bundle" /\ row.wrap.key = row.pub /\ row.pub = r.pub
    BY <2>1 DEF User
  <2>3. users' = [users EXCEPT ![r.name] = row] /\ users[r.name] = NoUser
    BY <1>2 DEF Register
  <2> HIDE DEF row
  <2>4. RowsOK /\ Row(r.name, r.pub)'
    BY <2>1, <2>2, <2>3, WrittenRow
  <2> QED
    BY <1>1, <2>4, SameTables DEF TablesOK
<1>3. CASE s \notin {200, 201}
  <2>1. users' = users
    BY <1>3 DEF Register
  <2> QED
    BY <1>1, <1>3, <2>1, SameTables DEF TablesOK
<1> QED
  BY <1>2, <1>3

(* Only a row has a password that can be right.                              *)
LEMMA RightPassword ==
  ASSUME IInv, NEW n \in Names, NEW pw \in Passwords, users[n].pw = pw
  PROVE  users[n] # NoUser
  BY NoneAssumption DEF NoUser

(* A login takes a new token and changes no account.                         *)
LEMMA LoginKeeps ==
  ASSUME IInv, NEW r, RequestShape(r), NEW s, NEW k, Login(r, s, k)
  PROVE  /\ TablesOK /\ users' = users
         /\ s \notin {200, 201} => k = None
         /\ s \in {200, 201} =>
              /\ k \in Tokens /\ session'[k].of = r.name
              /\ users[r.name] \in User /\ BundleOf(users[r.name].wrap, r.name)
<1>1. users' = users /\ r.name \in Names /\ r.pw \in Passwords
  BY DEF Login, RequestShape
<1>2. CASE s = 200
  <2>1. users[r.name].pw = r.pw /\ Issue(r.name, k)
    BY <1>2 DEF Login
  <2>2. users[r.name] # NoUser
    BY <1>1, <2>1, RightPassword
  <2> QED
    BY <1>1, <1>2, <2>1, <2>2, SameTables, IssueKeeps, RowHolds DEF TablesOK
<1>3. CASE s # 200
  <2>1. UNCHANGED tokens /\ s = 401 /\ k = None
    BY <1>3 DEF Login
  <2> QED
    BY <1>1, <2>1, SameTables DEF TablesOK
<1> QED
  BY <1>2, <1>3

(* A logout that is answered has reached a worker's blocklist.               *)
LEMMA LogoutKeeps ==
  ASSUME IInv, NEW x \in Workers, NEW r, NEW s, NEW k, Logout(x, r, s, k)
  PROVE  /\ TablesOK /\ k = None
         /\ s \in {200, 201} => r.token \in Tokens /\ r.token \in blocked'[x]
                                /\ session' = session
<1>1. UNCHANGED <<users, session, forgotten>> /\ k = None /\ TypeOK
  BY DEF Logout, IInv
<1>2. CASE s = 200
  <2>1. r.token \in Tokens /\ blocked' = [blocked EXCEPT ![x] = @ \cup {r.token}]
    BY <1>2 DEF Logout, Accepted
  <2>2. /\ blocked' \in [Workers -> SUBSET Tokens] /\ r.token \in blocked'[x]
        /\ \A y \in Workers : blocked[y] \subseteq blocked'[y]
    BY <1>1, <2>1 DEF TypeOK
  <2>3. TokensLast
    BY <1>1, <2>2 DEF TokensLast, Told
  <2> QED
    BY <1>1, <1>2, <2>1, <2>2, <2>3, SameTables DEF TablesOK, TokensOK, TypeOK
<1>3. CASE s # 200
  <2>1. blocked' = blocked /\ s = 401
    BY <1>3 DEF Logout
  <2> QED
    BY <1>1, <2>1, SameTables DEF TablesOK, tokens
<1> QED
  BY <1>2, <1>3

(* The UPDATE leaves the public key, and a bundle of it.                     *)
LEMMA UpdateKeeps ==
  ASSUME IInv, NEW w, RequestShape(w), NEW k, Update(w, k)
  PROVE  /\ TablesOK /\ w \in Write
         /\ w.found = None => k = None
         /\ w.found # None => k \in Tokens /\ session'[k].of = w.name
                              /\ BundleOf(w.found, w.name)
<1>1. /\ w \in Write /\ (w.wrap = None => w.found # None)
      /\ w.wrap = None \/ BundleOf(w.wrap, w.name)
      /\ w.found = None \/ BundleOf(w.found, w.name)
  BY DEF Update, RequestShape
<1>2. w.name \in Names /\ w.pw \in Passwords /\ users[w.name] # NoUser
  BY <1>1 DEF Write, BundleOf, Row
<1>3. users[w.name] \in User /\ BundleOf(users[w.name].wrap, w.name)
  BY <1>2, RowHolds
<1> DEFINE kept == IF w.wrap = None THEN users[w.name].wrap ELSE w.wrap
           row  == [pw |-> w.pw, pub |-> users[w.name].pub, wrap |-> kept]
<1>4. BundleOf(kept, w.name)
  BY <1>1, <1>3
<1> HIDE DEF kept
<1>5. /\ row \in User /\ row.wrap.form = "bundle" /\ row.wrap.key = row.pub
      /\ row.pub = users[w.name].pub
  BY <1>2, <1>3, <1>4 DEF User, BundleOf, Row
<1>6. users' = [users EXCEPT ![w.name] = row]
  BY DEF Update, kept
<1> HIDE DEF row
<1>7. RowsOK
  BY <1>2, <1>5, <1>6, WrittenRow
<1>8. CASE w.found = None
  <2>1. k = None /\ UNCHANGED tokens
    BY <1>8 DEF Update
  <2> QED
    BY <1>1, <1>7, <1>8, <2>1, SameTables DEF TablesOK
<1>9. CASE w.found # None
  <2>1. Issue(w.name, k)
    BY <1>9 DEF Update
  <2> QED
    BY <1>1, <1>2, <1>7, <1>9, <2>1, IssueKeeps DEF TablesOK
<1> QED
  BY <1>8, <1>9

(* Which handler a request is for.                                           *)
LEMMA EndsAre ==
  ASSUME NEW r, NEW s, NEW k, Ends(r, s, k)
  PROVE  \/ r.kind = "register" /\ Register(r, s, k)
         \/ r.kind = "login" /\ Login(r, s, k)
         \/ r.kind = "logout" /\ \E x \in Workers : Logout(x, r, s, k)
         \/ r.kind = "change" /\ k = None /\ UNCHANGED <<users, tokens>>
         \/ r.kind = "write" /\ Update(r, k)
<1>1. CASE \E x \in Workers : Handle(x, r, s, k)
  BY <1>1 DEF Handle, Register, Login, Logout, Refuse
<1>2. CASE Update(r, k)
  BY <1>2 DEF Update
<1> QED
  BY <1>1, <1>2 DEF Ends

(* A request that is handled keeps the tables, and is answered in its type.  *)
LEMMA EndsKeeps ==
  ASSUME IInv, NEW r, RequestShape(r), NEW s \in Statuses, NEW k \in Tokens \cup {None},
         Ends(r, s, k)
  PROVE  TablesOK /\ AnswerTo(r, s, k) \in Answer
<1> DEFINE found == IF r.kind = "write" THEN r.found ELSE users[r.name].wrap
<1>1. TablesOK /\ (k # None => found \in Wrap)
  <2>1. CASE r.kind = "register" /\ Register(r, s, k)
    BY <2>1, RegisterKeeps
  <2>2. CASE r.kind = "login" /\ Login(r, s, k)
    BY <2>2, LoginKeeps DEF User
  <2>3. CASE r.kind = "logout" /\ \E x \in Workers : Logout(x, r, s, k)
    BY <2>3, LogoutKeeps
  <2>4. CASE r.kind = "change" /\ k = None /\ UNCHANGED <<users, tokens>>
    BY <2>4, SameTables DEF TablesOK
  <2>5. CASE r.kind = "write" /\ Update(r, k)
    BY <2>5, UpdateKeeps DEF BundleOf
  <2> QED
    BY <2>1, <2>2, <2>3, <2>4, <2>5, EndsAre
<1>2. AnswerTo(r, s, k) = [status |-> s, token |-> k, wrap |-> IF k = None THEN None ELSE found]
  BY DEF AnswerTo
<1> HIDE DEF found
<1> QED
  BY <1>1, <1>2 DEF Answer

(* Only a login is left half done: the console's change carries no bundle.   *)
LEMMA WriteOfIs ==
  ASSUME IInv, NEW r, RequestShape(r), Rehashes(r) \/ Changes(r)
  PROVE  /\ r.kind = "login"
         /\ WriteOf(r) \in Write /\ RequestShape(WriteOf(r))
         /\ WriteOf(r).kind = "write" /\ WriteOf(r).name = r.name /\ WriteOf(r).found # None
<1>1. ~Changes(r)
  BY DEF Changes, RequestShape, WellFormed
<1>2. r.kind = "login" /\ users[r.name].pw = r.pw /\ r.name \in Names /\ r.pw \in Passwords
  BY <1>1 DEF Rehashes, RequestShape
<1>3. users[r.name] \in User /\ BundleOf(users[r.name].wrap, r.name)
  BY <1>2, RightPassword, RowHolds
<1>4. users[r.name].wrap \in Wrap /\ users[r.name].wrap # None
  BY <1>3, NoneAssumption DEF BundleOf
<1>5. WriteOf(r) = [kind |-> "write", name |-> r.name, pw |-> r.pw, wrap |-> None,
                    found |-> users[r.name].wrap]
  BY <1>2 DEF WriteOf
<1>6. WriteOf(r) \in Write
  BY <1>2, <1>4, <1>5 DEF Write
<1>7. /\ WriteOf(r).kind = "write" /\ WriteOf(r).name = r.name /\ WriteOf(r).wrap = None
      /\ WriteOf(r).found = users[r.name].wrap
  BY <1>5
<1>8. RequestShape(WriteOf(r))
  BY <1>3, <1>4, <1>6, <1>7 DEF RequestShape
<1> QED
  BY <1>2, <1>4, <1>6, <1>7, <1>8

(* Whoever else waits for something is not disturbed.                        *)
LEMMA TablesLast ==
  ASSUME TablesOK, warned \subseteq warned'
  PROVE  Lasts
  BY DEF TablesOK, RowsOK, TokensOK, Lasts

(* Tokens that expire, or that a restart forgets, are not taken for sessions *)
(* that nobody ended.                                                        *)
LEMMA ExpireKeeps ==
  ASSUME IInv, NEW k \in Tokens, Expire(k)
  PROVE  TablesOK
<1>1. /\ TypeOK /\ users' = users
      /\ session' = [session EXCEPT ![k] = [of |-> session[k].of, live |-> FALSE]]
      /\ blocked' = [x \in Workers |-> blocked[x] \ {k}] /\ forgotten' = forgotten \ {k}
  BY DEF IInv, Expire
<1>2. /\ session'[k].of = session[k].of /\ ~session'[k].live
      /\ \A j \in Tokens : j # k => session'[j] = session[j]
      /\ session' \in [Tokens -> [of: Names \cup {None}, live: BOOLEAN]]
  <2>1. session[k].of \in Names \cup {None}
    BY <1>1 DEF TypeOK
  <2> QED
    BY <1>1, <2>1 DEF TypeOK
<1>3. blocked' \in [Workers -> SUBSET Tokens] /\ forgotten' \subseteq Tokens
  BY <1>1 DEF TypeOK
<1>4. TokensLast
  BY <1>1, <1>2 DEF TokensLast, Told
<1> QED
  BY <1>1, <1>2, <1>3, <1>4, SameTables DEF TablesOK, TokensOK

\* What a worker knew before its restart is remembered in forgotten.
LEMMA RestartKeeps ==
  ASSUME IInv, NEW x \in Workers, Restart(x)
  PROVE  TablesOK
<1>1. /\ TypeOK /\ UNCHANGED <<users, session>>
      /\ blocked' = [blocked EXCEPT ![x] = {}] /\ forgotten' = forgotten \cup blocked[x]
  BY DEF IInv, Restart
<1>2. /\ blocked' \in [Workers -> SUBSET Tokens] /\ forgotten' \subseteq Tokens
      /\ \A y \in Workers : y # x => blocked'[y] = blocked[y]
  BY <1>1 DEF TypeOK
<1>3. TokensLast
  BY <1>1, <1>2 DEF TokensLast, Told
<1> QED
  BY <1>1, <1>2, <1>3, SameTables DEF TablesOK, TokensOK, TypeOK

(* The web client wraps the key of the row anew, in a write yet to come.     *)
LEMMA WebChangeIs ==
  ASSUME IInv, NEW n \in Names, NEW new \in NewPasswords, WebChange(n, new)
  PROVE  /\ TablesOK /\ UNCHANGED <<console, net>>
         /\ \A r \in late' : r \in late \/ (r \in Write /\ RequestShape(r))
<1> DEFINE wrap == WrapPrivateKey(users[n].wrap.key, new, 4)
           w    == [kind |-> "write", name |-> n, pw |-> new, wrap |-> wrap, found |-> None]
<1>1. users[n] # NoUser /\ UNCHANGED <<users, tokens, console, net>> /\ late' = late \cup {w}
  BY DEF WebChange
<1>2. BundleOf(users[n].wrap, n) /\ new \in Passwords
  BY <1>1, RowHolds, PasswordsAssumption
<1>3. BundleOf(wrap, n) /\ wrap # None
  <2>1. wrap \in Wrap /\ wrap.form = "bundle" /\ wrap.key = users[n].wrap.key
    BY <1>2 DEF BundleOf, Wrap, WrapPrivateKey
  <2> QED
    BY <1>2, <2>1, NoneAssumption DEF BundleOf
<1> HIDE DEF wrap
<1>4. w \in Write /\ w.kind = "write" /\ w.name = n /\ w.wrap = wrap /\ w.found = None
  BY <1>2, <1>3 DEF Write, BundleOf
<1> HIDE DEF w
<1>5. RequestShape(w)
  BY <1>3, <1>4 DEF RequestShape
<1> QED
  BY <1>1, <1>4, <1>5, SameTables DEF TablesOK

-----------------------------------------------------------------------------
(* Steps of the server and of the network                                    *)

(* A request that is ended keeps everybody in the right, and gives its       *)
(* console what it asked for.                                                *)
LEMMA EndedKeeps ==
  ASSUME IInv, NEW c \in Consoles, req[c] # NoRequest,
         NEW s \in Statuses, NEW k \in Tokens \cup {None}, Ends(req[c], s, k),
         answer' = [answer EXCEPT ![c] = AnswerTo(req[c], s, k)],
         req' = [req EXCEPT ![c] = NoRequest], UNCHANGED <<console, late>>
  PROVE  IInv'
<1>1. RequestShape(req[c]) /\ TypeOK /\ Shape(c)
  BY DEF IInv, ReqShape
<1>2. TablesOK /\ AnswerTo(req[c], s, k) \in Answer
  BY <1>1, EndsKeeps
<1>3. Lasts
  BY <1>2, TablesLast DEF console
<1>4. /\ answer' \in [Consoles -> Answer \cup {NoAnswer, NothingRead}]
      /\ req' \in [Consoles -> Request \cup Write \cup {NoRequest}]
      /\ answer'[c] = AnswerTo(req[c], s, k) /\ req'[c] = NoRequest
      /\ \A d \in Consoles : d # c => answer'[d] = answer[d] /\ req'[d] = req[d]
  BY <1>1, <1>2 DEF TypeOK
<1>5. TypeOK'
  BY <1>1, <1>2, <1>4 DEF TypeOK, TablesOK, RowsOK, TokensOK, console
<1>6. ASSUME NEW d \in Consoles, d # c PROVE Shape(d)' /\ ReqShape(d)'
  <2>1. Own(d)' = Own(d) /\ Shape(d) /\ ReqShape(d)
    BY <1>4, <1>6 DEF Own, console, IInv
  <2> QED
    BY <1>1, <1>3, <2>1, ShapeKept
<1>7. Got(c)' => s \in {200, 201}
  BY <1>4 DEF Got, AnswerTo
<1>8. Shape(c)'
  <2>1. UNCHANGED <<pc, choice, typed, pair, auth, client, sessionSk, warned>>
    BY DEF console
  <2>2. Idle(c)'
    BY <1>1, <2>1 DEF Shape, Idle
  <2>3. Registering(c)'
    <3>1. ASSUME pc[c] = "register", Got(c)' PROVE Row(typed[c].name, pair[c])'
      <4>1. /\ req[c].kind = "register" /\ req[c].name = typed[c].name
            /\ req[c].pub = pair[c]
        BY <1>1, <3>1 DEF Shape, Registering
      <4>2. Register(req[c], s, k)
        BY <4>1, EndsAre
      <4>3. users'[req[c].name] # NoUser /\ users'[req[c].name].pub = req[c].pub
        BY <1>1, <1>7, <3>1, <4>2, RegisterKeeps DEF Row
      <4> QED
        BY <2>1, <4>1, <4>3 DEF Row
    <3> QED
      BY <1>1, <1>4, <2>1, <3>1 DEF Shape, Registering
  <2>4. LoggingIn(c)'
    <3>1. CASE pc[c] = "login"
      <4>1. /\ typed[c] \in Creds /\ req[c].kind \in {"login", "write"}
            /\ req[c].name = typed[c].name
            /\ req[c].kind = "write" => req[c].found # None
            /\ choice[c] = "register" => pair[c] \in Keys /\ Row(typed[c].name, pair[c])
        BY <1>1, <3>1 DEF Shape, LoggingIn
      <4>2. typed[c].name \in Names
        BY <4>1 DEF Creds
      <4>3. choice[c] = "register" => pair[c] \in Keys /\ Row(typed[c].name, pair[c])'
        BY <1>3, <2>1, <4>1, <4>2 DEF Lasts, RowsLast, Row
      <4>4. ASSUME s \in {200, 201}
            PROVE  /\ answer'[c].token \in Tokens
                   /\ session'[answer'[c].token].of = typed[c].name
                   /\ BundleOf(answer'[c].wrap, typed[c].name)
        <5>1. CASE req[c].kind = "login"
          <6>1. Login(req[c], s, k)
            BY <5>1, EndsAre
          <6>2. /\ k \in Tokens /\ session'[k].of = typed[c].name
                /\ BundleOf(users[typed[c].name].wrap, typed[c].name)
            BY <1>1, <4>1, <4>4, <6>1, LoginKeeps
          <6> QED
            BY <1>4, <4>1, <5>1, <6>2, NoneAssumption DEF AnswerTo
        <5>2. CASE req[c].kind = "write"
          <6>1. Update(req[c], k)
            BY <5>2, EndsAre
          <6>2. /\ k \in Tokens /\ session'[k].of = typed[c].name
                /\ BundleOf(req[c].found, typed[c].name)
            BY <1>1, <4>1, <5>2, <6>1, UpdateKeeps
          <6> QED
            BY <1>4, <5>2, <6>2, NoneAssumption DEF AnswerTo
        <5> QED
          BY <4>1, <5>1, <5>2
      <4>5. Got(c)' => BundleOf(answer[c].wrap, typed[c].name)'
        <5>1. Got(c)' => /\ answer'[c].wrap \in Wrap /\ answer'[c].wrap.form = "bundle"
                         /\ Row(typed[c].name, answer'[c].wrap.key)
          BY <1>7, <4>4 DEF BundleOf
        <5>2. \A key \in Keys : Row(typed[c].name, key) =>
                users'[typed[c].name] # NoUser /\ users'[typed[c].name].pub = key
          BY <1>3, <4>2 DEF Lasts, RowsLast, Row
        <5> QED
          BY <2>1, <5>1, <5>2 DEF BundleOf, Row, Wrap
      <4> QED
        BY <1>4, <1>7, <2>1, <4>1, <4>3, <4>4, <4>5 DEF LoggingIn
    <3> QED
      BY <2>1, <3>1 DEF LoggingIn
  <2>5. LoggedIn(c)'
    <3>1. Inside' = Inside
      BY <2>1 DEF Inside
    <3>2. c \in Inside => /\ client[c].name \in Names /\ client[c].name # None
                          /\ client[c].key \in Keys /\ auth[c].token \in Tokens
      BY <1>1, NoneAssumption DEF Shape, LoggedIn, Auth
    <3> QED
      BY <1>1, <1>3, <2>1, <3>1, <3>2 DEF Shape, LoggedIn, Lasts, RowsLast, TokensLast, Row
  <2>6. Leaving(c)'
    <3>1. ASSUME pc[c] \in {"leave", "switch"}, s \in {200, 201}
          PROVE  Told(auth[c].token)'
      <4>1. req[c].kind = "logout" /\ req[c].token = auth[c].token
        BY <1>1, <3>1 DEF Shape, Leaving
      <4>2. PICK x \in Workers : Logout(x, req[c], s, k)
        BY <4>1, EndsAre
      <4>3. auth[c].token \in blocked'[x] /\ session' = session
        BY <3>1, <4>1, <4>2, LogoutKeeps
      <4>4. session[auth[c].token].of # None
        BY <1>1, <3>1, NoneAssumption DEF Shape, LoggedIn, Inside
      <4> QED
        BY <2>1, <4>3, <4>4 DEF Told
    <3> QED
      BY <1>4, <1>7, <2>1, <3>1 DEF Leaving
  <2>7. LoggedOff(c)'
    <3>1. \A j \in Tokens : Told(j) => Told(j)'
      BY <1>3 DEF Lasts, TokensLast
    <3> QED
      BY <1>1, <2>1, <3>1 DEF Shape, LoggedOff, Auth
  <2> QED
    BY <2>2, <2>3, <2>4, <2>5, <2>6, <2>7 DEF Shape
<1>9. ReqShape(c)'
  BY <1>4 DEF ReqShape
<1>10. \A r \in late' : RequestShape(r)'
  <2>1. ASSUME NEW r \in late' PROVE RequestShape(r)'
    BY <1>3, RequestLasts DEF IInv, Lasts
  <2> QED
    BY <2>1
<1> QED
  BY <1>2, <1>5, <1>6, <1>8, <1>9, <1>10 DEF IInv, TablesOK, RowsOK

(* A login half done is still the login that its console waits for.          *)
LEMMA BegunKeeps ==
  ASSUME IInv, NEW c \in Consoles, req[c] # NoRequest,
         Rehashes(req[c]) \/ Changes(req[c]), Ask(c, WriteOf(req[c])),
         UNCHANGED <<users, tokens, console, late>>
  PROVE  IInv'
<1>1. RequestShape(req[c]) /\ TypeOK /\ Shape(c)
  BY DEF IInv, ReqShape
<1>2. PICK w \in Write :
        /\ req[c].kind = "login" /\ RequestShape(w)
        /\ w.kind = "write" /\ w.name = req[c].name /\ w.found # None
        /\ req' = [req EXCEPT ![c] = w] /\ answer' = answer
  BY <1>1, WriteOfIs DEF Ask
<1>3. TablesOK
  BY SameTables DEF TablesOK
<1>4. Lasts
  BY <1>3, TablesLast DEF console
<1>5. /\ req' \in [Consoles -> Request \cup Write \cup {NoRequest}] /\ req'[c] = w
      /\ \A d \in Consoles : d # c => req'[d] = req[d]
  BY <1>1, <1>2 DEF TypeOK
<1>6. TypeOK'
  BY <1>1, <1>2, <1>5 DEF TypeOK, console, tokens
<1>7. ASSUME NEW d \in Consoles, d # c PROVE Shape(d)' /\ ReqShape(d)'
  <2>1. Own(d)' = Own(d) /\ Shape(d) /\ ReqShape(d)
    BY <1>2, <1>5, <1>7 DEF Own, console, IInv
  <2> QED
    BY <1>1, <1>4, <2>1, ShapeKept
<1>8. RequestShape(w)' /\ ReqShape(c)'
  BY <1>2, <1>4, <1>5, RequestLasts DEF Lasts, ReqShape
<1>9. Shape(c)'
  <2> USE DEF console, tokens
  <2>1. Idle(c)' /\ Registering(c)'
    BY <1>1, <1>2 DEF Shape, Idle, Registering
  <2>2. LoggingIn(c)'
    BY <1>1, <1>2, <1>5 DEF Shape, LoggingIn, Got, BundleOf, Row
  <2>3. LoggedIn(c)'
    BY <1>1 DEF Shape, LoggedIn, Inside, Row
  <2>4. Leaving(c)'
    <3>1. pc[c] \notin {"leave", "switch"}
      BY <1>1, <1>2 DEF Shape, Leaving
    <3> QED
      BY <3>1 DEF Leaving
  <2>5. LoggedOff(c)'
    BY <1>1 DEF Shape, LoggedOff, Told
  <2> QED
    BY <2>1, <2>2, <2>3, <2>4, <2>5 DEF Shape
<1>10. \A r \in late' : RequestShape(r)'
  <2>1. ASSUME NEW r \in late' PROVE RequestShape(r)'
    BY <1>4, RequestLasts DEF IInv, Lasts
  <2> QED
    BY <2>1
<1> QED
  BY <1>3, <1>6, <1>7, <1>8, <1>9, <1>10 DEF IInv, TablesOK, RowsOK

(* Serving a request, in one step or in two.                                 *)
LEMMA ServeKeeps ==
  ASSUME IInv, NEW c \in Consoles, Serve(c)
  PROVE  IInv'
  BY EndedKeeps, BegunKeeps DEF Serve

(* A step of the server that no console waits for.                           *)
LEMMA TablesKeep ==
  ASSUME IInv, TablesOK, UNCHANGED <<console, net>>,
         \A r \in late' : r \in late \/ (r \in Write /\ RequestShape(r))
  PROVE  IInv'
<1>1. Lasts
  BY TablesLast DEF console
<1>2. late' \subseteq Request \cup Write
  BY DEF IInv, TypeOK
<1>3. TypeOK'
  BY <1>2 DEF IInv, TypeOK, TablesOK, RowsOK, TokensOK, console, net
<1>4. ASSUME NEW c \in Consoles PROVE Shape(c)' /\ ReqShape(c)'
  <2>1. Own(c)' = Own(c) /\ Shape(c) /\ ReqShape(c) /\ TypeOK
    BY DEF Own, console, net, IInv
  <2> QED
    BY <1>1, <2>1, ShapeKept
<1>5. ASSUME NEW r \in late' PROVE RequestShape(r)'
  <2>1. RequestShape(r)
    BY DEF IInv
  <2> QED
    BY <1>1, <2>1, RequestLasts DEF Lasts
<1> QED
  BY <1>3, <1>4, <1>5 DEF IInv, TablesOK, RowsOK

(* A request nobody waits for is ended, or left half done.                   *)
LEMMA ServeLateKeeps ==
  ASSUME IInv, ServeLate
  PROVE  IInv'
<1>1. PICK r \in late :
        /\ UNCHANGED <<console, net>>
        /\ \/ /\ \E s \in Statuses, k \in Tokens \cup {None} : Ends(r, s, k)
              /\ late' = late \ {r}
           \/ /\ Rehashes(r) \/ Changes(r)
              /\ late' = (late \ {r}) \cup {WriteOf(r)}
              /\ UNCHANGED <<users, tokens>>
  BY DEF ServeLate
<1>2. RequestShape(r)
  BY DEF IInv
<1>3. CASE /\ \E s \in Statuses, k \in Tokens \cup {None} : Ends(r, s, k)
           /\ late' = late \ {r}
  <2>1. TablesOK
    BY <1>2, <1>3, EndsKeeps
  <2> QED
    BY <1>1, <1>3, <2>1, TablesKeep
<1>4. CASE /\ Rehashes(r) \/ Changes(r)
           /\ late' = (late \ {r}) \cup {WriteOf(r)}
           /\ UNCHANGED <<users, tokens>>
  <2>1. TablesOK
    BY <1>4, SameTables DEF TablesOK
  <2>2. WriteOf(r) \in Write /\ RequestShape(WriteOf(r))
    BY <1>2, <1>4, WriteOfIs
  <2>3. \A q \in late' : q \in late \/ (q \in Write /\ RequestShape(q))
    BY <1>4, <2>2
  <2> QED
    BY <1>1, <2>1, <2>3, TablesKeep
<1> QED
  BY <1>1, <1>3, <1>4

(* An answer that does not come is none.                                     *)
LEMMA NothingBackKeeps ==
  ASSUME IInv, NEW c \in Consoles, NotSent(c) \/ GiveUp(c)
  PROVE  IInv'
<1>1. /\ NothingBack(c) /\ TypeOK
      /\ late' \subseteq late \cup {req[c]}
  BY DEF NotSent, GiveUp, IInv
<1>2. /\ req[c] \in Request \cup Write /\ RequestShape(req[c]) /\ Shape(c)
      /\ UNCHANGED <<users, tokens, console>>
  BY <1>1 DEF NothingBack, IInv, TypeOK, ReqShape
<1>3. /\ answer' \in [Consoles -> Answer \cup {NoAnswer, NothingRead}]
      /\ req' \in [Consoles -> Request \cup Write \cup {NoRequest}]
      /\ answer'[c] = NothingRead /\ req'[c] = NoRequest
      /\ \A d \in Consoles : d # c => answer'[d] = answer[d] /\ req'[d] = req[d]
  BY <1>1 DEF NothingBack, TypeOK
<1>4. TypeOK'
  BY <1>1, <1>2, <1>3 DEF TypeOK, console, tokens
<1>5. TablesOK /\ Lasts
  BY <1>2, SameTables, TablesLast DEF TablesOK, console
<1>6. ASSUME NEW d \in Consoles, d # c PROVE Shape(d)' /\ ReqShape(d)'
  <2>1. Own(d)' = Own(d) /\ Shape(d) /\ ReqShape(d)
    BY <1>2, <1>3, <1>6 DEF Own, console, IInv
  <2> QED
    BY <1>1, <1>5, <2>1, ShapeKept
<1>7. Shape(c)' /\ ReqShape(c)'
  <2>1. ~Got(c)'
    BY <1>3 DEF Got, NothingRead
  <2>2. req[c] # NoRequest
    BY <1>1 DEF NothingBack
  <2> QED
    BY <1>2, <1>3, <2>1, <2>2
       DEF console, tokens, Shape, ReqShape, Idle, Registering, LoggingIn, LoggedIn, Leaving,
           LoggedOff, Inside, Row, Told
<1>8. ASSUME NEW r \in late' PROVE RequestShape(r)'
  <2>1. RequestShape(r)
    BY <1>1, <1>2 DEF IInv
  <2> QED
    BY <1>5, <2>1, RequestLasts DEF Lasts
<1> QED
  BY <1>4, <1>5, <1>6, <1>7, <1>8 DEF IInv, TablesOK, RowsOK

-----------------------------------------------------------------------------
(* Steps of a console                                                        *)

\* What a step of a console has to show of itself.
Fits(c) == TypeOK /\ ReqShape(c) /\ Shape(c)

\* What it leaves alone.
Apart(c) ==
  /\ UNCHANGED rest /\ warned \subseteq warned'
  /\ \A d \in Consoles : d # c => Own(d)' = Own(d)

(* The rest follows, since a console writes only what is its own.            *)
LEMMA ApartKeeps ==
  ASSUME IInv, NEW c \in Consoles, Apart(c), Fits(c)'
  PROVE  IInv'
<1>1. TablesOK
  BY SameTables DEF Apart, rest, TablesOK
<1>2. Lasts
  BY <1>1, TablesLast DEF Apart
<1>3. ASSUME NEW d \in Consoles PROVE ReqShape(d)' /\ Shape(d)'
  <2>1. CASE d # c
    <3>1. Own(d)' = Own(d) /\ ReqShape(d) /\ Shape(d) /\ TypeOK
      BY <2>1 DEF Apart, IInv
    <3> QED
      BY <1>2, <3>1, ShapeKept
  <2> QED
    BY <2>1 DEF Fits
<1>4. ASSUME NEW r \in late' PROVE RequestShape(r)'
  <2>1. RequestShape(r)
    BY DEF IInv, Apart, rest
  <2> QED
    BY <1>2, <2>1, RequestLasts DEF Lasts
<1> QED
  BY <1>1, <1>3, <1>4 DEF IInv, Fits, TablesOK, RowsOK

(* The menu: nothing is under way.                                           *)
LEMMA MenuKeeps ==
  ASSUME IInv, NEW c \in Consoles,
         Eof(c) \/ \E what \in {"register", "login"} : Choose(c, what)
  PROVE  IInv'
<1>1. TypeOK /\ Shape(c) /\ ReqShape(c) /\ pc[c] = "menu"
  BY DEF IInv, Eof, Choose
<1>2. /\ UNCHANGED <<rest, typed, pair, auth, client, sessionSk, warned, net>>
      /\ pc' \in {[pc EXCEPT ![c] = "exit"], [pc EXCEPT ![c] = "prompt"]}
      /\ \/ choice' = choice
         \/ \E what \in {"register", "login"} : choice' = [choice EXCEPT ![c] = what]
  BY DEF Eof, Choose, Goto
<1>3. Apart(c)
  BY <1>1, <1>2 DEF Apart, Own, TypeOK, net
<1>4. TypeOK'
  BY <1>1, <1>2 DEF TypeOK, rest, tokens, net
<1>5. Shape(c)'
  BY <1>1, <1>2 DEF TypeOK, rest, tokens, net, Shape, Idle, Registering, LoggingIn, LoggedIn,
                    Leaving, LoggedOff, Inside, Told
<1>6. ReqShape(c)'
  BY <1>1, <1>2 DEF ReqShape, net, Shape, Idle
<1> QED
  BY <1>3, <1>4, <1>5, <1>6, ApartKeeps DEF Fits

(* A call starts with what was typed.                                        *)
LEMMA StartLoginKeeps ==
  ASSUME IInv, NEW c \in Consoles, NEW n \in Names, NEW pw \in Passwords,
         StartLogin(c, n, pw)
  PROVE  IInv'
<1>1. TypeOK /\ Shape(c) /\ pc[c] = "prompt" /\ choice[c] = "login"
  BY DEF IInv, StartLogin
<1>2. /\ UNCHANGED <<rest, choice, pair, auth, client, sessionSk, warned, answer>>
      /\ pc' = [pc EXCEPT ![c] = "login"]
      /\ typed' = [typed EXCEPT ![c] = [name |-> n, pw |-> pw]]
      /\ req' = [req EXCEPT ![c] = AskLogin(n, pw)]
  BY DEF StartLogin, Ask, Goto
<1>3. answer[c] = NoAnswer
  BY <1>1 DEF Shape, Idle
<1>4. Apart(c)
  BY <1>1, <1>2 DEF Apart, Own, TypeOK
<1>5. TypeOK'
  BY <1>1, <1>2, AskLoginTypes DEF TypeOK, rest, tokens, Creds
<1>6. ReqShape(c)'
  BY <1>1, <1>2, AskLoginTypes DEF TypeOK, ReqShape, RequestShape
<1>7. Shape(c)'
  BY <1>1, <1>2, <1>3, AskLoginTypes
     DEF TypeOK, Shape, Idle, Registering, LoggingIn, LoggedIn, Leaving, LoggedOff, Inside,
         Got, Creds
<1> QED
  BY <1>4, <1>5, <1>6, <1>7, ApartKeeps DEF Fits

(* A new pair is sent with its own bundle.                                   *)
LEMMA StartRegisterKeeps ==
  ASSUME IInv, NEW c \in Consoles, NEW n \in Names, NEW pw \in Passwords, NEW key \in Keys,
         StartRegister(c, n, pw, key)
  PROVE  IInv'
<1>1. TypeOK /\ Shape(c) /\ pc[c] = "prompt" /\ choice[c] = "register"
  BY DEF IInv, StartRegister
<1>2. PICK r \in Request :
        /\ RequestShape(r) /\ r.kind = "register" /\ r.name = n /\ r.pub = key
        /\ req' = [req EXCEPT ![c] = r]
  <2> DEFINE R(lanes) == [Blank("register") EXCEPT !.name = n, !.pw = pw, !.pub = key,
                                                  !.wrap = WrapPrivateKey(key, pw, lanes)]
  <2>1. PICK lanes \in Lanes(c) : req' = [req EXCEPT ![c] = R(lanes)]
    BY DEF StartRegister, Ask
  <2>2. lanes \in {1, 4}
    BY DEF Lanes
  <2>3. WrapPrivateKey(key, pw, lanes) \in Wrap
    BY <2>2 DEF WrapPrivateKey, Wrap
  <2>4. /\ R(lanes) \in Request
        /\ R(lanes).kind = "register" /\ R(lanes).name = n /\ R(lanes).pub = key
        /\ R(lanes).pw = pw /\ R(lanes).wrap = WrapPrivateKey(key, pw, lanes)
    BY <2>3 DEF Request, Blank
  <2> HIDE DEF R
  <2>5. RequestShape(R(lanes))
    BY <2>3, <2>4 DEF RequestShape, WrapPrivateKey
  <2> QED
    BY <2>1, <2>4, <2>5
<1>3. /\ UNCHANGED <<rest, choice, auth, client, sessionSk, warned, answer>>
      /\ pc' = [pc EXCEPT ![c] = "register"]
      /\ typed' = [typed EXCEPT ![c] = [name |-> n, pw |-> pw]]
      /\ pair' = [pair EXCEPT ![c] = key]
  BY DEF StartRegister, Ask, Goto
<1>4. answer[c] = NoAnswer
  BY <1>1 DEF Shape, Idle
<1>5. Apart(c)
  BY <1>1, <1>2, <1>3 DEF Apart, Own, TypeOK
<1>6. TypeOK'
  BY <1>1, <1>2, <1>3 DEF TypeOK, rest, tokens, Creds
<1>7. ReqShape(c)'
  BY <1>1, <1>2 DEF TypeOK, ReqShape, RequestShape
<1>8. Shape(c)'
  BY <1>1, <1>2, <1>3, <1>4
     DEF TypeOK, Shape, Idle, Registering, LoggingIn, LoggedIn, Leaving, LoggedOff, Inside,
         Got, Creds
<1> QED
  BY <1>5, <1>6, <1>7, <1>8, ApartKeeps DEF Fits

(* The login after a registration asks for the account just made.            *)
LEMMA RegisteredKeeps ==
  ASSUME IInv, NEW c \in Consoles, Registered(c)
  PROVE  IInv'
<1>1. TypeOK /\ Shape(c) /\ pc[c] = "register" /\ answer[c] # NoAnswer
  BY DEF IInv, Registered, Back
<1>2. Got(c)
  BY <1>1, SuccessIsGot DEF Registered, Reads2xx
<1>3. /\ typed[c] \in Creds /\ pair[c] \in Keys /\ choice[c] = "register"
      /\ Row(typed[c].name, pair[c])
  BY <1>1, <1>2 DEF Shape, Registering
<1>4. /\ UNCHANGED <<rest, choice, typed, pair, client, sessionSk, warned>>
      /\ pc' = [pc EXCEPT ![c] = "login"]
      /\ auth' = [auth EXCEPT ![c] = NoAuth]
      /\ req' = [req EXCEPT ![c] = AskLogin(typed[c].name, typed[c].pw)]
      /\ answer' = [answer EXCEPT ![c] = NoAnswer]
  BY DEF Registered, Then, Goto
<1>5. /\ AskLogin(typed[c].name, typed[c].pw) \in Request
      /\ RequestShape(AskLogin(typed[c].name, typed[c].pw))
      /\ AskLogin(typed[c].name, typed[c].pw).kind = "login"
      /\ AskLogin(typed[c].name, typed[c].pw).name = typed[c].name
      /\ AskLogin(typed[c].name, typed[c].pw).pw = typed[c].pw
  BY <1>3, AskLoginTypes DEF Creds, RequestShape
<1>6. Apart(c)
  BY <1>1, <1>4 DEF Apart, Own, TypeOK
<1>7. TypeOK'
  BY <1>1, <1>4, <1>5 DEF TypeOK, rest, tokens
<1>8. ReqShape(c)'
  BY <1>1, <1>4, <1>5 DEF TypeOK, ReqShape, RequestShape
<1>9. Shape(c)'
  BY <1>1, <1>3, <1>4, <1>5
     DEF TypeOK, Shape, Idle, Registering, LoggingIn, LoggedIn, Leaving, LoggedOff, Inside,
         Got, Row, rest, tokens
<1> QED
  BY <1>6, <1>7, <1>8, <1>9, ApartKeeps DEF Fits

(* What a turn of the loop ends with, whatever it came to.                   *)
LEMMA EndTurnIs ==
  ASSUME TypeOK, NEW c \in Consoles, NEW p, EndTurn(c, p)
  PROVE  /\ UNCHANGED <<rest, warned>> /\ pc' = [pc EXCEPT ![c] = p]
         /\ typed' \in [Consoles -> Creds \cup {NoCreds}]
         /\ pair' \in [Consoles -> Keys \cup {None}]
         /\ req' \in [Consoles -> Request \cup Write \cup {NoRequest}]
         /\ answer' \in [Consoles -> Answer \cup {NoAnswer, NothingRead}]
         /\ req'[c] = NoRequest /\ answer'[c] = NoAnswer
         /\ \A d \in Consoles : d # c =>
              /\ typed'[d] = typed[d] /\ pair'[d] = pair[d]
              /\ req'[d] = req[d] /\ answer'[d] = answer[d]
  BY DEF EndTurn, Then, Goto, TypeOK

(* A login that is read gives a token of the user who asked, and the key of  *)
(* the row.                                                                  *)
LEMMA TakeAuthIs ==
  ASSUME IInv, NEW c \in Consoles, TakeAuth(c)
  PROVE  /\ pc[c] = "login" /\ typed[c] \in Creds /\ Got(c)
         /\ auth' = [auth EXCEPT ![c] = [token |-> answer[c].token, name |-> typed[c].name]]
         /\ answer[c].token \in Tokens /\ session[answer[c].token].of = typed[c].name
         /\ Row(typed[c].name, answer[c].wrap.key) /\ answer[c].wrap \in Wrap
         /\ choice[c] = "register" => Row(typed[c].name, pair[c]) /\ pair[c] \in Keys
         /\ [token |-> answer[c].token, name |-> typed[c].name] \in Auth
<1>1. /\ TypeOK /\ Shape(c) /\ pc[c] = "login" /\ answer[c] # NoAnswer
      /\ auth' = [auth EXCEPT ![c] = [token |-> answer[c].token, name |-> typed[c].name]]
  BY DEF IInv, TakeAuth, Back
<1>2. Got(c)
  BY <1>1, SuccessIsGot DEF TakeAuth, Parses
<1>3. typed[c] \in Creds /\ answer[c].token \in Tokens
  BY <1>1, <1>2 DEF Shape, LoggingIn
<1> QED
  BY <1>1, <1>2, <1>3 DEF Shape, LoggingIn, Creds, Auth, BundleOf

(* "Try again": the next turn has nothing of this one but the token.         *)
LEMMA TryAgainKeeps ==
  ASSUME IInv, NEW c \in Consoles, RequestFails(c) \/ UnwrapFails(c)
  PROVE  IInv'
<1>1. /\ TypeOK /\ Shape(c) /\ EndTurn(c, "prompt")
      /\ UNCHANGED <<choice, client, sessionSk>>
      /\ \/ auth' = auth
         \/ \E a \in Auth : auth' = [auth EXCEPT ![c] = a]
  BY TakeAuthIs DEF IInv, RequestFails, UnwrapFails
<1>2. /\ UNCHANGED <<rest, warned>> /\ pc' = [pc EXCEPT ![c] = "prompt"]
      /\ req'[c] = NoRequest /\ answer'[c] = NoAnswer
  BY <1>1, EndTurnIs
<1>3. Apart(c)
  BY <1>1, <1>2, EndTurnIs DEF Apart, Own, TypeOK
<1>4. TypeOK'
  <2>1. auth' \in [Consoles -> Auth \cup {NoAuth}]
    BY <1>1 DEF TypeOK
  <2> QED
    BY <1>1, <1>2, <2>1, EndTurnIs DEF TypeOK, rest, tokens
<1>5. Shape(c)' /\ ReqShape(c)'
  BY <1>1, <1>2 DEF TypeOK, ReqShape, Shape, Idle, Registering, LoggingIn, LoggedIn, Leaving,
                    LoggedOff, Inside
<1> QED
  BY <1>3, <1>4, <1>5, ApartKeeps DEF Fits

(* A client is made with the key of the row, registered or unwrapped.        *)
LEMMA EnterKeeps ==
  ASSUME IInv, NEW c \in Consoles, Enter(c)
  PROVE  IInv'
<1>1. /\ TypeOK /\ TakeAuth(c) /\ EndTurn(c, "main")
      /\ sessionSk' = [sessionSk EXCEPT ![c] = SessionKey(c)]
      /\ client' = [client EXCEPT ![c] = [key |-> SessionKey(c), name |-> typed[c].name]]
      /\ choice' = [choice EXCEPT ![c] = None]
  BY DEF IInv, Enter
<1>2. /\ UNCHANGED <<rest, warned>> /\ pc' = [pc EXCEPT ![c] = "main"]
      /\ req'[c] = NoRequest /\ answer'[c] = NoAnswer
  BY <1>1, EndTurnIs
<1>3. /\ typed[c].name \in Names /\ SessionKey(c) \in Keys
      /\ Row(typed[c].name, SessionKey(c))
  BY <1>1, TakeAuthIs DEF SessionKey, Creds, Wrap
<1>4. /\ auth' \in [Consoles -> Auth \cup {NoAuth}]
      /\ auth'[c] = [token |-> answer[c].token, name |-> typed[c].name] /\ auth'[c] \in Auth
      /\ session[auth'[c].token].of = typed[c].name
  BY <1>1, TakeAuthIs DEF TypeOK
<1>5. /\ client'[c] = [key |-> SessionKey(c), name |-> typed[c].name]
      /\ client'[c] \in [key: Keys, name: Names] /\ sessionSk'[c] = SessionKey(c)
      /\ client' \in [Consoles -> [key: Keys, name: Names] \cup {NoClient}]
      /\ sessionSk' \in [Consoles -> Keys \cup {None}]
  BY <1>1, <1>3 DEF TypeOK
<1>6. Apart(c)
  <2>1. ASSUME NEW d \in Consoles, d # c
        PROVE  /\ pc'[d] = pc[d] /\ choice'[d] = choice[d] /\ auth'[d] = auth[d]
               /\ client'[d] = client[d] /\ sessionSk'[d] = sessionSk[d]
    BY <1>1, <1>2, <2>1, TakeAuthIs DEF TypeOK
  <2>2. ASSUME NEW d \in Consoles, d # c
        PROVE  /\ typed'[d] = typed[d] /\ pair'[d] = pair[d]
               /\ req'[d] = req[d] /\ answer'[d] = answer[d]
    BY <1>1, <2>2, EndTurnIs
  <2> QED
    BY <1>2, <2>1, <2>2 DEF Apart, Own
<1>7. TypeOK'
  BY <1>1, <1>2, <1>4, <1>5, EndTurnIs DEF TypeOK, rest, tokens
<1>8. pc'[c] = "main"
  BY <1>1, <1>2 DEF TypeOK
<1>9. LoggedIn(c)'
  BY <1>2, <1>3, <1>4, <1>5 DEF LoggedIn, Row, rest, tokens
<1>10. Shape(c)' /\ ReqShape(c)'
  BY <1>2, <1>8, <1>9
     DEF ReqShape, Shape, Idle, Registering, LoggingIn, Leaving, LoggedOff
<1> QED
  BY <1>6, <1>7, <1>10, ApartKeeps DEF Fits

(* A request from the main menu carries the token, and never a bundle.       *)
LEMMA MainKeeps ==
  ASSUME IInv, NEW c \in Consoles,
         \/ \E how \in {"leave", "switch"} : Leave(c, how)
         \/ \E old \in Passwords, new \in NewPasswords : ChangePassword(c, old, new)
  PROVE  IInv'
<1>1. TypeOK /\ Shape(c) /\ pc[c] = "main"
  BY DEF IInv, Leave, ChangePassword
<1>2. /\ auth[c] \in Auth /\ auth[c].token \in Tokens /\ sessionSk[c] \in Keys
      /\ answer[c] = NoAnswer /\ c \in Inside
  BY <1>1 DEF Shape, LoggedIn, Idle, Auth, Inside
<1>3. PICK r \in Request, p \in {"leave", "switch", "change"} :
        /\ RequestShape(r) /\ r.kind # "write" /\ r.token = auth[c].token
        /\ p \in {"leave", "switch"} => r.kind = "logout"
        /\ req' = [req EXCEPT ![c] = r] /\ pc' = [pc EXCEPT ![c] = p]
        /\ UNCHANGED <<rest, choice, typed, pair, auth, client, sessionSk, warned, answer>>
  <2>1. ASSUME NEW how \in {"leave", "switch"}, Leave(c, how)
        PROVE  \E r \in Request, p \in {"leave", "switch", "change"} :
                 /\ RequestShape(r) /\ r.kind # "write" /\ r.token = auth[c].token
                 /\ p \in {"leave", "switch"} => r.kind = "logout"
                 /\ req' = [req EXCEPT ![c] = r] /\ pc' = [pc EXCEPT ![c] = p]
                 /\ UNCHANGED <<rest, choice, typed, pair, auth, client, sessionSk, warned,
                                answer>>
    <3> DEFINE r == [Blank("logout") EXCEPT !.token = auth[c].token]
    <3>1. r \in Request /\ r.kind = "logout" /\ r.token = auth[c].token
      BY <1>2 DEF Blank, Request
    <3>2. req' = [req EXCEPT ![c] = r]
      BY <2>1 DEF Leave, Ask
    <3> HIDE DEF r
    <3>3. RequestShape(r)
      BY <3>1 DEF RequestShape
    <3> QED
      BY <2>1, <3>1, <3>2, <3>3 DEF Leave, Ask, Goto
  <2>2. ASSUME NEW old \in Passwords, NEW new \in NewPasswords, ChangePassword(c, old, new)
        PROVE  \E r \in Request, p \in {"leave", "switch", "change"} :
                 /\ RequestShape(r) /\ r.kind # "write" /\ r.token = auth[c].token
                 /\ p \in {"leave", "switch"} => r.kind = "logout"
                 /\ req' = [req EXCEPT ![c] = r] /\ pc' = [pc EXCEPT ![c] = p]
                 /\ UNCHANGED <<rest, choice, typed, pair, auth, client, sessionSk, warned,
                                answer>>
    <3> DEFINE r == [Blank("change") EXCEPT !.pw = old, !.new = new, !.token = auth[c].token,
                                            !.wrap = Rewrap(sessionSk[c], new)]
    <3>1. Rewrap(sessionSk[c], new) \in Wrap /\ Rewrap(sessionSk[c], new).form = "flat"
      BY <1>2, PasswordsAssumption DEF Rewrap, Wrap
    <3>2. /\ r \in Request /\ r.kind = "change" /\ r.token = auth[c].token
          /\ r.wrap = Rewrap(sessionSk[c], new)
      BY <1>2, <3>1, PasswordsAssumption DEF Blank, Request
    <3>3. req' = [req EXCEPT ![c] = r]
      BY <2>2 DEF ChangePassword, Ask
    <3> HIDE DEF r
    <3>4. RequestShape(r)
      BY <3>1, <3>2 DEF RequestShape
    <3> QED
      BY <2>2, <3>2, <3>3, <3>4 DEF ChangePassword, Ask, Goto
  <2> QED
    BY <2>1, <2>2
<1>4. Apart(c)
  BY <1>1, <1>3 DEF Apart, Own, TypeOK
<1>5. TypeOK' /\ ReqShape(c)'
  BY <1>1, <1>3 DEF TypeOK, rest, tokens, ReqShape, RequestShape
<1>6. pc'[c] = p /\ req'[c] = r /\ c \in Inside'
  BY <1>1, <1>3 DEF TypeOK, Inside
<1>7. Shape(c)'
  BY <1>1, <1>2, <1>3, <1>6
     DEF Shape, Idle, Registering, LoggingIn, LoggedIn, Leaving, LoggedOff, Got, Row, rest, tokens
<1> QED
  BY <1>4, <1>5, <1>7, ApartKeeps DEF Fits

(* Either the session has ended, or the user is warned of its token.         *)
LEMMA WarningTells ==
  ASSUME IInv, NEW c \in Consoles, pc[c] \in {"leave", "switch"}, answer[c] # NoAnswer,
         Warning(c)
  PROVE  /\ warned \subseteq warned' /\ warned' \subseteq Tokens
         /\ auth[c] \in Auth /\ (auth[c].token \in warned' \/ Told(auth[c].token))
<1>1. /\ TypeOK /\ Shape(c) /\ c \in Inside
  BY DEF IInv, Inside
<1>2. auth[c] \in Auth /\ auth[c].token \in Tokens
  BY <1>1 DEF Shape, LoggedIn, Auth
<1>3. PICK r \in Responses(c) :
        warned' = IF LoggedOut(r) THEN warned ELSE warned \cup {auth[c].token}
  BY DEF Warning
<1>4. LoggedOut(r) => Told(auth[c].token)
  BY <1>1, SuccessIsGot DEF LoggedOut, Shape, Leaving
<1> QED
  BY <1>1, <1>2, <1>3, <1>4 DEF TypeOK

(* After the logout.                                                         *)
LEMMA AfterLogoutKeeps ==
  ASSUME IInv, NEW c \in Consoles, Quit(c) \/ Switch(c)
  PROVE  IInv'
<1>1. /\ TypeOK /\ Shape(c) /\ pc[c] \in {"leave", "switch"} /\ answer[c] # NoAnswer
      /\ Warning(c)
      /\ UNCHANGED <<rest, choice, typed, pair, auth>>
      /\ req' = [req EXCEPT ![c] = NoRequest] /\ answer' = [answer EXCEPT ![c] = NoAnswer]
      /\ pc' \in {[pc EXCEPT ![c] = "exit"], [pc EXCEPT ![c] = "menu"]}
      /\ client' \in {client, [client EXCEPT ![c] = NoClient]}
      /\ sessionSk' \in {sessionSk, [sessionSk EXCEPT ![c] = None]}
  BY DEF IInv, Quit, Switch, Back, Then, Goto
<1>2. /\ warned \subseteq warned' /\ warned' \subseteq Tokens
      /\ auth[c] \in Auth /\ (auth[c].token \in warned' \/ Told(auth[c].token))
  BY <1>1, WarningTells
<1>3. Apart(c)
  BY <1>1, <1>2 DEF Apart, Own, TypeOK
<1>4. TypeOK'
  BY <1>1, <1>2 DEF TypeOK, rest, tokens
<1>5. pc'[c] \in {"exit", "menu"} /\ req'[c] = NoRequest /\ answer'[c] = NoAnswer
  BY <1>1 DEF TypeOK
<1>6. Shape(c)' /\ ReqShape(c)'
  BY <1>1, <1>2, <1>5
     DEF ReqShape, Shape, Idle, Registering, LoggingIn, LoggedIn, Leaving, LoggedOff, Inside,
         rest, tokens, Told
<1> QED
  BY <1>3, <1>4, <1>6, ApartKeeps DEF Fits

(* The answer to a change of the password changes nothing.                   *)
LEMMA ChangeAnsweredKeeps ==
  ASSUME IInv, NEW c \in Consoles, ChangeAnswered(c)
  PROVE  IInv'
<1>1. /\ TypeOK /\ Shape(c) /\ pc[c] = "change" /\ pc' = [pc EXCEPT ![c] = "main"]
      /\ UNCHANGED <<rest, choice, typed, pair, auth, client, sessionSk, warned>>
      /\ req' = [req EXCEPT ![c] = NoRequest] /\ answer' = [answer EXCEPT ![c] = NoAnswer]
  BY DEF IInv, ChangeAnswered, Back, Then, Goto
<1>2. Apart(c)
  BY <1>1 DEF Apart, Own, TypeOK
<1>3. TypeOK'
  BY <1>1 DEF TypeOK, rest, tokens
<1>4. pc'[c] = "main" /\ req'[c] = NoRequest /\ answer'[c] = NoAnswer
  BY <1>1 DEF TypeOK
<1>5. Shape(c)' /\ ReqShape(c)'
  BY <1>1, <1>4
     DEF ReqShape, Shape, Idle, Registering, LoggingIn, LoggedIn, Leaving, LoggedOff, Inside,
         Row, rest, tokens
<1> QED
  BY <1>2, <1>3, <1>5, ApartKeeps DEF Fits

-----------------------------------------------------------------------------
(* The invariant and the theorems                                            *)

\* Every step keeps the invariant.
LEMMA ConsoleNext == IInv /\ [Next]_vars => IInv'
<1> SUFFICES ASSUME IInv, [Next]_vars PROVE IInv'
  OBVIOUS
<1>1. ASSUME NEW c \in Consoles, ConsoleStep(c) PROVE IInv'
  BY <1>1, MenuKeeps, StartLoginKeeps, StartRegisterKeeps, RegisteredKeeps, TryAgainKeeps,
     EnterKeeps, MainKeeps, AfterLogoutKeeps, ChangeAnsweredKeeps DEF ConsoleStep
<1>2. ASSUME NEW n \in Names, NEW new \in NewPasswords, WebChange(n, new) PROVE IInv'
  BY <1>2, WebChangeIs, TablesKeep
<1>3. ASSUME NEW k \in Tokens, Expire(k) PROVE IInv'
  BY <1>3, ExpireKeeps, TablesKeep DEF Expire
<1>4. ASSUME NEW x \in Workers, Restart(x) PROVE IInv'
  BY <1>4, RestartKeeps, TablesKeep DEF Restart
<1>5. CASE UNCHANGED vars
  <2>1. TablesOK /\ UNCHANGED <<console, net>> /\ late' = late
    BY <1>5, SameTables DEF vars, TablesOK
  <2> QED
    BY <2>1, TablesKeep
<1> QED
  BY <1>1, <1>2, <1>3, <1>4, <1>5, ServeKeeps, ServeLateKeeps, NothingBackKeeps DEF Next

\* The invariant holds of every execution.
LEMMA ConsoleInvariance == Spec => []IInv
  BY ConsoleInit, ConsoleNext, PTL DEF Spec

(* Every state of every execution is well typed (main.cpp:54-258).           *)
THEOREM TypesOfConsole == Spec => []TypeOK
<1>1. IInv => TypeOK
  BY DEF IInv
<1> QED
  BY <1>1, ConsoleInvariance, PTL

(* Whatever is lost, late or cut short, a console in the main menu holds the *)
(* private key of the public key that the server hands out for its user      *)
(* (main.cpp:77-134).                                                        *)
THEOREM KeysAreOwn == Spec => []KeyIsMine
<1>1. IInv => KeyIsMine
  BY DEF IInv, KeyIsMine, Shape, LoggedIn, Row, Inside
<1> QED
  BY <1>1, ConsoleInvariance, PTL

(* However changes and renewed hashes overlap, a row holds the private key   *)
(* of its public key, in a bundle: what the C++ client sends for a new       *)
(* password never gets there (routes.py:152-164, 204-257).                   *)
THEOREM RowsKeepKeys == Spec => []RowKeepsKey
<1>1. IInv => RowKeepsKey
  BY DEF IInv
<1> QED
  BY <1>1, ConsoleInvariance, PTL

(* A user who leaves with no warning was heard by a worker, which refuses    *)
(* the token until it restarts (main.cpp:144-153, __init__.py:87-94).        *)
THEOREM GoodbyesEndSessions == Spec => []GoodbyeEndsSession
<1>1. IInv => GoodbyeEndsSession
  <2> SUFFICES ASSUME IInv, NEW c \in Consoles, pc[c] \in {"menu", "exit"}, auth[c] # NoAuth,
                      auth[c].token \notin warned \cup forgotten
               PROVE  \E x \in Workers : ~Accepted(x, auth[c].token)
    BY DEF GoodbyeEndsSession
  <2>1. Told(auth[c].token)
    BY DEF IInv, Shape, LoggedOff
  <2> QED
    BY <2>1, WorkersAssumption DEF Told, Accepted
<1> QED
  BY <1>1, ConsoleInvariance, PTL

-----------------------------------------------------------------------------
(* Answers in chunks                                                         *)

Items == [kind: {"data", "size", "crlf"}, n: Nat]

\* The fields of an item.
LEMMA ItemIs ==
  ASSUME NEW kind \in {"data", "size", "crlf"}, NEW n \in Nat
  PROVE  Item(kind, n) \in Items /\ Item(kind, n).kind = kind /\ Item(kind, n).n = n
  BY DEF Item, Items

(* A part of a sequence of items.                                            *)
LEMMA PartIs ==
  ASSUME NEW s \in Seq(Items), NEW x \in Nat, NEW z \in Nat, x + z <= Len(s)
  PROVE  /\ SubSeq(s, x + 1, x + z) \in Seq(Items) /\ Len(SubSeq(s, x + 1, x + z)) = z
         /\ \A j \in 1..z : SubSeq(s, x + 1, x + z)[j] = s[x + j]
<1>1. /\ x + 1 \in Int /\ x + z \in Int /\ (x + z) - (x + 1) + 1 = z
      /\ x + 1 <= x + z <=> z # 0
      /\ \A j \in 1..z : (x + 1) + j - 1 = x + j
  OBVIOUS
<1>2. \A j \in (x + 1)..(x + z) : s[j] \in Items
  <2>1. \A j \in (x + 1)..(x + z) : j \in 1..Len(s)
    BY LenProperties
  <2> QED
    BY <2>1
<1>3. /\ SubSeq(s, x + 1, x + z) \in Seq(Items)
      /\ Len(SubSeq(s, x + 1, x + z)) = IF x + 1 <= x + z THEN (x + z) - (x + 1) + 1 ELSE 0
      /\ \A j \in 1..((x + z) - (x + 1) + 1) :
            SubSeq(s, x + 1, x + z)[j] = s[(x + 1) + j - 1]
  BY <1>1, <1>2, SubSeqProperties
<1> QED
  BY <1>1, <1>3

\* The body is a sequence of pieces.
LEMMA BodyIs ==
  /\ BodyLen \in Nat /\ Body \in Seq(Items) /\ Len(Body) = BodyLen
  /\ \A n \in 1..BodyLen : Body[n] \in Items
<1>1. \A n \in 1..BodyLen : n \in Nat /\ Item("data", n) \in Items
  BY BodyLenAssumption, ItemIs
<1>2. BodyLen \in Nat
  BY BodyLenAssumption
<1> QED
  BY <1>1, <1>2 DEF Body

\* A part of the body.
LEMMA BodyPart ==
  ASSUME NEW e \in 0..BodyLen
  PROVE  /\ SubSeq(Body, 1, e) \in Seq(Items) /\ Len(SubSeq(Body, 1, e)) = e
         /\ IsPrefix(SubSeq(Body, 1, e), Body)
<1> DEFINE s == SubSeq(Body, 1, e)
<1>1. e \in Nat /\ e <= BodyLen /\ \A n \in 1..e : Body[n] \in Items
  BY BodyIs
<1>2. s \in Seq(Items) /\ Len(s) = e
  BY <1>1, SubSeqProperties
<1>3. SubSeq(s, 1, Len(s)) = s
  BY <1>2, SubSeqFull
<1> QED
  BY <1>1, <1>2, <1>3, BodyIs DEF IsPrefix

\* The chunks of a chunking, without the last one.
Pieces(ends) == [i \in DOMAIN ends |-> Chunk(ends, i)]

\* Where the chunks of a chunking end.
LEMMA ChunkingIs ==
  ASSUME NEW ends \in Chunkings
  PROVE  /\ Len(ends) \in Nat \ {0} /\ DOMAIN ends = 1..Len(ends)
         /\ \A i \in 0..Len(ends) : End(ends, i) \in 0..BodyLen
         /\ \A i \in 1..Len(ends) : End(ends, i - 1) < End(ends, i)
         /\ End(ends, 0) = 0 /\ End(ends, Len(ends)) = BodyLen
<1>1. PICK k \in 1..BodyLen : ends \in [1..k -> 1..BodyLen]
  BY DEF Chunkings
<1>2. k \in Nat \ {0} /\ Len(ends) = k /\ DOMAIN ends = 1..k
  BY <1>1, BodyIs
<1>3. \A i \in 1..k : ends[i] \in 1..BodyLen /\ End(ends, i) = ends[i]
  BY <1>1, <1>2 DEF End
<1>4. /\ \A i \in 1..(k - 1) : ends[i] < ends[i + 1]
      /\ ends[k] = BodyLen
  BY <1>2 DEF Chunkings
<1>5. End(ends, 0) = 0
  BY DEF End
<1>6. ASSUME NEW i \in 1..k PROVE End(ends, i - 1) < End(ends, i)
  <2>1. CASE i = 1
    BY <1>3, <1>5, <2>1, BodyIs
  <2>2. CASE i # 1
    <3>1. i - 1 \in 1..(k - 1) /\ (i - 1) + 1 = i /\ i - 1 \in 1..k
      BY <1>2, <2>2
    <3>2. ends[i - 1] < ends[i]
      BY <1>4, <3>1
    <3> QED
      BY <1>3, <3>1, <3>2
  <2> QED
    BY <2>1, <2>2
<1>7. ASSUME NEW i \in 0..k PROVE End(ends, i) \in 0..BodyLen
  <2>1. CASE i = 0
    BY <1>5, <2>1, BodyIs
  <2>2. CASE i # 0
    <3>1. i \in 1..k
      BY <1>2, <2>2
    <3> QED
      BY <1>3, <3>1, BodyIs
  <2> QED
    BY <2>1, <2>2
<1> QED
  BY <1>2, <1>3, <1>4, <1>5, <1>6, <1>7

(* A chunk is its size, a line end, its part of the body and a line end.      *)
LEMMA ChunkIs ==
  ASSUME NEW ends \in Chunkings, NEW i \in 1..Len(ends), NEW lo, NEW hi,
         lo = End(ends, i - 1), hi = End(ends, i)
  PROVE  /\ lo \in 0..BodyLen /\ hi \in 0..BodyLen /\ lo < hi
         /\ Chunk(ends, i) \in Seq(Items) /\ Len(Chunk(ends, i)) = (hi - lo) + 3
         /\ Chunk(ends, i)[1] = Item("size", hi - lo)
         /\ Chunk(ends, i)[2] = Item("crlf", 0)
         /\ \A j \in 1..(hi - lo) : Chunk(ends, i)[2 + j] = Body[lo + j]
<1>1. i \in 0..Len(ends) /\ i - 1 \in 0..Len(ends)
  BY ChunkingIs
<1>2. lo \in 0..BodyLen /\ hi \in 0..BodyLen /\ lo < hi /\ BodyLen \in Nat
  BY <1>1, ChunkingIs, BodyIs
<1> DEFINE d == SubSeq(Body, lo + 1, hi)
           z == hi - lo
           a == Item("size", z)
           b == Item("crlf", 0)
<1>3. z \in Nat /\ a \in Items /\ b \in Items
  BY <1>2, ItemIs
<1>4. d \in Seq(Items) /\ Len(d) = z /\ \A j \in 1..z : d[j] = Body[lo + j]
  <2>1. lo \in Nat /\ z \in Nat /\ lo + z = hi /\ lo + z <= Len(Body)
    BY <1>2, <1>3, BodyIs
  <2> DEFINE e == SubSeq(Body, lo + 1, lo + z)
  <2>2. e \in Seq(Items) /\ Len(e) = z /\ \A j \in 1..z : e[j] = Body[lo + j]
    <3> HIDE DEF z
    <3> QED
      BY <2>1, BodyIs, PartIs
  <2>3. d = e
    BY <2>1
  <2> HIDE DEF d, e, z
  <2> QED
    BY <2>2, <2>3
<1>5. Chunk(ends, i) = (<<a>> \o <<b>>) \o d \o <<b>>
  BY DEF Chunk, Size, Crlf
<1> HIDE DEF d, z, a, b
<1>6. /\ (<<a>> \o <<b>>) \o d \o <<b>> \in Seq(Items)
      /\ Len((<<a>> \o <<b>>) \o d \o <<b>>) = z + 3
      /\ ((<<a>> \o <<b>>) \o d \o <<b>>)[1] = a
      /\ ((<<a>> \o <<b>>) \o d \o <<b>>)[2] = b
      /\ \A j \in 1..z : ((<<a>> \o <<b>>) \o d \o <<b>>)[2 + j] = d[j]
  BY <1>3, <1>4
<1> QED
  BY <1>2, <1>4, <1>5, <1>6 DEF a, b, z

(* Where the chunks are in what is sent.                                     *)
LEMMA ChunksAre ==
  ASSUME NEW ends \in Chunkings
  PROVE  /\ Chunks(ends) \in Seq(Items)
         /\ Len(Chunks(ends)) = Start(Pieces(ends), Len(ends)) + 3
         /\ Start(Pieces(ends), 0) = 0
         /\ Chunks(ends)[Start(Pieces(ends), Len(ends)) + 1] = Item("size", 0)
         /\ \A i \in 0..Len(ends) : Start(Pieces(ends), i) \in 0..(Len(Chunks(ends)) - 3)
         /\ \A i \in 1..Len(ends) :
              /\ Start(Pieces(ends), i)
                   = Start(Pieces(ends), i - 1) + Len(Chunk(ends, i))
              /\ \A j \in 1..Len(Chunk(ends, i)) :
                   Chunks(ends)[Start(Pieces(ends), i - 1) + j] = Chunk(ends, i)[j]
<1> DEFINE w == Chunks(ends)
           p == Pieces(ends)
           f == FlattenSeq(p)
           a == Item("size", 0)
           b == Item("crlf", 0)
           k == Len(ends)
<1>1. k \in Nat /\ DOMAIN ends = 1..k
  BY ChunkingIs
<1>2. \A i \in 1..k : Chunk(ends, i) \in Seq(Items)
  BY ChunkIs
<1>3. /\ p \in Seq(Seq(Items)) /\ Len(p) = k
      /\ \A i \in 1..k : p[i] = Chunk(ends, i) /\ p[i] \in Seq(Items)
  BY <1>1, <1>2 DEF Pieces
<1>4. /\ Start(p, 0) = 0 /\ Start(p, Len(p)) = Len(f) /\ f \in Seq(Items)
      /\ \A i \in 0..Len(p) : Start(p, i) \in 0..Len(f)
      /\ \A i \in 1..Len(p) :
           /\ Start(p, i) = Start(p, i - 1) + Len(p[i])
           /\ \A j \in 1..Len(p[i]) : f[Start(p, i - 1) + j] = p[i][j]
  BY <1>3, FlattenPieces
<1>5. w = f \o (<<a>> \o <<b>>) \o <<b>>
  BY DEF Chunks, Size, Crlf, Pieces
<1>6. a \in Items /\ b \in Items
  BY ItemIs
<1> HIDE DEF f, a, b, k, w, p
<1>7. /\ w \in Seq(Items) /\ Len(w) = Len(f) + 3 /\ Len(f) \in Nat
      /\ w[Len(f) + 1] = a
      /\ \A j \in 1..Len(f) : w[j] = f[j]
  <2>1. Len(f) \in Nat /\ f \in Seq(Items)
    BY <1>4
  <2>2. /\ f \o (<<a>> \o <<b>>) \o <<b>> \in Seq(Items)
        /\ Len(f \o (<<a>> \o <<b>>) \o <<b>>) = Len(f) + 3
        /\ (f \o (<<a>> \o <<b>>) \o <<b>>)[Len(f) + 1] = a
        /\ \A j \in 1..Len(f) : (f \o (<<a>> \o <<b>>) \o <<b>>)[j] = f[j]
    BY <1>6, <2>1
  <2> QED
    BY <1>5, <2>1, <2>2
<1>8. ASSUME NEW i \in 1..k
      PROVE  /\ p[i] = Chunk(ends, i) /\ p[i] \in Seq(Items)
             /\ Start(p, i) = Start(p, i - 1) + Len(p[i])
             /\ \A j \in 1..Len(p[i]) : w[Start(p, i - 1) + j] = p[i][j]
  <2>1. /\ i \in 0..Len(p) /\ i - 1 \in 0..Len(p) /\ i \in 1..Len(p)
        /\ p[i] = Chunk(ends, i) /\ p[i] \in Seq(Items)
    BY <1>1, <1>3
  <2>2. Len(p[i]) \in Nat
    BY <2>1, LenProperties
  <2>3. /\ Start(p, i) = Start(p, i - 1) + Len(p[i])
        /\ Start(p, i) \in 0..Len(f) /\ Start(p, i - 1) \in 0..Len(f)
        /\ \A j \in 1..Len(p[i]) : f[Start(p, i - 1) + j] = p[i][j]
    BY <1>4, <2>1
  <2>4. ASSUME NEW j \in 1..Len(p[i]) PROVE w[Start(p, i - 1) + j] = p[i][j]
    <3>1. Start(p, i - 1) + j \in 1..Len(f)
      BY <1>7, <2>2, <2>3
    <3> QED
      BY <1>7, <2>3, <3>1
  <2> QED
    BY <2>1, <2>3, <2>4
<1>9. Start(p, k) = Len(f) /\ \A i \in 0..k : Start(p, i) \in 0..Len(f)
  BY <1>3, <1>4
<1>10. \A i \in 0..k : Start(p, i) \in 0..(Len(w) - 3)
  <2>1. Len(w) - 3 = Len(f)
    BY <1>7
  <2> QED
    BY <1>9, <2>1
<1> QED
  BY <1>4, <1>7, <1>8, <1>9, <1>10 DEF a, k, w, p

-----------------------------------------------------------------------------
(* One turn                                                                  *)

(* A line that starts with no line end and is followed by one ends there.     *)
LEMMA LineEndIs ==
  ASSUME NEW body \in Seq(Items), NEW pos \in 1..Len(body), body[pos].kind # "crlf"
  PROVE  /\ pos = Len(body) => LineEnd(body, pos) = 0
         /\ pos < Len(body) /\ body[pos + 1].kind = "crlf" => LineEnd(body, pos) = pos + 1
<1>1. Len(body) \in Nat /\ pos \in Nat
  BY LenProperties
<1>2. ASSUME pos = Len(body) PROVE LineEnd(body, pos) = 0
  <2>1. pos..Len(body) = {pos}
    BY <1>1, <1>2
  <2> QED
    BY <2>1 DEF LineEnd
<1>3. ASSUME pos < Len(body), body[pos + 1].kind = "crlf"
      PROVE  LineEnd(body, pos) = pos + 1
  <2> DEFINE P(n) == body[n].kind = "crlf" /\ \A k \in pos..(n - 1) : body[k].kind # "crlf"
  <2>1. /\ pos + 1 \in pos..Len(body) /\ pos..((pos + 1) - 1) = {pos}
    BY <1>1, <1>3
  <2>2. P(pos + 1)
    BY <1>3, <2>1
  <2>3. ASSUME NEW n \in pos..Len(body), P(n) PROVE n = pos + 1
    <3>1. n # pos
      BY <2>3
    <3>2. ~(pos + 1 < n)
      <4>1. pos + 1 < n => pos + 1 \in pos..(n - 1)
        BY <1>1
      <4> QED
        BY <1>3, <2>3, <4>1
    <3> QED
      BY <1>1, <3>1, <3>2
  <2>4. LineEnd(body, pos) = CHOOSE n \in pos..Len(body) : P(n)
    BY <1>3, <2>1 DEF LineEnd
  <2> HIDE DEF P
  <2>5. (CHOOSE n \in pos..Len(body) : P(n)) \in pos..Len(body)
        /\ P(CHOOSE n \in pos..Len(body) : P(n))
    BY <2>1, <2>2
  <2> QED
    BY <2>3, <2>4, <2>5
<1> QED
  BY <1>2, <1>3

\* Where the loop is after i chunks.
At(ends, i) ==
  [pos |-> Start(Pieces(ends), i) + 1, out |-> SubSeq(Body, 1, End(ends, i))]

(* At the last chunk the loop ends.                                          *)
LEMMA LastTurn ==
  ASSUME NEW ends \in Chunkings, NEW n \in 0..Len(Chunks(ends)),
         NEW body, body = SubSeq(Chunks(ends), 1, n)
  PROVE  Turn(body, At(ends, Len(ends))) = At(ends, Len(ends))
<1> DEFINE w == Chunks(ends)
           k == Len(ends)
           pos == At(ends, k).pos
<1>1. /\ w \in Seq(Items) /\ Len(w) = pos + 2 /\ w[pos] = Item("size", 0)
      /\ pos \in Nat /\ pos >= 1
  <2>1. /\ w \in Seq(Items) /\ Len(w) = Start(Pieces(ends), k) + 3
        /\ w[Start(Pieces(ends), k) + 1] = Item("size", 0)
        /\ Start(Pieces(ends), k) \in 0..(Len(w) - 3)
    BY ChunksAre, ChunkingIs
  <2>2. pos = Start(Pieces(ends), k) + 1
    BY DEF At
  <2> QED
    BY <2>1, <2>2
<1> HIDE DEF w, pos
<1>2. /\ n \in Nat /\ n <= Len(w)
      /\ \A j \in 1..n : w[j] \in Items
  BY <1>1 DEF w
<1>3. Len(body) = n /\ \A j \in 1..n : body[j] = w[j]
  BY <1>2 DEF w
<1>4. pos <= n => body[pos].n = 0
  BY <1>1, <1>2, <1>3, ItemIs
<1>5. ~More(body, pos)
  BY <1>3, <1>4 DEF More
<1> QED
  BY <1>5 DEF Turn, pos, k

(* At another chunk the loop takes the chunk, or ends as it is cut short.     *)
LEMMA NextTurn ==
  ASSUME NEW ends \in Chunkings, NEW n \in 0..Len(Chunks(ends)),
         NEW body, body = SubSeq(Chunks(ends), 1, n), NEW i \in 0..(Len(ends) - 1)
  PROVE  /\ Turn(body, At(ends, i)) \in {At(ends, i), At(ends, i + 1)}
         /\ n = Len(Chunks(ends)) => Turn(body, At(ends, i)) = At(ends, i + 1)
<1> DEFINE w == Chunks(ends)
           p == Pieces(ends)
           t == Start(p, i)
           pos == t + 1
           lo == End(ends, i)
           hi == End(ends, i + 1)
           z == hi - lo
<1>1. i + 1 \in 1..Len(ends) /\ (i + 1) - 1 = i /\ i \in 0..Len(ends) /\ i + 1 \in 0..Len(ends)
  BY ChunkingIs
<1>2. /\ lo \in 0..BodyLen /\ hi \in 0..BodyLen /\ lo < hi
      /\ Len(Chunk(ends, i + 1)) = (hi - lo) + 3
      /\ Chunk(ends, i + 1)[1] = Item("size", hi - lo)
      /\ Chunk(ends, i + 1)[2] = Item("crlf", 0)
      /\ \A j \in 1..(hi - lo) : Chunk(ends, i + 1)[2 + j] = Body[lo + j]
  BY <1>1, ChunkIs
<1>3. /\ w \in Seq(Items)
      /\ t \in 0..(Len(w) - 3) /\ Start(p, i + 1) \in 0..(Len(w) - 3)
      /\ Start(p, i + 1) = t + Len(Chunk(ends, i + 1))
      /\ \A j \in 1..Len(Chunk(ends, i + 1)) : w[t + j] = Chunk(ends, i + 1)[j]
  BY <1>1, ChunksAre
<1> HIDE DEF w, p, t, lo, hi
<1>4. /\ BodyLen \in Nat /\ lo \in Nat /\ hi \in Nat /\ z \in Nat /\ z # 0 /\ hi <= BodyLen
  BY <1>2, BodyIs
<1>5. Len(w) \in Nat /\ t \in Nat /\ pos + z + 3 + 2 <= Len(w) /\ Start(p, i + 1) = pos + z + 2
  <2>1. Len(w) \in Nat
    BY <1>3, LenProperties
  <2>2. Len(Chunk(ends, i + 1)) = z + 3
    BY <1>2, <1>3
  <2>3. /\ t \in 0..(Len(w) - 3) /\ Start(p, i + 1) \in 0..(Len(w) - 3)
        /\ Start(p, i + 1) = t + (z + 3)
    BY <1>3, <2>2
  <2> HIDE DEF z
  <2> QED
    BY <1>4, <2>1, <2>3
<1>6. w[pos] = Item("size", z) /\ w[pos + 1] = Item("crlf", 0)
      /\ \A j \in 1..z : w[pos + 1 + j] = Body[lo + j]
  <2>1. 1 \in 1..(z + 3) /\ 2 \in 1..(z + 3) /\ \A j \in 1..z : 2 + j \in 1..(z + 3)
    BY <1>4
  <2>2. w[t + 1] = Chunk(ends, i + 1)[1] /\ w[t + 2] = Chunk(ends, i + 1)[2]
        /\ \A j \in 1..z : w[t + (2 + j)] = Chunk(ends, i + 1)[2 + j]
    BY <1>2, <1>3, <2>1
  <2>3. t + 2 = pos + 1 /\ \A j \in 1..z : t + (2 + j) = pos + 1 + j
    BY <1>4, <1>5
  <2> HIDE DEF z
  <2> QED
    BY <1>2, <2>2, <2>3 DEF z
<1>7. /\ n \in Nat /\ n <= Len(w) /\ \A j \in 1..n : w[j] \in Items
  BY <1>3 DEF w
<1>8. body \in Seq(Items) /\ Len(body) = n /\ \A j \in 1..n : body[j] = w[j]
  BY <1>7 DEF w
<1> HIDE DEF z
<1>9. /\ Item("size", z).kind = "size" /\ Item("size", z).n = z
      /\ Item("crlf", 0).kind = "crlf"
  BY <1>4, ItemIs
<1>10. pos <= n => body[pos] = Item("size", z)
  BY <1>5, <1>6, <1>7, <1>8
<1>11. pos + 1 <= n => body[pos + 1] = Item("crlf", 0)
  BY <1>5, <1>6, <1>7, <1>8
<1>12. pos + 1 <= n => LineEnd(body, pos) = pos + 1
  <2>1. pos + 1 <= n => pos \in 1..Len(body) /\ pos < Len(body) /\ pos <= n
    BY <1>5, <1>7, <1>8
  <2> HIDE DEF pos
  <2> QED
    BY <1>8, <1>9, <1>10, <1>11, <2>1, LineEndIs
<1>13. At(ends, i).pos = pos /\ At(ends, i).out = SubSeq(Body, 1, lo)
  BY DEF At, t, p, lo
<1>14. ASSUME pos + 1 + z <= n PROVE Turn(body, At(ends, i)) = At(ends, i + 1)
  <2>1. pos + 1 <= n /\ pos <= n /\ pos + 1 > pos
    BY <1>4, <1>5, <1>7, <1>14
  <2>2. LineEnd(body, pos) = pos + 1 /\ ChunkEnd(body, pos) = pos + 1 + z
    BY <1>9, <1>10, <1>12, <2>1 DEF ChunkEnd
  <2>3. More(body, pos)
    BY <1>4, <1>8, <1>9, <1>10, <1>14, <2>1, <2>2 DEF More
  <2>4. NextChunk(ChunkEnd(body, pos)) = Start(p, i + 1) + 1
    BY <1>4, <1>5, <2>2 DEF NextChunk
  <2>5. SubSeq(Body, 1, lo) \o SubSeq(body, LineEnd(body, pos) + 1, ChunkEnd(body, pos))
          = SubSeq(Body, 1, hi)
    <3> DEFINE x == pos + 1
               b == SubSeq(body, x + 1, x + z)
               c == SubSeq(Body, lo + 1, lo + z)
    <3>1. /\ x \in Nat /\ x + z <= Len(body) /\ lo + z = hi /\ lo + z <= Len(Body)
          /\ \A j \in 1..z : x + j \in 1..n
      BY <1>4, <1>5, <1>7, <1>8, <1>14, BodyIs DEF z
    <3> HIDE DEF x
    <3>2. b \in Seq(Items) /\ Len(b) = z /\ \A j \in 1..z : b[j] = body[x + j]
      BY <1>4, <1>8, <3>1, PartIs
    <3>3. c \in Seq(Items) /\ Len(c) = z /\ \A j \in 1..z : c[j] = Body[lo + j]
      BY <1>4, <3>1, BodyIs, PartIs
    <3>4. \A j \in 1..z : body[x + j] = Body[lo + j]
      BY <1>6, <1>8, <3>1 DEF x
    <3> HIDE DEF b, c, pos
    <3>5. b = c
      <4>1. \A j \in 1..z : b[j] = c[j]
        BY <3>2, <3>3, <3>4
      <4> QED
        BY <1>4, <3>2, <3>3, <4>1, SeqEqual
    <3>6. SubSeq(Body, 1, lo) \o c = SubSeq(Body, 1, hi)
      <4>1. /\ 1 \in 1..(Len(Body) + 1) /\ lo \in (1 - 1)..Len(Body)
            /\ hi \in lo..Len(Body)
        BY <1>4, <3>1, BodyIs
      <4>2. SubSeq(Body, 1, lo) \o SubSeq(Body, lo + 1, hi) = SubSeq(Body, 1, hi)
        BY <4>1, BodyIs, ConcatAdjacentSubSeq
      <4> QED
        BY <3>1, <4>2 DEF c
    <3>7. LineEnd(body, pos) = x /\ ChunkEnd(body, pos) = x + z
      BY <2>2 DEF x
    <3> QED
      BY <3>5, <3>6, <3>7 DEF b
  <2> HIDE DEF pos
  <2> QED
    BY <1>13, <2>3, <2>4, <2>5 DEF Turn, At, p, hi
<1>15. ASSUME ~(pos + 1 + z <= n) PROVE Turn(body, At(ends, i)) = At(ends, i)
  <2>1. CASE pos + 1 <= n
    <3>1. pos <= n
      BY <1>5, <1>7, <2>1
    <3>2. ChunkEnd(body, pos) = pos + 1 + z
      BY <1>9, <1>10, <1>12, <2>1, <3>1 DEF ChunkEnd
    <3>3. ~More(body, pos)
      BY <1>8, <1>15, <3>2 DEF More
    <3> QED
      BY <1>13, <3>3 DEF Turn
  <2>2. CASE pos = n
    <3>1. pos \in 1..Len(body) /\ pos = Len(body) /\ pos <= n
      BY <1>5, <1>7, <1>8, <2>2
    <3>2. LineEnd(body, pos) = 0
      <4> HIDE DEF pos
      <4> QED
        BY <1>8, <1>9, <1>10, <3>1, LineEndIs
    <3>3. ~More(body, pos)
      BY <1>5, <3>2 DEF More
    <3> QED
      BY <1>13, <3>3 DEF Turn
  <2>3. CASE ~(pos <= n)
    <3>1. ~More(body, pos)
      BY <1>8, <2>3 DEF More
    <3> QED
      BY <1>13, <3>1 DEF Turn
  <2> QED
    BY <1>5, <1>7, <2>1, <2>2, <2>3
<1>16. n = Len(w) => pos + 1 + z <= n
  BY <1>4, <1>5
<1> QED
  BY <1>14, <1>15, <1>16 DEF w

-----------------------------------------------------------------------------
(* All turns                                                                 *)

\* The recursion that DecodeChunked evaluates.
Turns(f, body) ==
  f = [k \in 0..Len(body) |->
         IF k = 0 THEN [pos |-> 1, out |-> << >>] ELSE Turn(body, f[k - 1])]

(* The recursion has a solution.                                             *)
LEMMA TurnsExist ==
  ASSUME NEW body \in Seq(Items)
  PROVE  \E f : Turns(f, body)
<1> DEFINE first == [pos |-> 1, out |-> << >>]
           Upto(f, n) == f = [k \in 0..n |-> IF k = 0 THEN first ELSE Turn(body, f[k - 1])]
           S == {n \in Nat : \E f : Upto(f, n)}
<1> HIDE DEF first
<1>1. 0 \in S
  <2> DEFINE f == [k \in {0} |-> first]
  <2>1. 0..0 = {0}
    OBVIOUS
  <2>2. f = [k \in 0..0 |-> IF k = 0 THEN first ELSE Turn(body, f[k - 1])]
    BY <2>1
  <2> HIDE DEF f
  <2>3. \E g : Upto(g, 0)
    BY <2>2
  <2> QED
    BY <2>3
<1>2. ASSUME NEW n \in Nat, n \in S PROVE n + 1 \in S
  <2>1. PICK f : Upto(f, n)
    BY <1>2
  <2> DEFINE g == [k \in 0..(n + 1) |-> IF k = n + 1 THEN Turn(body, f[n]) ELSE f[k]]
  <2>2. ASSUME NEW k \in 0..(n + 1)
        PROVE  g[k] = IF k = 0 THEN first ELSE Turn(body, g[k - 1])
    <3>1. CASE k = n + 1
      <4>1. k - 1 = n /\ k # 0 /\ n \in 0..(n + 1) /\ n # n + 1
        BY <3>1
      <4>2. g[n] = f[n]
        BY <4>1
      <4> QED
        BY <3>1, <4>1, <4>2
    <3>2. CASE k # n + 1 /\ k # 0
      <4>1. k \in 0..n /\ k - 1 \in 0..(n + 1) /\ k - 1 # n + 1
        BY <3>2
      <4>2. g[k] = f[k] /\ g[k - 1] = f[k - 1]
        BY <3>2, <4>1
      <4>3. f[k] = Turn(body, f[k - 1])
        BY <2>1, <3>2, <4>1
      <4> QED
        BY <3>2, <4>2, <4>3
    <3>3. CASE k # n + 1 /\ k = 0
      BY <2>1, <3>3
    <3> QED
      BY <3>1, <3>2, <3>3
  <2>3. g = [k \in 0..(n + 1) |-> g[k]]
    OBVIOUS
  <2> HIDE DEF g
  <2>4. Upto(g, n + 1)
    BY <2>2, <2>3
  <2>5. \E h : Upto(h, n + 1)
    BY <2>4
  <2> HIDE DEF Upto
  <2> QED
    BY <2>5
<1>3. Len(body) \in S
  <2>1. Len(body) \in Nat
    BY LenProperties
  <2> HIDE DEF S
  <2> QED
    BY <1>1, <1>2, <2>1, EveryNatural
<1> QED
  BY <1>3 DEF Turns, first

(* DecodeChunked evaluates a solution.                                       *)
LEMMA DecodeIs ==
  ASSUME NEW body \in Seq(Items)
  PROVE  \E f : Turns(f, body) /\ DecodeChunked(body) = f[Len(body)].out
<1> DEFINE F == CHOOSE f : Turns(f, body)
<1>1. \E f : Turns(f, body)
  BY TurnsExist
<1>2. Turns(F, body)
  BY <1>1
<1>3. DecodeChunked(body) = F[Len(body)].out
  BY DEF DecodeChunked, Turns
<1> HIDE DEF F
<1> QED
  BY <1>2, <1>3

(* There are more items than chunks.                                         *)
LEMMA MoreItems ==
  ASSUME NEW ends \in Chunkings
  PROVE  Len(ends) <= Len(Chunks(ends))
<1> DEFINE t(i) == Start(Pieces(ends), i)
           k == Len(ends)
           S == {i \in Nat : i \in 0..k => i <= t(i)}
<1>1. /\ k \in Nat /\ t(0) = 0 /\ \A i \in 0..k : t(i) \in 0..(Len(Chunks(ends)) - 3)
      /\ \A i \in 1..k : t(i) = t(i - 1) + Len(Chunk(ends, i))
  BY ChunkingIs, ChunksAre
<1>2. \A i \in 1..k : Len(Chunk(ends, i)) \in Nat /\ Len(Chunk(ends, i)) >= 1
  <2> SUFFICES ASSUME NEW i \in 1..k
               PROVE  Len(Chunk(ends, i)) \in Nat /\ Len(Chunk(ends, i)) >= 1
    OBVIOUS
  <2>1. /\ End(ends, i - 1) \in 0..BodyLen /\ End(ends, i) \in 0..BodyLen
        /\ End(ends, i - 1) < End(ends, i)
        /\ Len(Chunk(ends, i)) = (End(ends, i) - End(ends, i - 1)) + 3
    BY ChunkIs
  <2> QED
    BY <2>1, BodyIs
<1> HIDE DEF t, k
<1>3. 0 \in S
  BY <1>1
<1>4. ASSUME NEW i \in Nat, i \in S PROVE i + 1 \in S
  <2> SUFFICES ASSUME i + 1 \in 0..k PROVE i + 1 <= t(i + 1)
    OBVIOUS
  <2>1. i \in 0..k /\ i + 1 \in 1..k /\ (i + 1) - 1 = i
    BY <1>1
  <2>2. i <= t(i) /\ t(i) \in 0..(Len(Chunks(ends)) - 3)
    BY <1>1, <1>4, <2>1
  <2>3. t(i + 1) = t(i) + Len(Chunk(ends, i + 1))
    BY <1>1, <2>1
  <2>4. Len(Chunk(ends, i + 1)) \in Nat /\ Len(Chunk(ends, i + 1)) >= 1
    BY <1>2, <2>1
  <2> QED
    BY <2>2, <2>3, <2>4
<1>5. k \in S
  <2> HIDE DEF S
  <2> QED
    BY <1>1, <1>3, <1>4, EveryNatural
<1>6. Len(Chunks(ends)) \in Nat
  BY ChunksAre, LenProperties
<1>7. k <= t(k) /\ t(k) \in 0..(Len(Chunks(ends)) - 3)
  BY <1>1, <1>5
<1> QED
  BY <1>1, <1>6, <1>7 DEF k

(* Whatever the chunks and wherever the connection ends, the decoded body is *)
(* a prefix of what was sent, and all of it when nothing is missing.         *)
LEMMA Decoded ==
  ASSUME NEW ends \in Chunkings, NEW n \in 0..Len(Chunks(ends)),
         NEW body, body = SubSeq(Chunks(ends), 1, n)
  PROVE  /\ IsPrefix(DecodeChunked(body), Body)
         /\ n = Len(Chunks(ends)) => DecodeChunked(body) = Body
<1> DEFINE w == Chunks(ends)
           k == Len(ends)
<1>1. w \in Seq(Items) /\ Len(w) \in Nat /\ k \in Nat /\ k <= Len(w)
  BY ChunksAre, ChunkingIs, MoreItems, LenProperties
<1>2. n \in Nat /\ body \in Seq(Items) /\ Len(body) = n
  <2>1. n \in Nat /\ 0 + n <= Len(w) /\ 0 + 1 = 1 /\ 0 + n = n
    BY <1>1
  <2>2. SubSeq(w, 0 + 1, 0 + n) \in Seq(Items) /\ Len(SubSeq(w, 0 + 1, 0 + n)) = n
    <3> HIDE DEF w
    <3> QED
      BY <1>1, <2>1, PartIs
  <2> QED
    BY <2>1, <2>2
<1>3. PICK f : Turns(f, body) /\ DecodeChunked(body) = f[Len(body)].out
  BY <1>2, DecodeIs
<1> DEFINE There(j, i) == f[j] = At(ends, i) /\ (n = Len(w) => i = j \/ i = k)
           S == {j \in Nat : j \in 0..n => \E i \in 0..k : There(j, i)}
<1>4. 0 \in S
  <2>1. f[0] = [pos |-> 1, out |-> << >>]
    BY <1>2, <1>3 DEF Turns
  <2>2. At(ends, 0) = [pos |-> 1, out |-> << >>]
    <3>1. Start(Pieces(ends), 0) + 1 = 1 /\ End(ends, 0) = 0
      BY ChunksAre, ChunkingIs
    <3>2. SubSeq(Body, 1, 0) = << >>
      BY SubSeqEmpty
    <3> QED
      BY <3>1, <3>2 DEF At
  <2>3. There(0, 0) /\ 0 \in 0..k
    BY <1>1, <2>1, <2>2
  <2> HIDE DEF There
  <2> QED
    BY <2>3
<1>5. ASSUME NEW j \in Nat, j \in S PROVE j + 1 \in S
  <2> SUFFICES ASSUME j + 1 \in 0..n PROVE \E i \in 0..k : There(j + 1, i)
    <3> HIDE DEF There
    <3> QED
      OBVIOUS
  <2>1. j \in 0..n /\ (j + 1) - 1 = j /\ j + 1 # 0
    BY <1>2
  <2>2. PICK i \in 0..k : There(j, i)
    BY <1>5, <2>1
  <2>3. f[j + 1] = Turn(body, At(ends, i))
    BY <1>2, <1>3, <2>1, <2>2 DEF Turns
  <2>4. CASE i = k
    <3>1. f[j + 1] = At(ends, k)
      BY <2>3, <2>4, LastTurn
    <3>2. There(j + 1, k) /\ k \in 0..k
      BY <1>1, <3>1
    <3> HIDE DEF There
    <3> QED
      BY <3>2
  <2>5. CASE i # k
    <3>1. i \in 0..(k - 1) /\ i \in 0..k /\ i + 1 \in 0..k
      BY <1>1, <2>5
    <3>2. /\ Turn(body, At(ends, i)) \in {At(ends, i), At(ends, i + 1)}
          /\ n = Len(w) => Turn(body, At(ends, i)) = At(ends, i + 1)
      BY <3>1, NextTurn
    <3>3. n = Len(w) => i = j
      BY <2>2, <2>5
    <3>4. CASE Turn(body, At(ends, i)) = At(ends, i + 1)
      <4>1. There(j + 1, i + 1)
        BY <2>3, <3>3, <3>4
      <4> HIDE DEF There
      <4> QED
        BY <3>1, <4>1
    <3>5. CASE n # Len(w) /\ Turn(body, At(ends, i)) = At(ends, i)
      <4>1. There(j + 1, i)
        BY <2>3, <3>5
      <4> HIDE DEF There
      <4> QED
        BY <3>1, <4>1
    <3> QED
      BY <3>2, <3>4, <3>5
  <2> QED
    BY <2>4, <2>5
<1>6. PICK i \in 0..k : There(n, i)
  <2>1. n \in S
    <3> HIDE DEF S
    <3> QED
      BY <1>2, <1>4, <1>5, EveryNatural
  <2> QED
    BY <1>2, <2>1
<1>7. DecodeChunked(body) = SubSeq(Body, 1, End(ends, i))
  BY <1>2, <1>3, <1>6 DEF At
<1>8. End(ends, i) \in 0..BodyLen /\ End(ends, k) = BodyLen
  BY ChunkingIs
<1>9. IsPrefix(DecodeChunked(body), Body)
  BY <1>7, <1>8, BodyPart
<1>10. ASSUME n = Len(w) PROVE DecodeChunked(body) = Body
  <2>1. i = n \/ i = k
    BY <1>6, <1>10
  <2>2. i = k
    <3> HIDE DEF w, k
    <3> QED
      BY <1>1, <1>10, <2>1
  <2>3. SubSeq(Body, 1, BodyLen) = Body
    BY BodyIs, SubSeqFull
  <2> QED
    BY <1>7, <1>8, <2>2, <2>3
<1> QED
  BY <1>9, <1>10

(* The same of every answer, however it was framed.                          *)
LEMMA Parsed ==
  ASSUME NEW framing, NEW stream \in Streams(framing), NEW n \in 0..Len(stream)
  PROVE  /\ IsPrefix(ParseResponse(framing, SubSeq(stream, 1, n)), Body)
         /\ ParseResponse(framing, stream) = Body
<1>1. CASE framing = "chunked"
  <2>1. PICK ends \in Chunkings : stream = Chunks(ends)
    BY <1>1 DEF Streams
  <2>2. Chunks(ends) \in Seq(Items) /\ Len(Chunks(ends)) \in 0..Len(Chunks(ends))
    BY ChunksAre, LenProperties
  <2>3. SubSeq(stream, 1, Len(stream)) = stream
    BY <2>1, <2>2, SubSeqFull
  <2>4. IsPrefix(DecodeChunked(SubSeq(Chunks(ends), 1, n)), Body)
    BY <2>1, Decoded
  <2>5. DecodeChunked(SubSeq(Chunks(ends), 1, Len(Chunks(ends)))) = Body
    BY <2>2, Decoded
  <2> QED
    BY <1>1, <2>1, <2>3, <2>4, <2>5 DEF ParseResponse
<1>2. CASE framing # "chunked"
  <2>1. stream = Body /\ n \in 0..BodyLen /\ Len(Body) = BodyLen /\ BodyLen \in Nat
    BY <1>2, BodyIs DEF Streams
  <2>2. Len(SubSeq(Body, 1, n)) = n /\ IsPrefix(SubSeq(Body, 1, n), Body)
    BY <2>1, BodyPart
  <2>3. ~(n > BodyLen) /\ ~(BodyLen > BodyLen)
    BY <2>1
  <2> QED
    BY <1>2, <2>1, <2>2, <2>3 DEF ParseResponse
<1> QED
  BY <1>1, <1>2

(* An answer that is read is a prefix of what was sent, whatever the body,   *)
(* the framing, the chunks and the place at which the connection ended, and  *)
(* all of it when it held (http_response.cpp:122-206).                       *)
THEOREM BodiesArePrefixes == Spec => []BodyIsPrefix
<1>1. BodyIsPrefix
  <2> SUFFICES ASSUME NEW framing \in Framings, NEW status \in 200..299
               PROVE  /\ \A r \in Reads(framing, status) : IsPrefix(r.body, Body)
                      /\ \A stream \in Streams(framing) : ParseResponse(framing, stream) = Body
    BY DEF BodyIsPrefix
  <2>1. ASSUME NEW r \in Reads(framing, status) PROVE IsPrefix(r.body, Body)
    <3>1. CASE r = Failed
      <4>1. SubSeq(Body, 1, 0) = << >> /\ 0 \in 0..BodyLen
        BY SubSeqEmpty, BodyIs
      <4> QED
        BY <3>1, <4>1, BodyPart DEF Failed
    <3>2. CASE r # Failed
      <4>1. PICK b \in Bodies[framing] : r = [status |-> status, ok |-> TRUE, body |-> b]
        BY <3>2 DEF Reads
      <4>2. PICK stream \in Streams(framing) :
              b \in {ParseResponse(framing, SubSeq(stream, 1, n)) : n \in 0..Len(stream)}
        BY DEF Bodies
      <4>3. PICK n \in 0..Len(stream) : b = ParseResponse(framing, SubSeq(stream, 1, n))
        BY <4>2
      <4> QED
        BY <4>1, <4>3, Parsed
    <3> QED
      BY <3>1, <3>2
  <2>2. ASSUME NEW stream \in Streams(framing) PROVE ParseResponse(framing, stream) = Body
    <3>1. Len(stream) \in Nat
      <4>1. CASE framing = "chunked"
        BY <4>1, ChunksAre, LenProperties DEF Streams
      <4>2. CASE framing # "chunked"
        BY <4>2, BodyIs DEF Streams
      <4> QED
        BY <4>1, <4>2
    <3> QED
      BY <3>1, Parsed
  <2> QED
    BY <2>1, <2>2
<1> QED
  BY <1>1, PTL DEF Spec
=============================================================================
