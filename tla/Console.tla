-------------------------------- MODULE Console -------------------------------
(***************************************************************************)
(* Accounts in the C++ client: registration, login, logout, switching      *)
(* users and changing the password, as main.cpp drives Auth.cpp and        *)
(* key_wrap.hpp, over the routes of server/app/auth/routes.py.             *)
(*                                                                         *)
(* Several consoles use one server of several workers.  A request may      *)
(* never get there, may get there after its console gave up, and its       *)
(* answer may be cut short (Http).  A row is read first and written later, *)
(* by a login too when it renews the hash.  A password stands for what is  *)
(* derived from it and a random salt; a key for the X25519 pair.           *)
(***************************************************************************)
EXTENDS Http, FiniteSets

CONSTANTS
  Consoles,   \* runs of the program
  Workers,    \* processes of the server
  FullArgon,  \* consoles built with OpenSSL 3.2 or later: Argon2id in four lanes
  Names,      \* usernames
  Passwords,
  Weak,       \* passwords the server refuses to register
  NewPasswords,\* bound: what a password is changed to
  Keys,       \* bound: key pairs ever generated
  Tokens,     \* bound: tokens the server ever issues
  MaxLate,    \* bound: requests nobody waits for that the server has yet to end
  None

ASSUME WorkersAssumption == Workers # {}
ASSUME PasswordsAssumption == Weak \subseteq Passwords /\ NewPasswords \subseteq Passwords

\* What the routes answer; a console that got no answer takes it for 0.
Statuses == {200, 201, 400, 401, 409}

\* A wrapped private key: a JSON bundle, or the nonce and one cipher text.
Wrap == [form: {"bundle", "flat"}, pw: Passwords, lanes: {1, 4}, key: Keys]

ASSUME NoneAssumption ==
  None \notin Names \cup Passwords \cup Keys \cup Tokens \cup Statuses \cup {0} \cup Wrap

VARIABLES
  users,    \* the users table
  session,  \* each token: whose, and whether it has yet to expire
  blocked,  \* revoked_jtis of each worker
  forgotten,\* history: tokens that a restart took off a blocklist
  pc,       \* where each console is
  choice,   \* register or login, until the console has a client
  typed,    \* creds, in a turn of that loop
  pair,     \* kp, in a turn that registers
  auth,     \* auth
  client,   \* client: its key and its user
  sessionSk,
  req,      \* the request under way
  answer,   \* what came of it, until the console looks
  late,     \* requests nobody waits for, which the server may yet handle
  warned    \* tokens of which the user was told that they may still be active

console == <<pc, choice, typed, pair, auth, client, sessionSk, warned>>
net == <<req, answer>>
tokens == <<session, blocked, forgotten>>
vars == <<users, tokens, console, net, late>>

User == [pw: Passwords, pub: Keys, wrap: Wrap]
NoUser == [pw |-> None]

Request ==
  [kind: {"register", "login", "logout", "change"}, name: Names \cup {None},
   pw: Passwords \cup {None}, new: Passwords \cup {None}, pub: Keys \cup {None},
   wrap: Wrap \cup {None}, token: Tokens \cup {None}]
NoRequest == [kind |-> None]

\* What is left of a login or a change once its row was read: the UPDATE, with the
\* wrapped key or without, and what a login found to answer with.
Write ==
  [kind: {"write"}, name: Names, pw: Passwords, wrap: Wrap \cup {None},
   found: Wrap \cup {None}]

Answer ==
  [status: Statuses, token: Tokens \cup {None}, wrap: Wrap \cup {None}]
NoAnswer == [status |-> None]
NothingRead == [status |-> 0]

Creds == [name: Names, pw: Passwords]
NoCreds == [name |-> None]

Auth == [token: Tokens, name: Names]
NoAuth == [token |-> None]
NoClient == [key |-> None, name |-> None]

TypeOK ==
  /\ users \in [Names -> User \cup {NoUser}]
  /\ session \in [Tokens -> [of: Names \cup {None}, live: BOOLEAN]]
  /\ blocked \in [Workers -> SUBSET Tokens] /\ forgotten \subseteq Tokens
  /\ pc \in [Consoles ->
       {"menu", "prompt", "register", "login", "main", "change", "leave", "switch", "exit"}]
  /\ choice \in [Consoles -> {"register", "login", None}]
  /\ typed \in [Consoles -> Creds \cup {NoCreds}]
  /\ pair \in [Consoles -> Keys \cup {None}]
  /\ auth \in [Consoles -> Auth \cup {NoAuth}]
  /\ client \in [Consoles -> [key: Keys, name: Names] \cup {NoClient}]
  /\ sessionSk \in [Consoles -> Keys \cup {None}]
  /\ req \in [Consoles -> Request \cup Write \cup {NoRequest}]
  /\ answer \in [Consoles -> Answer \cup {NoAnswer, NothingRead}]
  /\ late \subseteq Request \cup Write
  /\ warned \subseteq Tokens

Init ==
  /\ users = [n \in Names |-> NoUser]
  /\ session = [k \in Tokens |-> [of |-> None, live |-> FALSE]]
  /\ blocked = [x \in Workers |-> {}] /\ forgotten = {}
  /\ pc = [c \in Consoles |-> "menu"]
  /\ choice = [c \in Consoles |-> None]
  /\ typed = [c \in Consoles |-> NoCreds]
  /\ pair = [c \in Consoles |-> None]
  /\ auth = [c \in Consoles |-> NoAuth]
  /\ client = [c \in Consoles |-> NoClient]
  /\ sessionSk = [c \in Consoles |-> None]
  /\ req = [c \in Consoles |-> NoRequest]
  /\ answer = [c \in Consoles |-> NoAnswer]
  /\ late = {}
  /\ warned = {}

-----------------------------------------------------------------------------
(* key_wrap.hpp                                                            *)

\* deriveKek: four lanes with OpenSSL; one with libsodium, the fallback of older
\* builds and of a derivation that fails.
Lanes(c) == IF c \in FullArgon THEN {4, 1} ELSE {1}

WrapPrivateKey(key, pw, lanes) == [form |-> "bundle", pw |-> pw, lanes |-> lanes, key |-> key]

\* What unwrapPrivateKey opens: the JSON parses, and the password leads to the
\* key that authenticates.
Unwraps(wrap, pw, lanes) == wrap.form = "bundle" /\ wrap.pw = pw /\ wrap.lanes = lanes

\* The re-wrapping of main.cpp: libsodium's Argon2id, and no bundle.
Rewrap(key, pw) == [form |-> "flat", pw |-> pw, lanes |-> 1, key |-> key]

-----------------------------------------------------------------------------
(* The network                                                             *)

Ask(c, r) == req' = [req EXCEPT ![c] = r] /\ answer' = answer

\* HttpClient::post: the HttpResponse may be any of these.
Responses(c) ==
  IF answer[c] = NothingRead THEN {Failed}
  ELSE UNION {Reads(framing, answer[c].status) : framing \in Framings}

\* 2xx.
Succeeded(r) == r.status \in 200..299

Back(c, from) == pc[c] = from /\ answer[c] # NoAnswer

\* Mutant: any status line is taken for success.
ReadsStatus(c) == \E r \in Responses(c) : r.status > 0

Reads2xx(c) == \E r \in Responses(c) : Succeeded(r)

\* The call has returned, and the next one is r, or none.
Then(c, r) ==
  /\ req' = [req EXCEPT ![c] = r]
  /\ answer' = [answer EXCEPT ![c] = NoAnswer]

NothingBack(c) ==
  /\ req[c] # NoRequest
  /\ req' = [req EXCEPT ![c] = NoRequest]
  /\ answer' = [answer EXCEPT ![c] = NothingRead]
  /\ UNCHANGED <<users, tokens, console>>

\* connectTcp fails for every address, in each of its five seconds at most; or the
\* handshake does; or the worker ends with the request.
NotSent(c) == NothingBack(c) /\ UNCHANGED late

\* SSL_write or SSL_read fails, and the request is still on its way.
GiveUp(c) ==
  /\ NothingBack(c)
  /\ Cardinality(late) < MaxLate
  /\ late' = late \cup {req[c]}

-----------------------------------------------------------------------------
(* server/app/auth/routes.py                                               *)

\* jwt_required, in worker x.
Accepted(x, k) == k \in Tokens /\ session[k].live /\ k \notin blocked[x]

Issue(name, k) ==
  /\ k \in Tokens /\ session[k].of = None
  /\ session' = [session EXCEPT ![k] = [of |-> name, live |-> TRUE]]
  /\ UNCHANGED <<blocked, forgotten>>

\* Mutant: as register does, which takes any text.
AnyText(wrap) == TRUE

\* What change_password checks of wrapped_private_key and kek_salt.
WellFormed(wrap) == wrap.form = "bundle"

\* Each handler that ends at once, with its status s and, from login, the token k.
Register(r, s, k) ==
  /\ r.kind = "register" /\ k = None
  /\ \/ s = 400 /\ r.pw \in Weak /\ UNCHANGED users
     \/ s = 409 /\ r.pw \notin Weak /\ users[r.name] # NoUser /\ UNCHANGED users
     \/ /\ s = 201 /\ r.pw \notin Weak /\ users[r.name] = NoUser
        /\ users' = [users EXCEPT ![r.name] = [pw |-> r.pw, pub |-> r.pub, wrap |-> r.wrap]]
  /\ UNCHANGED tokens

Login(r, s, k) ==
  /\ r.kind = "login"
  /\ \/ s = 401 /\ k = None /\ users[r.name].pw # r.pw /\ UNCHANGED tokens
     \/ s = 200 /\ users[r.name].pw = r.pw /\ Issue(r.name, k)
  /\ UNCHANGED users

\* Only the worker that served it knows the token as ended.
Logout(x, r, s, k) ==
  /\ r.kind = "logout" /\ k = None
  /\ \/ s = 401 /\ ~Accepted(x, r.token) /\ UNCHANGED blocked
     \/ /\ s = 200 /\ Accepted(x, r.token)
        /\ blocked' = [blocked EXCEPT ![x] = @ \cup {r.token}]
  /\ UNCHANGED <<users, session, forgotten>>

Verified(x, r) == Accepted(x, r.token) /\ users[session[r.token].of].pw = r.pw

\* The old password is verified before the wrapped key is looked at.
Refuse(x, r, s, k) ==
  /\ r.kind = "change" /\ k = None
  /\ \/ s = 401 /\ ~Verified(x, r)
     \/ s = 400 /\ Verified(x, r) /\ ~WellFormed(r.wrap)
  /\ UNCHANGED <<users, tokens>>

Handle(x, r, s, k) ==
  Register(r, s, k) \/ Login(r, s, k) \/ Logout(x, r, s, k) \/ Refuse(x, r, s, k)

\* A login that renews the hash: after an upgrade of the server, hence at any time.
Rehashes(r) == r.kind = "login" /\ users[r.name].pw = r.pw

Changes(r) == r.kind = "change" /\ WellFormed(r.wrap) /\ \E x \in Workers : Verified(x, r)

\* What is left to do of a login or a change, now that the row is read.
WriteOf(r) ==
  IF r.kind = "login"
  THEN [kind |-> "write", name |-> r.name, pw |-> r.pw, wrap |-> None,
        found |-> users[r.name].wrap]
  ELSE [kind |-> "write", name |-> session[r.token].of, pw |-> r.new, wrap |-> r.wrap,
        found |-> None]

\* UPDATE users, whatever the row holds by now; then the token of a login.
Update(w, k) ==
  /\ w.kind = "write"
  /\ users' = [users EXCEPT ![w.name] =
                 [pw |-> w.pw, pub |-> users[w.name].pub,
                  wrap |-> IF w.wrap = None THEN users[w.name].wrap ELSE w.wrap]]
  /\ IF w.found = None THEN k = None /\ UNCHANGED tokens ELSE Issue(w.name, k)

\* The wrapped key goes with the token, as the one SELECT found it.
AnswerTo(r, s, k) ==
  [status |-> s, token |-> k,
   wrap |-> IF k = None THEN None
            ELSE IF r.kind = "write" THEN r.found ELSE users[r.name].wrap]

Ends(r, s, k) ==
  \/ \E x \in Workers : Handle(x, r, s, k)
  \/ s = 200 /\ Update(r, k)

Serve(c) ==
  /\ req[c] # NoRequest
  /\ \/ /\ \E s \in Statuses, k \in Tokens \cup {None} :
             /\ Ends(req[c], s, k)
             /\ answer' = [answer EXCEPT ![c] = AnswerTo(req[c], s, k)]
        /\ req' = [req EXCEPT ![c] = NoRequest]
     \/ /\ Rehashes(req[c]) \/ Changes(req[c])
        /\ Ask(c, WriteOf(req[c]))
        /\ UNCHANGED <<users, tokens>>
  /\ UNCHANGED <<console, late>>

\* Nobody waits for the answer.
ServeLate ==
  \E r \in late :
    /\ \/ /\ \E s \in Statuses, k \in Tokens \cup {None} : Ends(r, s, k)
          /\ late' = late \ {r}
       \/ /\ Rehashes(r) \/ Changes(r)
          /\ late' = (late \ {r}) \cup {WriteOf(r)}
          /\ UNCHANGED <<users, tokens>>
    /\ UNCHANGED <<console, net>>

\* The web client changes the password and wraps the key it opened at its login, which
\* takes a bundle of four lanes.  The password it sent is verified; the UPDATE follows.
WebChange(name, new) ==
  /\ Cardinality(late) < MaxLate
  /\ users[name] # NoUser /\ users[name].wrap.lanes = 4
  /\ late' = late \cup
       {[kind |-> "write", name |-> name, pw |-> new,
         wrap |-> WrapPrivateKey(users[name].wrap.key, new, 4), found |-> None]}
  /\ UNCHANGED <<users, tokens, console, net>>

\* An expired token is refused without a look at the blocklists: the model drops it there.
Expire(k) ==
  /\ session[k].live
  /\ session' = [session EXCEPT ![k] = [of |-> session[k].of, live |-> FALSE]]
  /\ blocked' = [x \in Workers |-> blocked[x] \ {k}]
  /\ forgotten' = forgotten \ {k}
  /\ UNCHANGED <<users, console, net, late>>

\* "Cleared on server restart"
Restart(x) ==
  /\ blocked[x] # {}
  /\ blocked' = [blocked EXCEPT ![x] = {}]
  /\ forgotten' = forgotten \cup blocked[x]
  /\ UNCHANGED <<users, session, console, net, late>>

-----------------------------------------------------------------------------
(* The menu before a client, and the loop that makes one: main.cpp         *)

rest == <<users, tokens, late>>

Goto(c, p) == pc' = [pc EXCEPT ![c] = p]

\* showAuthMenu; choice is not asked for again until a client exists.
Choose(c, what) ==
  /\ pc[c] = "menu"
  /\ choice' = [choice EXCEPT ![c] = what]
  /\ Goto(c, "prompt")
  /\ UNCHANGED <<rest, typed, pair, auth, client, sessionSk, warned, net>>

\* The input has ended.
Eof(c) ==
  /\ pc[c] = "menu"
  /\ Goto(c, "exit")
  /\ UNCHANGED <<rest, choice, typed, pair, auth, client, sessionSk, warned, net>>

Blank(kind) ==
  [kind |-> kind, name |-> None, pw |-> None, new |-> None, pub |-> None, wrap |-> None,
   token |-> None]

AskLogin(name, pw) == [Blank("login") EXCEPT !.name = name, !.pw = pw]

InUse ==
  {pair[d] : d \in Consoles} \cup {r.pub : r \in late \cap Request}
    \cup {users[n].pub : n \in {m \in Names : users[m] # NoUser}}

\* Each turn of the loop generates a new pair.
StartRegister(c, name, pw, key) ==
  /\ pc[c] = "prompt" /\ choice[c] = "register"
  /\ key \notin InUse
  /\ typed' = [typed EXCEPT ![c] = [name |-> name, pw |-> pw]]
  /\ pair' = [pair EXCEPT ![c] = key]
  /\ \E lanes \in Lanes(c) :
       Ask(c, [Blank("register") EXCEPT !.name = name, !.pw = pw, !.pub = key,
                                        !.wrap = WrapPrivateKey(key, pw, lanes)])
  /\ Goto(c, "register")
  /\ UNCHANGED <<rest, choice, auth, client, sessionSk, warned>>

\* registerUser returns an empty Auth, and the login follows.
Registered(c) ==
  /\ Back(c, "register") /\ Reads2xx(c)
  /\ auth' = [auth EXCEPT ![c] = NoAuth]
  /\ Then(c, AskLogin(typed[c].name, typed[c].pw))
  /\ Goto(c, "login")
  /\ UNCHANGED <<rest, choice, typed, pair, client, sessionSk, warned>>

StartLogin(c, name, pw) ==
  /\ pc[c] = "prompt" /\ choice[c] = "login"
  /\ typed' = [typed EXCEPT ![c] = [name |-> name, pw |-> pw]]
  /\ Ask(c, AskLogin(name, pw))
  /\ Goto(c, "login")
  /\ UNCHANGED <<rest, choice, pair, auth, client, sessionSk, warned>>

\* An answer without all of its JSON does not parse.
Parses(r) == Succeeded(r) /\ r.body = Body

\* The end of a turn, with an exception or a client: creds and kp are gone.
EndTurn(c, p) ==
  /\ typed' = [typed EXCEPT ![c] = NoCreds]
  /\ pair' = [pair EXCEPT ![c] = None]
  /\ Then(c, NoRequest)
  /\ Goto(c, p)
  /\ UNCHANGED <<rest, warned>>

\* "try again"
RequestFails(c) ==
  /\ \/ Back(c, "register") /\ \E r \in Responses(c) : ~Succeeded(r)
     \/ Back(c, "login") /\ \E r \in Responses(c) : ~Parses(r)
  /\ EndTurn(c, "prompt")
  /\ UNCHANGED <<choice, auth, client, sessionSk>>

\* The token replaces the one of an earlier turn, which stays valid.
TakeAuth(c) ==
  /\ Back(c, "login") /\ \E r \in Responses(c) : Parses(r)
  /\ auth' = [auth EXCEPT ![c] = [token |-> answer[c].token, name |-> typed[c].name]]

\* The key was derived in other lanes, or there is no memory to derive it.
UnwrapFails(c) ==
  /\ TakeAuth(c)
  /\ choice[c] = "login"
  /\ EndTurn(c, "prompt")
  /\ UNCHANGED <<choice, client, sessionSk>>

\* Mutant: the pair, whether one was registered or not.
PairKey(c) == pair[c]

\* The pair just registered, or the key unwrapped.
SessionKey(c) == IF choice[c] = "register" THEN pair[c] ELSE answer[c].wrap.key

HasKey(c) ==
  \/ choice[c] = "register"
  \/ \E lanes \in Lanes(c) : Unwraps(answer[c].wrap, typed[c].pw, lanes)

Enter(c) ==
  /\ TakeAuth(c) /\ HasKey(c)
  /\ sessionSk' = [sessionSk EXCEPT ![c] = SessionKey(c)]
  /\ client' = [client EXCEPT ![c] = [key |-> SessionKey(c), name |-> typed[c].name]]
  /\ choice' = [choice EXCEPT ![c] = None]
  /\ EndTurn(c, "main")

-----------------------------------------------------------------------------
(* The main menu                                                           *)

\* Logout, the end of the input, or switching users.
Leave(c, how) ==
  /\ pc[c] = "main"
  /\ Ask(c, [Blank("logout") EXCEPT !.token = auth[c].token])
  /\ Goto(c, how)
  /\ UNCHANGED <<rest, choice, typed, pair, auth, client, sessionSk, warned>>

\* Mutant: Auth::logout does not look at the status.
Always(r) == TRUE

LoggedOut(r) == Succeeded(r)

\* "logout request failed - session may still be active server-side"
Warning(c) ==
  \E r \in Responses(c) :
    warned' = IF LoggedOut(r) THEN warned ELSE warned \cup {auth[c].token}

Quit(c) ==
  /\ Back(c, "leave")
  /\ Warning(c)
  /\ Then(c, NoRequest)
  /\ Goto(c, "exit")
  /\ UNCHANGED <<rest, choice, typed, pair, auth, client, sessionSk>>

Switch(c) ==
  /\ Back(c, "switch")
  /\ Warning(c)
  /\ client' = [client EXCEPT ![c] = NoClient]
  /\ sessionSk' = [sessionSk EXCEPT ![c] = None]
  /\ Then(c, NoRequest)
  /\ Goto(c, "menu")
  /\ UNCHANGED <<rest, choice, typed, pair, auth>>

ChangePassword(c, old, new) ==
  /\ pc[c] = "main"
  /\ Ask(c, [Blank("change") EXCEPT !.pw = old, !.new = new, !.token = auth[c].token,
                                    !.wrap = Rewrap(sessionSk[c], new)])
  /\ Goto(c, "change")
  /\ UNCHANGED <<rest, choice, typed, pair, auth, client, sessionSk, warned>>

\* Whether it was changed is only shown.
ChangeAnswered(c) ==
  /\ Back(c, "change")
  /\ Then(c, NoRequest)
  /\ Goto(c, "main")
  /\ UNCHANGED <<rest, choice, typed, pair, auth, client, sessionSk, warned>>

ConsoleStep(c) ==
  \/ Eof(c) \/ \E what \in {"register", "login"} : Choose(c, what)
  \/ \E name \in Names, pw \in Passwords :
       StartLogin(c, name, pw) \/ \E key \in Keys : StartRegister(c, name, pw, key)
  \/ Registered(c) \/ RequestFails(c) \/ UnwrapFails(c) \/ Enter(c)
  \/ \E how \in {"leave", "switch"} : Leave(c, how)
  \/ Quit(c) \/ Switch(c)
  \/ \E old \in Passwords, new \in NewPasswords : ChangePassword(c, old, new)
  \/ ChangeAnswered(c)

Next ==
  \/ \E c \in Consoles : ConsoleStep(c) \/ NotSent(c) \/ GiveUp(c) \/ Serve(c)
  \/ ServeLate
  \/ \E name \in Names, new \in NewPasswords : WebChange(name, new)
  \/ \E k \in Tokens : Expire(k)
  \/ \E x \in Workers : Restart(x)

Spec == Init /\ [][Next]_vars

-----------------------------------------------------------------------------
(* Properties                                                              *)

\* In the main menu, or in a request made from it.
Inside == {c \in Consoles : pc[c] \in {"main", "change", "leave", "switch"}}

(* A console inside is logged in as the user it shows, with the private key  *)
(* of the public key that the server hands out for that user: whatever was   *)
(* registered before, by this console in an earlier turn of its loop, by     *)
(* another, or by a request thought lost (main.cpp:78-133).                  *)
KeyIsMine ==
  \A c \in Inside :
    /\ client[c] = [key |-> users[client[c].name].pub, name |-> auth[c].name]
    /\ sessionSk[c] = client[c].key
    /\ session[auth[c].token].of = client[c].name

(* Whatever clients send and however their changes and renewed hashes        *)
(* overlap, the row of a user holds a bundle, never the cipher text that     *)
(* main.cpp:229-250 wraps anew (routes.py:212-239), and in it the private    *)
(* key of the public key that the server hands out: a forgotten password     *)
(* aside, the key is not lost.  (The password that opens it may not be the   *)
(* one that logs in: a renewed hash can overtake a change.)                  *)
RowKeepsKey ==
  \A n \in Names :
    users[n] # NoUser => users[n].wrap.form = "bundle" /\ users[n].wrap.key = users[n].pub

(* A user who left with no word of warning (main.cpp:145, 153) was heard: a  *)
(* worker of the server refuses the token, until it restarts.  The others    *)
(* may not, and the tokens of earlier turns of the loop are not ended.       *)
GoodbyeEndsSession ==
  \A c \in Consoles :
    pc[c] \in {"menu", "exit"} /\ auth[c] # NoAuth =>
      \/ auth[c].token \in warned \cup forgotten
      \/ \E x \in Workers : ~Accepted(x, auth[c].token)

(* What the console reads of an answer is the body as the server sent it or  *)
(* cut short, however it was framed and cut into chunks, and all of it when  *)
(* the connection held (http_response.cpp:122-206).                          *)
BodyIsPrefix ==
  \A c \in Consoles, framing \in Framings : answer[c].status \in 200..299 =>
    /\ \A r \in Reads(framing, answer[c].status) : IsPrefix(r.body, Body)
    /\ \A stream \in Streams(framing) : ParseResponse(framing, stream) = Body
=============================================================================
