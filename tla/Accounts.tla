------------------------------- MODULE Accounts -------------------------------
(***************************************************************************)
(* One account: its password, its wrapped private key and its sessions.    *)
(*                                                                         *)
(* server/app/auth/routes.py keeps the password hash and the private key   *)
(* wrapped under the same password in one row of users.  The web client    *)
(* re-wraps the key itself and caches the wrapped key in each tab.  Tokens *)
(* are checked against a blocklist that each server process keeps for      *)
(* itself (server/app/__init__.py).                                        *)
(*                                                                         *)
(* A request is handled between two database operations of the process     *)
(* that took it, while other requests are; the tab may have stopped        *)
(* waiting for it.  Opening a wrapped key is awaited in the tab, where     *)
(* anything may happen meanwhile.  A password stands for whatever is       *)
(* derived from it.                                                        *)
(***************************************************************************)
EXTENDS Naturals, FiniteSets

CONSTANTS
  Procs,        \* server processes
  Tabs,         \* tabs of the user, each with its sessionStorage
  Calls,        \* bound: logins, changes of the password and unlocks under way
  Passwords,
  Tokens,       \* bound: tokens the server ever issues
  None          \* no password, token, tab, process

ASSUME NoneAssumption == None \notin Procs \cup Tabs \cup Passwords \cup Tokens

VARIABLES
  account,  \* the row of users
  aged,     \* the hash was made with parameters that ph no longer has
  tab,      \* sessionStorage and memory of each tab
  call,     \* what is under way, in a tab and at the server
  token,    \* JWTs
  leaving,  \* tokens whose logout request is under way
  blocked   \* revoked_jtis of each process

vars == <<account, aged, tab, call, token, leaving, blocked>>

\* hash: the password that password_hash verifies; wrap: the one that opens
\* wrapped_private_key; old: check_needs_rehash(password_hash).
Account == [hash: Passwords, wrap: Passwords, old: BOOLEAN]

\* key: the private key is in memory; wrap: the password of the cached wrapped key.
Tab == [token: Tokens \cup {None}, wrap: Passwords \cup {None}, key: BOOLEAN]

\* pw is the password typed, new the new one, token the one the request carries,
\* seen the wrapped key that login selected or that the tab is opening.
Call ==
  [kind: {"none", "login", "change", "unlock"}, pc: {"opening", "asked", "verified", "done"},
   tab: Tabs \cup {None}, proc: Procs \cup {None}, pw: Passwords \cup {None},
   new: Passwords \cup {None}, token: Tokens \cup {None}, seen: Passwords \cup {None}]
NoCall ==
  [kind |-> "none", pc |-> "asked", tab |-> None, proc |-> None, pw |-> None,
   new |-> None, token |-> None, seen |-> None]

TypeOK ==
  /\ account \in Account
  /\ aged \in BOOLEAN
  /\ tab \in [Tabs -> Tab]
  /\ call \in [Calls -> Call]
  /\ token \in [Tokens -> {"unused", "live", "expired"}]
  /\ leaving \subseteq Tokens
  /\ blocked \in [Procs -> SUBSET Tokens]

\* Registered: the client wrapped the key under the password it sent.
Init ==
  /\ aged \in BOOLEAN
  /\ \E pw \in Passwords : account = [hash |-> pw, wrap |-> pw, old |-> aged]
  /\ tab = [t \in Tabs |-> [token |-> None, wrap |-> None, key |-> FALSE]]
  /\ call = [c \in Calls |-> NoCall]
  /\ token = [k \in Tokens |-> "unused"]
  /\ leaving = {}
  /\ blocked = [p \in Procs |-> {}]

-----------------------------------------------------------------------------
(* Helpers                                                                 *)

sessions == <<token, leaving, blocked>>

\* jwt_required: not expired, and not in this process's blocklist.
Accepts(p, k) == k \in Tokens /\ token[k] = "live" /\ k \notin blocked[p]

\* A view that is rendered again has a new button: a tab may have several calls
\* under way.  seen is the wrapped key to open first.
Start(c, t, kind, pw, new, seen) ==
  /\ call[c] = NoCall
  /\ call' = [call EXCEPT ![c] =
                [NoCall EXCEPT !.kind = kind, !.tab = t, !.pw = pw, !.new = new, !.seen = seen,
                               !.pc = IF seen = None THEN "asked" ELSE "opening"]]

Handled(c, kind, pc) == call[c].kind = kind /\ call[c].pc = pc

End(c) == call' = [call EXCEPT ![c] = NoCall]

-----------------------------------------------------------------------------
(* POST /auth/login                                                        *)

Login(c, t, pw) ==
  /\ Start(c, t, "login", pw, None, None)
  /\ UNCHANGED <<account, aged, tab, sessions>>

\* One SELECT for the hash and the wrapped key; a wrong password ends the call.
SelectLogin(c, p) ==
  /\ Handled(c, "login", "asked")
  /\ \/ /\ call[c].pw = account.hash
        /\ call' = [call EXCEPT ![c].pc = IF account.old THEN "verified" ELSE "done",
                                ![c].proc = p, ![c].seen = account.wrap]
     \/ call[c].pw # account.hash /\ End(c)
  /\ UNCHANGED <<account, aged, tab, sessions>>

\* The hash is replaced, without looking at what the row holds by now.
Rehash(c) ==
  /\ Handled(c, "login", "verified")
  /\ account' = [account EXCEPT !.hash = call[c].pw, !.old = FALSE]
  /\ call' = [call EXCEPT ![c].pc = "done"]
  /\ UNCHANGED <<aged, tab, sessions>>

\* A failed rehash is logged, and the login goes on.
RehashFails(c) ==
  /\ Handled(c, "login", "verified")
  /\ call' = [call EXCEPT ![c].pc = "done"]
  /\ UNCHANGED <<account, aged, tab, sessions>>

\* Mutant: the wrapped key is selected again for the answer.
LatestWrap(c) == account.wrap

AnsweredWrap(c) == call[c].seen

\* The token is issued; the tab, if it still waits, stores the answer and begins to
\* open the wrapped key.
FinishLogin(c) ==
  /\ Handled(c, "login", "done")
  /\ \E k \in Tokens :
       /\ token[k] = "unused"
       /\ token' = [token EXCEPT ![k] = "live"]
       /\ tab' = [t \in Tabs |->
                    IF t # call[c].tab THEN tab[t]
                    ELSE [tab[t] EXCEPT !.token = k, !.wrap = AnsweredWrap(c)]]
  /\ IF call[c].tab = None
       THEN End(c)
       ELSE call' = [call EXCEPT ![c].pc = "opening", ![c].proc = None,
                                 ![c].seen = AnsweredWrap(c)]
  /\ UNCHANGED <<account, aged, leaving, blocked>>

\* setPrivateKey after the awaits of login or unlock, whatever the tab did meanwhile;
\* when the key does not open the tab keeps what it has.
OpenKey(c) ==
  /\ Handled(c, "login", "opening") \/ Handled(c, "unlock", "opening")
  /\ tab' = [t \in Tabs |->
               IF t = call[c].tab /\ call[c].seen = call[c].pw
                 THEN [tab[t] EXCEPT !.key = TRUE] ELSE tab[t]]
  /\ End(c)
  /\ UNCHANGED <<account, aged, sessions>>

-----------------------------------------------------------------------------
(* POST /auth/change-password                                              *)

\* The dialog: Passwords are those that its rules let through, typed twice alike;
\* with others, or without a cached wrapped key, nothing is begun.
ChangePassword(c, t, old, new) ==
  /\ tab[t].token # None /\ tab[t].wrap # None
  /\ Start(c, t, "change", old, new, tab[t].wrap)
  /\ UNCHANGED <<account, aged, tab, sessions>>

\* The old password opens the key and the tab has a token by now.
MayAsk(c) == call[c].seen = call[c].pw /\ tab[call[c].tab].token # None

\* The key is opened, wrapped under the new password and sent; otherwise an error is
\* shown.
PostChange(c) ==
  /\ Handled(c, "change", "opening")
  /\ \/ /\ MayAsk(c)
        /\ call' = [call EXCEPT ![c].pc = "asked", ![c].seen = None,
                                ![c].token = tab[call[c].tab].token]
     \/ ~MayAsk(c) /\ End(c)
  /\ UNCHANGED <<account, aged, tab, sessions>>

MayChange(c, p) == Accepts(p, call[c].token) /\ call[c].pw = account.hash

\* 401 for a token or a password that is refused.
SelectChange(c, p) ==
  /\ Handled(c, "change", "asked")
  /\ \/ /\ MayChange(c, p)
        /\ call' = [call EXCEPT ![c].pc = "verified", ![c].proc = p]
     \/ ~MayChange(c, p) /\ End(c)
  /\ UNCHANGED <<account, aged, tab, sessions>>

\* Mutant: the wrapped key of another statement is written.
UnsetWrap(c) == [hash |-> call[c].new, wrap |-> call[c].seen, old |-> FALSE]

ChangedRow(c) == [hash |-> call[c].new, wrap |-> call[c].new, old |-> FALSE]

WriteChange(c) ==
  /\ Handled(c, "change", "verified")
  /\ account' = ChangedRow(c)
  /\ call' = [call EXCEPT ![c].pc = "done"]
  /\ UNCHANGED <<aged, tab, sessions>>

\* The UPDATE fails: rollback, and an error is answered.
WriteFails(c) ==
  /\ Handled(c, "change", "verified")
  /\ End(c)
  /\ UNCHANGED <<account, aged, tab, sessions>>

\* setWrappedKey, whatever the tab did while it waited.
FinishChange(c) ==
  /\ Handled(c, "change", "done")
  /\ tab' = [t \in Tabs |->
               IF t = call[c].tab THEN [tab[t] EXCEPT !.wrap = call[c].new] ELSE tab[t]]
  /\ End(c)
  /\ UNCHANGED <<account, aged, sessions>>

-----------------------------------------------------------------------------
(* The tab                                                                 *)

\* The tab is reloaded: what it was opening is given up, nobody waits for its
\* answers, the server goes on, and the private key, only in memory, is lost.
Reload(t) ==
  /\ call' = [c \in Calls |->
                IF call[c].tab # t THEN call[c]
                ELSE IF call[c].pc = "opening" THEN NoCall
                ELSE [call[c] EXCEPT !.tab = None]]
  /\ tab' = [tab EXCEPT ![t].key = FALSE]
  /\ UNCHANGED <<account, aged, sessions>>

\* The connection fails: the tab shows an error, and the server goes on.
LoseAnswer(c) ==
  /\ call[c].tab # None /\ call[c].pc # "opening"
  /\ call' = [call EXCEPT ![c].tab = None]
  /\ UNCHANGED <<account, aged, tab, sessions>>

\* renderUnlock: the cached wrapped key is opened with the password typed.
Unlock(c, t, pw) ==
  /\ tab[t].token # None /\ ~tab[t].key
  /\ tab[t].wrap # None
  /\ Start(c, t, "unlock", pw, None, tab[t].wrap)
  /\ UNCHANGED <<account, aged, tab, sessions>>

\* The tab forgets the session without waiting for the server.
Logout(t) ==
  /\ tab[t].token # None
  /\ leaving' = leaving \cup {tab[t].token}
  /\ tab' = [tab EXCEPT ![t] = [token |-> None, wrap |-> None, key |-> FALSE]]
  /\ UNCHANGED <<account, aged, call, token, blocked>>

-----------------------------------------------------------------------------
(* POST /auth/logout, and what happens to processes and tokens             *)

\* Mutant: every session of the user is ended.
EveryToken(k) == {j \in Tokens : token[j] = "live"}

EndedBy(k) == {k}

ServeLogout(p, k) ==
  /\ k \in leaving
  /\ leaving' = leaving \ {k}
  /\ \/ /\ Accepts(p, k)
        /\ blocked' = [blocked EXCEPT ![p] = @ \cup EndedBy(k)]
     \/ ~Accepts(p, k) /\ UNCHANGED blocked
  /\ UNCHANGED <<account, aged, tab, call, token>>

\* The fetch of logout fails; nobody looks at it.
LogoutLost(k) ==
  /\ k \in leaving
  /\ leaving' = leaving \ {k}
  /\ UNCHANGED <<account, aged, tab, call, token, blocked>>

Expire(k) ==
  /\ token[k] = "live"
  /\ token' = [token EXCEPT ![k] = "expired"]
  /\ UNCHANGED <<account, aged, tab, call, leaving, blocked>>

\* A process dies and is replaced: its requests and its blocklist are lost.
Restart(p) ==
  /\ blocked' = [blocked EXCEPT ![p] = {}]
  /\ call' = [c \in Calls |-> IF call[c].proc = p THEN NoCall ELSE call[c]]
  /\ UNCHANGED <<account, aged, tab, token, leaving>>

Serve(c) ==
  \/ \E p \in Procs : SelectLogin(c, p) \/ SelectChange(c, p)
  \/ Rehash(c) \/ RehashFails(c) \/ FinishLogin(c) \/ OpenKey(c)
  \/ PostChange(c) \/ WriteChange(c) \/ WriteFails(c) \/ FinishChange(c) \/ LoseAnswer(c)

UseTab(t) ==
  \/ \E c \in Calls, pw \in Passwords : Login(c, t, pw)
  \/ \E c \in Calls, old, new \in Passwords : ChangePassword(c, t, old, new)
  \/ \E c \in Calls, pw \in Passwords : Unlock(c, t, pw)
  \/ Reload(t) \/ Logout(t)

Next ==
  \/ \E c \in Calls : Serve(c)
  \/ \E t \in Tabs : UseTab(t)
  \/ \E p \in Procs : Restart(p) \/ \E k \in Tokens : ServeLogout(p, k)
  \/ \E k \in Tokens : LogoutLost(k) \/ Expire(k)

Spec == Init /\ [][Next]_vars

-----------------------------------------------------------------------------
(* Properties                                                              *)

(* A login that gets its answer gives the tab its private key, though the    *)
(* password may be changed between the SELECT and the answer, or the session *)
(* ended before the key is open, as long as no login has a hash to renew.    *)
LoginGivesKey ==
  [][\A c \in Calls : Handled(c, "login", "opening") /\ OpenKey(c) /\ ~aged
       => tab'[call[c].tab].key]_vars

(* A logout, however late its request arrives, ends the session it was sent  *)
(* from and no other: no tab holds a token that some process refuses.        *)
SessionsSurvive == \A t \in Tabs, p \in Procs : tab[t].token \notin blocked[p]
=============================================================================
