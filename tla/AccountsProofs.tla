---------------------------- MODULE AccountsProofs ----------------------------
(* Proofs about Accounts, for any number of tabs, processes, requests,       *)
(* passwords and tokens.                                                     *)
EXTENDS Accounts, TLAPS

-----------------------------------------------------------------------------
(* Types                                                                     *)

\* What a call of each kind carries; a key is opened in a tab.
Typed(r) ==
  /\ r.kind = "login" => r.pw \in Passwords
  /\ r.kind = "change" => r.new \in Passwords
  /\ r.pc = "opening" => r.tab \in Tabs

TInv == TypeOK /\ \A c \in Calls : Typed(call[c])

(* Replacing one request by a well-formed one keeps all requests so.         *)
LEMMA OneCall ==
  ASSUME NEW c \in Calls, NEW r \in Call, Typed(r),
         call \in [Calls -> Call], \A d \in Calls : Typed(call[d]),
         call' = [call EXCEPT ![c] = r]
  PROVE  call' \in [Calls -> Call] /\ \A d \in Calls : Typed(call'[d])
  OBVIOUS

\* What stands for no call is a call.
LEMMA NoCallTyped == NoCall \in Call /\ Typed(NoCall)
  BY DEF NoCall, Call, Typed

(* The initial state is well typed.                                          *)
LEMMA TypeInit == Init => TInv
  BY NoCallTyped DEF Init, TInv, TypeOK, Account, Tab

(* Every handler of login keeps every variable within its type.              *)
LEMMA LoginTypes ==
  ASSUME TInv, NEW c \in Calls,
         \/ \E p \in Procs : SelectLogin(c, p)
         \/ Rehash(c) \/ RehashFails(c) \/ FinishLogin(c) \/ OpenKey(c)
  PROVE  TInv'
<1> USE DEF TInv, TypeOK, sessions
<1>call. call[c] \in Call /\ Typed(call[c])
  OBVIOUS
<1>pc. ASSUME NEW pc \in {"asked", "verified", "done"}
       PROVE [call[c] EXCEPT !.pc = pc] \in Call /\ Typed([call[c] EXCEPT !.pc = pc])
  BY <1>call DEF Call, Typed
<1>1. ASSUME NEW p \in Procs, SelectLogin(c, p) PROVE TInv'
  <2> DEFINE r == [call[c] EXCEPT !.pc = IF account.old THEN "verified" ELSE "done",
                                  !.proc = p, !.seen = account.wrap]
  <2>1. r \in Call /\ Typed(r)
    BY <1>call DEF Call, Typed, Account
  <2>2. CASE call' = [call EXCEPT ![c] = r]
    <3>1. call' \in [Calls -> Call] /\ \A d \in Calls : Typed(call'[d])
      BY ONLY <2>1, <2>2, OneCall, TInv DEF TInv, TypeOK
    <3> QED
      BY <3>1, <1>1 DEF SelectLogin
  <2>3. CASE End(c)
    <3>1. call' \in [Calls -> Call] /\ \A d \in Calls : Typed(call'[d])
      BY ONLY <2>3, NoCallTyped, OneCall, TInv DEF TInv, TypeOK, End
    <3> QED
      BY <3>1, <1>1 DEF SelectLogin
  <2>4. call' = [call EXCEPT ![c] = r] \/ End(c)
    BY <1>1 DEF SelectLogin
  <2> QED
    BY <2>2, <2>3, <2>4
<1>2. ASSUME Rehash(c) PROVE TInv'
  <2>1. call' \in [Calls -> Call] /\ \A d \in Calls : Typed(call'[d])
    <3>1. call' = [call EXCEPT ![c] = [call[c] EXCEPT !.pc = "done"]]
      BY <1>2 DEF Rehash
    <3> QED
      BY ONLY <3>1, <1>pc, OneCall, TInv DEF TInv, TypeOK
  <2>2. account' \in Account
    BY <1>call, <1>2 DEF Rehash, Handled, Typed, Account
  <2> QED
    BY <2>1, <2>2, <1>2 DEF Rehash
<1>3. ASSUME RehashFails(c) PROVE TInv'
  <2>1. call' = [call EXCEPT ![c] = [call[c] EXCEPT !.pc = "done"]]
    BY <1>3 DEF RehashFails
  <2>2. call' \in [Calls -> Call] /\ \A d \in Calls : Typed(call'[d])
    BY ONLY <2>1, <1>pc, OneCall, TInv DEF TInv, TypeOK
  <2> QED
    BY <2>2, <1>3 DEF RehashFails
<1>4. ASSUME FinishLogin(c) PROVE TInv'
  <2> DEFINE r == [call[c] EXCEPT !.pc = "opening", !.proc = None, !.seen = AnsweredWrap(c)]
  <2>3. AnsweredWrap(c) \in Passwords \cup {None}
    BY <1>call DEF Call, AnsweredWrap
  <2>1. call' \in [Calls -> Call] /\ \A d \in Calls : Typed(call'[d])
    <3>1. CASE call[c].tab = None
      <4>1. End(c)
        BY <3>1, <1>4 DEF FinishLogin
      <4> QED
        BY ONLY <4>1, NoCallTyped, OneCall, TInv DEF TInv, TypeOK, End
    <3>2. CASE call[c].tab # None
      <4>1. call' = [call EXCEPT ![c] = r]
        BY <3>2, <1>4 DEF FinishLogin
      <4>2. r \in Call /\ Typed(r)
        BY <3>2, <2>3, <1>call DEF Call, Typed
      <4> QED
        BY ONLY <4>1, <4>2, OneCall, TInv DEF TInv, TypeOK
    <3> QED
      BY <3>1, <3>2
  <2>2. PICK k \in Tokens :
          /\ token' = [token EXCEPT ![k] = "live"]
          /\ tab' = [t \in Tabs |->
                       IF t # call[c].tab THEN tab[t]
                       ELSE [tab[t] EXCEPT !.token = k, !.wrap = AnsweredWrap(c)]]
    BY <1>4 DEF FinishLogin
  <2>4. ASSUME NEW t \in Tabs
        PROVE [tab[t] EXCEPT !.token = k, !.wrap = AnsweredWrap(c)] \in Tab
    BY <2>3 DEF Tab
  <2>5. tab' \in [Tabs -> Tab]
    BY <2>2, <2>4
  <2>6. token' \in [Tokens -> {"unused", "live", "expired"}]
    BY <2>2
  <2> QED
    BY <2>1, <2>5, <2>6, <1>4 DEF FinishLogin
<1>5. ASSUME OpenKey(c) PROVE TInv'
  <2>1. call' \in [Calls -> Call] /\ \A d \in Calls : Typed(call'[d])
    BY ONLY <1>5, NoCallTyped, OneCall, TInv DEF TInv, TypeOK, End, OpenKey
  <2>2. \A t \in Tabs : tab[t] \in Tab /\ [tab[t] EXCEPT !.key = TRUE] \in Tab
    BY DEF Tab
  <2>3. tab' \in [Tabs -> Tab]
    BY <2>2, <1>5 DEF OpenKey
  <2> QED
    BY <2>1, <2>3, <1>5 DEF OpenKey
<1> QED
  BY <1>1, <1>2, <1>3, <1>4, <1>5

(* Every handler of change-password keeps every variable within its type.    *)
LEMMA ChangeTypes ==
  ASSUME TInv, NEW c \in Calls,
         \/ \E p \in Procs : SelectChange(c, p)
         \/ PostChange(c) \/ WriteChange(c) \/ WriteFails(c) \/ FinishChange(c) \/ LoseAnswer(c)
  PROVE  TInv'
<1> USE DEF TInv, TypeOK, sessions
<1>call. call[c] \in Call /\ Typed(call[c])
  OBVIOUS
<1>end. ASSUME End(c)
        PROVE call' \in [Calls -> Call] /\ \A d \in Calls : Typed(call'[d])
  BY ONLY <1>end, NoCallTyped, OneCall, TInv DEF TInv, TypeOK, End
<1>1. ASSUME NEW p \in Procs, SelectChange(c, p) PROVE TInv'
  <2> DEFINE r == [call[c] EXCEPT !.pc = "verified", !.proc = p]
  <2>1. r \in Call /\ Typed(r)
    BY <1>call DEF Call, Typed
  <2>2. call' = [call EXCEPT ![c] = r] \/ End(c)
    BY <1>1 DEF SelectChange
  <2>3. ASSUME call' = [call EXCEPT ![c] = r]
        PROVE call' \in [Calls -> Call] /\ \A d \in Calls : Typed(call'[d])
    BY ONLY <2>1, <2>3, OneCall, TInv DEF TInv, TypeOK
  <2> QED
    BY <2>2, <2>3, <1>end, <1>1 DEF SelectChange
<1>2. ASSUME WriteChange(c) PROVE TInv'
  <2>1. [call[c] EXCEPT !.pc = "done"] \in Call /\ Typed([call[c] EXCEPT !.pc = "done"])
    BY <1>call DEF Call, Typed
  <2>2. call' = [call EXCEPT ![c] = [call[c] EXCEPT !.pc = "done"]]
    BY <1>2 DEF WriteChange
  <2>3. call' \in [Calls -> Call] /\ \A d \in Calls : Typed(call'[d])
    BY ONLY <2>1, <2>2, OneCall, TInv DEF TInv, TypeOK
  <2>4. account' \in Account
    BY <1>call, <1>2 DEF WriteChange, Handled, Typed, ChangedRow, Account
  <2> QED
    BY <2>3, <2>4, <1>2 DEF WriteChange
<1>3. ASSUME WriteFails(c) PROVE TInv'
  BY <1>end, <1>3 DEF WriteFails
<1>4. ASSUME FinishChange(c) PROVE TInv'
  <2>1. call[c].new \in Passwords
    BY <1>call, <1>4 DEF FinishChange, Handled, Typed
  <2>2. ASSUME NEW t \in Tabs PROVE [tab[t] EXCEPT !.wrap = call[c].new] \in Tab
    BY <2>1 DEF Tab
  <2>3. tab' \in [Tabs -> Tab]
    BY <2>2, <1>4 DEF FinishChange
  <2> QED
    BY <2>3, <1>end, <1>4 DEF FinishChange
<1>5. ASSUME LoseAnswer(c) PROVE TInv'
  <2>1. [call[c] EXCEPT !.tab = None] \in Call /\ Typed([call[c] EXCEPT !.tab = None])
    BY <1>call, <1>5 DEF Call, Typed, LoseAnswer
  <2>2. call' = [call EXCEPT ![c] = [call[c] EXCEPT !.tab = None]]
    BY <1>5 DEF LoseAnswer
  <2>3. call' \in [Calls -> Call] /\ \A d \in Calls : Typed(call'[d])
    BY ONLY <2>1, <2>2, OneCall, TInv DEF TInv, TypeOK
  <2> QED
    BY <2>3, <1>5 DEF LoseAnswer
<1>6. ASSUME PostChange(c) PROVE TInv'
  <2> DEFINE r == [call[c] EXCEPT !.pc = "asked", !.seen = None,
                                  !.token = tab[call[c].tab].token]
  <2>1. call[c].tab \in Tabs /\ tab[call[c].tab] \in Tab
    BY <1>call, <1>6 DEF PostChange, Handled, Typed
  <2>2. r \in Call /\ Typed(r)
    BY <2>1, <1>call DEF Call, Typed, Tab
  <2>3. call' = [call EXCEPT ![c] = r] \/ End(c)
    BY <1>6 DEF PostChange
  <2>4. ASSUME call' = [call EXCEPT ![c] = r]
        PROVE call' \in [Calls -> Call] /\ \A d \in Calls : Typed(call'[d])
    BY ONLY <2>2, <2>4, OneCall, TInv DEF TInv, TypeOK
  <2> QED
    BY <2>3, <2>4, <1>end, <1>6 DEF PostChange
<1> QED
  BY <1>1, <1>2, <1>3, <1>4, <1>5, <1>6

(* Whatever the user does in a tab keeps every variable within its type.     *)
LEMMA TabTypes == ASSUME TInv, NEW t \in Tabs, UseTab(t) PROVE TInv'
<1> USE DEF TInv, TypeOK, sessions
<1>tab. tab[t] \in Tab
  OBVIOUS
<1>start. ASSUME NEW c \in Calls, NEW pw \in Passwords, NEW new \in Passwords \cup {None},
                 NEW kind \in {"login", "change", "unlock"}, kind = "change" => new \in Passwords,
                 NEW seen \in Passwords \cup {None}, Start(c, t, kind, pw, new, seen)
          PROVE call' \in [Calls -> Call] /\ \A d \in Calls : Typed(call'[d])
  <2> DEFINE r == [NoCall EXCEPT !.kind = kind, !.tab = t, !.pw = pw, !.new = new, !.seen = seen,
                                 !.pc = IF seen = None THEN "asked" ELSE "opening"]
  <2>1. r \in Call /\ Typed(r)
    BY <1>start DEF Call, NoCall, Typed
  <2>2. call' = [call EXCEPT ![c] = r]
    BY <1>start DEF Start
  <2> QED
    BY ONLY <2>1, <2>2, OneCall, TInv DEF TInv, TypeOK
<1>1. ASSUME NEW c \in Calls, NEW pw \in Passwords, Login(c, t, pw) PROVE TInv'
  <2>1. call' \in [Calls -> Call] /\ \A d \in Calls : Typed(call'[d])
    BY <1>1, <1>start DEF Login
  <2> QED
    BY <2>1, <1>1 DEF Login
<1>2. ASSUME NEW c \in Calls, NEW old \in Passwords, NEW new \in Passwords,
             ChangePassword(c, t, old, new)
      PROVE TInv'
  <2>1. call' \in [Calls -> Call] /\ \A d \in Calls : Typed(call'[d])
    BY <1>2, <1>start, <1>tab DEF ChangePassword, Tab
  <2> QED
    BY <2>1, <1>2 DEF ChangePassword
<1>3. ASSUME NEW c \in Calls, NEW pw \in Passwords, Unlock(c, t, pw) PROVE TInv'
  <2>1. call' \in [Calls -> Call] /\ \A d \in Calls : Typed(call'[d])
    BY <1>3, <1>start, <1>tab DEF Unlock, Tab
  <2> QED
    BY <2>1, <1>3 DEF Unlock
<1>4. ASSUME Reload(t) PROVE TInv'
  <2>1. ASSUME NEW c \in Calls
        PROVE call'[c] \in Call /\ Typed(call'[c])
    <3>1. call[c] \in Call /\ Typed(call[c])
      OBVIOUS
    <3>2. CASE call[c].tab # t
      BY <3>1, <3>2, <1>4 DEF Reload
    <3>3. CASE call[c].tab = t /\ call[c].pc = "opening"
      BY <3>3, <1>4, NoCallTyped DEF Reload
    <3>4. CASE call[c].tab = t /\ call[c].pc # "opening"
      <4>1. call'[c] = [call[c] EXCEPT !.tab = None]
        BY <3>4, <1>4 DEF Reload
      <4> QED
        BY <3>1, <3>4, <4>1 DEF Call, Typed
    <3> QED
      BY <3>2, <3>3, <3>4
  <2>2. call' \in [Calls -> Call] /\ \A d \in Calls : Typed(call'[d])
    BY <2>1, <1>4 DEF Reload
  <2>3. [tab[t] EXCEPT !.key = FALSE] \in Tab
    BY <1>tab DEF Tab
  <2>4. tab' \in [Tabs -> Tab]
    BY <2>3, <1>4 DEF Reload
  <2> QED
    BY <2>2, <2>4, <1>4 DEF Reload
<1>5. ASSUME Logout(t) PROVE TInv'
  <2>1. tab[t].token \in Tokens
    BY <1>tab, <1>5 DEF Tab, Logout
  <2>2. [token |-> None, wrap |-> None, key |-> FALSE] \in Tab
    BY DEF Tab
  <2> QED
    BY <2>1, <2>2, <1>5 DEF Logout
<1> QED
  BY <1>1, <1>2, <1>3, <1>4, <1>5 DEF UseTab

(* Logouts, expiry and restarts keep every variable within its type.         *)
LEMMA SessionTypes ==
  ASSUME TInv,
         \/ \E p \in Procs : Restart(p) \/ \E k \in Tokens : ServeLogout(p, k)
         \/ \E k \in Tokens : LogoutLost(k) \/ Expire(k)
  PROVE  TInv'
<1> USE DEF TInv, TypeOK
<1>1. ASSUME NEW p \in Procs, Restart(p) PROVE TInv'
  BY <1>1, NoCallTyped DEF Restart
<1>2. ASSUME NEW p \in Procs, NEW k \in Tokens, ServeLogout(p, k) PROVE TInv'
  BY <1>2 DEF ServeLogout, EndedBy
<1>3. ASSUME NEW k \in Tokens, LogoutLost(k) PROVE TInv'
  BY <1>3 DEF LogoutLost
<1>4. ASSUME NEW k \in Tokens, Expire(k) PROVE TInv'
  BY <1>4 DEF Expire
<1> QED
  BY <1>1, <1>2, <1>3, <1>4

\* Every step keeps the types.
LEMMA TypeStep == TInv /\ [Next]_vars => TInv'
<1> SUFFICES ASSUME TInv, [Next]_vars PROVE TInv'
  OBVIOUS
<1>1. CASE UNCHANGED vars
  BY <1>1 DEF vars, TInv, TypeOK, Typed
<1>2. CASE Next
  BY <1>2, LoginTypes, ChangeTypes, TabTypes, SessionTypes DEF Next, Serve
<1> QED
  BY <1>1, <1>2

(* Every state of every execution is well typed.                             *)
THEOREM TypeCorrect == Spec => []TypeOK
<1>1. TInv => TypeOK
  BY DEF TInv
<1> QED
  BY <1>1, TypeInit, TypeStep, PTL DEF Spec

-----------------------------------------------------------------------------
(* The password and the wrapped key                                        *)

\* With no hash to renew, a login only reads; what it read opens with the password
\* it verified, and so does what the tab opens.
KeyInv ==
  ~aged =>
    /\ ~account.old
    /\ account.hash = account.wrap
    /\ \A c \in Calls : call[c].kind = "login" =>
         /\ call[c].pc # "verified"
         /\ call[c].pc \in {"done", "opening"} => call[c].seen = call[c].pw

(* What a request of another kind, or a new one, carries is irrelevant.      *)
LEMMA KeyCall ==
  ASSUME TInv, KeyInv, UNCHANGED <<account, aged>>, NEW c \in Calls, NEW r,
         call' = [call EXCEPT ![c] = r],
         r.kind = "login" => \/ r.pc = "asked"
                             \/ r.pc \in {"done", "opening"} /\ (~aged => r.seen = r.pw)
  PROVE  KeyInv'
<1>1. \A d \in Calls : call'[d] = IF d = c THEN r ELSE call[d]
  BY DEF TInv, TypeOK
<1> QED
  BY <1>1 DEF KeyInv

\* The key opens at first.
LEMMA KeyInit == Init => KeyInv
  BY DEF Init, KeyInv, NoCall

\* Every step keeps the key and the hash together.
LEMMA KeyStep == TInv /\ KeyInv /\ [Next]_vars => KeyInv'
<1> SUFFICES ASSUME TInv, KeyInv, [Next]_vars PROVE KeyInv'
  OBVIOUS
<1>types. call \in [Calls -> Call] /\ account \in Account
  BY DEF TInv, TypeOK
<1>end. ASSUME NEW c \in Calls, End(c), UNCHANGED <<account, aged>> PROVE KeyInv'
  BY <1>end, KeyCall DEF End, NoCall
<1>1. ASSUME NEW c \in Calls, NEW p \in Procs, SelectLogin(c, p) PROVE KeyInv'
  <2> DEFINE r == [call[c] EXCEPT !.pc = IF account.old THEN "verified" ELSE "done",
                                  !.proc = p, !.seen = account.wrap]
  <2>1. UNCHANGED <<account, aged>>
    BY <1>1 DEF SelectLogin
  <2>2. CASE End(c)
    BY <2>1, <2>2, <1>end
  <2>3. CASE call[c].pw = account.hash /\ call' = [call EXCEPT ![c] = r] /\ ~aged
    <3>1. r.kind = call[c].kind /\ r.pc = "done" /\ r.seen = r.pw
      BY <1>types, <2>3 DEF Call, Account, KeyInv
    <3> QED
      BY <3>1, <2>1, <2>3, KeyCall
  <2>4. CASE aged
    BY <2>1, <2>4 DEF KeyInv
  <2> QED
    BY <1>1, <2>2, <2>3, <2>4 DEF SelectLogin
<1>2. ASSUME NEW c \in Calls, Rehash(c) \/ RehashFails(c) PROVE KeyInv'
  BY <1>2 DEF KeyInv, Rehash, RehashFails, Handled
<1>3. ASSUME NEW c \in Calls, FinishLogin(c) PROVE KeyInv'
  <2> DEFINE r == [call[c] EXCEPT !.pc = "opening", !.proc = None, !.seen = AnsweredWrap(c)]
  <2>1. UNCHANGED <<account, aged>>
    BY <1>3 DEF FinishLogin
  <2>2. CASE End(c)
    BY <2>1, <2>2, <1>end
  <2>3. CASE call' = [call EXCEPT ![c] = r]
    <3>1. r.pc = "opening" /\ r.seen = call[c].seen /\ r.pw = call[c].pw
      BY <1>types DEF Call, AnsweredWrap
    <3>2. ~aged => call[c].seen = call[c].pw
      BY <1>3 DEF FinishLogin, Handled, KeyInv
    <3> HIDE DEF r
    <3> QED
      BY <3>1, <3>2, <2>1, <2>3, KeyCall
  <2> QED
    BY <1>3, <2>2, <2>3 DEF FinishLogin
<1>4. ASSUME NEW c \in Calls, NEW p \in Procs, SelectChange(c, p) PROVE KeyInv'
  <2> DEFINE r == [call[c] EXCEPT !.pc = "verified", !.proc = p]
  <2>1. UNCHANGED <<account, aged>>
    BY <1>4 DEF SelectChange
  <2>2. CASE End(c)
    BY <2>1, <2>2, <1>end
  <2>3. CASE call' = [call EXCEPT ![c] = r]
    <3>1. r.kind = "change"
      BY <1>types, <1>4 DEF SelectChange, Handled, Call
    <3> QED
      BY <3>1, <2>1, <2>3, KeyCall
  <2> QED
    BY <1>4, <2>2, <2>3 DEF SelectChange
<1>5. ASSUME NEW c \in Calls, WriteChange(c) PROVE KeyInv'
  <2>1. /\ account' = [hash |-> call[c].new, wrap |-> call[c].new, old |-> FALSE]
        /\ aged' = aged
    BY <1>5 DEF WriteChange, ChangedRow
  <2>2. \A d \in Calls : call'[d].kind = "login" => call'[d] = call[d]
    BY <1>types, <1>5 DEF WriteChange, Handled, Call
  <2> QED
    BY <2>1, <2>2 DEF KeyInv
<1>6. ASSUME NEW c \in Calls,
             OpenKey(c) \/ WriteFails(c) \/ FinishChange(c) \/ LoseAnswer(c)
      PROVE  KeyInv'
  <2>1. ASSUME LoseAnswer(c) PROVE KeyInv'
    <3>1. \A d \in Calls : /\ call'[d].kind = call[d].kind /\ call'[d].pc = call[d].pc
                           /\ call'[d].seen = call[d].seen /\ call'[d].pw = call[d].pw
      BY <1>types, <2>1 DEF LoseAnswer, Call
    <3> QED
      BY <3>1, <2>1 DEF LoseAnswer, KeyInv
  <2> QED
    BY <1>6, <2>1, <1>end DEF OpenKey, WriteFails, FinishChange, sessions
<1>7. ASSUME NEW t \in Tabs, UseTab(t) PROVE KeyInv'
  <2>start. ASSUME NEW c \in Calls, NEW kind, NEW pw, NEW new, NEW seen,
                   kind = "login" => seen = None, Start(c, t, kind, pw, new, seen),
                   UNCHANGED <<account, aged>>
            PROVE KeyInv'
    <3> DEFINE r == [NoCall EXCEPT !.kind = kind, !.tab = t, !.pw = pw, !.new = new, !.seen = seen,
                                   !.pc = IF seen = None THEN "asked" ELSE "opening"]
    <3>1. r.kind = kind /\ (seen = None => r.pc = "asked")
      BY DEF NoCall
    <3>2. call' = [call EXCEPT ![c] = r]
      BY <2>start DEF Start
    <3> HIDE DEF r
    <3> QED
      BY <3>1, <3>2, <2>start, KeyCall
  <2>1. ASSUME Reload(t) PROVE KeyInv'
    <3>1. \A d \in Calls :
            \/ call'[d] = NoCall
            \/ /\ call'[d].kind = call[d].kind /\ call'[d].pc = call[d].pc
               /\ call'[d].seen = call[d].seen /\ call'[d].pw = call[d].pw
      BY <1>types, <2>1 DEF Reload, Call
    <3>2. NoCall.kind # "login"
      BY DEF NoCall
    <3> QED
      BY <3>1, <3>2, <2>1 DEF Reload, KeyInv
  <2> QED
    BY <1>7, <2>1, <2>start DEF UseTab, Login, ChangePassword, Unlock, Logout, KeyInv
<1>8. ASSUME NEW p \in Procs, Restart(p) PROVE KeyInv'
  BY <1>8 DEF Restart, KeyInv, NoCall
<1>9. CASE \E p \in Procs, k \in Tokens : ServeLogout(p, k)
  BY <1>9 DEF ServeLogout, KeyInv
<1>10. CASE \E k \in Tokens : LogoutLost(k) \/ Expire(k)
  BY <1>10 DEF LogoutLost, Expire, KeyInv
<1>11. CASE UNCHANGED vars
  BY <1>11 DEF vars, KeyInv
<1>12. ASSUME NEW c \in Calls, PostChange(c) PROVE KeyInv'
  <2> DEFINE r == [call[c] EXCEPT !.pc = "asked", !.seen = None,
                                  !.token = tab[call[c].tab].token]
  <2>1. r.pc = "asked"
    BY <1>types DEF Call
  <2>2. call' = [call EXCEPT ![c] = r] \/ End(c)
    BY <1>12 DEF PostChange
  <2> HIDE DEF r
  <2> QED
    BY <2>1, <2>2, <1>12, <1>end, KeyCall DEF PostChange
<1> QED
  BY <1>1, <1>2, <1>3, <1>4, <1>5, <1>6, <1>7, <1>8, <1>9, <1>10, <1>11, <1>12
  DEF Next, Serve

(* A login that gets its answer gives the tab its private key, with no hash  *)
(* to renew, though the password may change between the SELECT and the       *)
(* answer and the session may end before the key is open.                    *)
THEOREM LoginsGiveKey == Spec => LoginGivesKey
<1>1. TInv /\ KeyInv /\ [Next]_vars =>
        [\A c \in Calls : Handled(c, "login", "opening") /\ OpenKey(c) /\ ~aged
           => tab'[call[c].tab].key]_vars
  <2> SUFFICES ASSUME TInv, KeyInv, NEW c \in Calls, Handled(c, "login", "opening"),
                      OpenKey(c), ~aged
               PROVE  tab'[call[c].tab].key
    OBVIOUS
  <2>1. call[c].tab \in Tabs /\ tab[call[c].tab] \in Tab
    BY DEF TInv, TypeOK, Typed, Handled
  <2>2. call[c].seen = call[c].pw
    BY DEF KeyInv, Handled
  <2>3. tab'[call[c].tab] = [tab[call[c].tab] EXCEPT !.key = TRUE]
    BY <2>1, <2>2 DEF OpenKey
  <2> QED
    BY <2>1, <2>3 DEF Tab
<1> QED
  BY <1>1, TypeInit, KeyInit, TypeStep, KeyStep, PTL DEF Spec, LoginGivesKey

-----------------------------------------------------------------------------
(* Sessions                                                                *)

\* A token that was given to a tab is held by that tab alone, until it leaves it
\* for good.
SessionInv ==
  /\ \A t, u \in Tabs : tab[t].token = tab[u].token => t = u \/ tab[t].token = None
  /\ \A t \in Tabs : tab[t].token # None => token[tab[t].token] # "unused"
  /\ \A t \in Tabs : tab[t].token \notin leaving
  /\ \A k \in leaving : token[k] # "unused"
  /\ \A p \in Procs : \A k \in blocked[p] :
       token[k] # "unused" /\ \A t \in Tabs : tab[t].token # k

\* No token is held at first.
LEMMA SessionInit == Init => SessionInv
  BY DEF Init, SessionInv

\* Every step leaves a token with one tab.
LEMMA SessionStep == TInv /\ SessionInv /\ [Next]_vars => SessionInv'
<1> SUFFICES ASSUME TInv, SessionInv, [Next]_vars PROVE SessionInv'
  OBVIOUS
<1> USE NoneAssumption
<1>types. /\ tab \in [Tabs -> Tab]
          /\ token \in [Tokens -> {"unused", "live", "expired"}]
          /\ leaving \subseteq Tokens /\ blocked \in [Procs -> SUBSET Tokens]
  BY DEF TInv, TypeOK
<1>same. ASSUME \A t \in Tabs : tab'[t].token = tab[t].token, UNCHANGED sessions
         PROVE SessionInv'
  BY <1>same DEF SessionInv, sessions
<1>1. ASSUME NEW c \in Calls, FinishLogin(c) PROVE SessionInv'
  <2>1. PICK k \in Tokens :
          /\ token[k] = "unused"
          /\ token' = [token EXCEPT ![k] = "live"]
          /\ tab' = [t \in Tabs |->
                       IF t # call[c].tab THEN tab[t]
                       ELSE [tab[t] EXCEPT !.token = k, !.wrap = AnsweredWrap(c)]]
    BY <1>1 DEF FinishLogin
  <2>2. \A t \in Tabs : tab'[t].token = IF t = call[c].tab THEN k ELSE tab[t].token
    <3>1. \A t \in Tabs : tab[t] \in Tab
      BY <1>types
    <3>2. \A t \in Tabs : [tab[t] EXCEPT !.token = k, !.wrap = AnsweredWrap(c)].token = k
      BY <3>1 DEF Tab
    <3> QED
      BY <2>1, <3>2
  <2>3. \A j \in Tokens : token'[j] = IF j = k THEN "live" ELSE token[j]
    BY <1>types, <2>1
  <2>4. UNCHANGED <<leaving, blocked>>
    BY <1>1 DEF FinishLogin
  <2>5. k \notin leaving /\ \A p \in Procs : k \notin blocked[p]
    BY <2>1 DEF SessionInv
  <2>6. \A t \in Tabs : tab[t].token # k /\ tab[t].token \in Tokens \cup {None}
    BY <2>1, <1>types DEF SessionInv, Tab
  <2>7. \A t, u \in Tabs : tab'[t].token = tab'[u].token => t = u \/ tab'[t].token = None
    BY <2>2, <2>6 DEF SessionInv
  <2>8. \A t \in Tabs : tab'[t].token # None => token'[tab'[t].token] # "unused"
    BY <2>2, <2>3, <2>6 DEF SessionInv
  <2>9. \A t \in Tabs : tab'[t].token \notin leaving'
    BY <2>2, <2>4, <2>5 DEF SessionInv
  <2>10. \A j \in leaving' : token'[j] # "unused"
    BY <1>types, <2>3, <2>4 DEF SessionInv
  <2>11. \A p \in Procs : \A j \in blocked'[p] :
           token'[j] # "unused" /\ \A t \in Tabs : tab'[t].token # j
    BY <1>types, <2>2, <2>3, <2>4, <2>5 DEF SessionInv
  <2> QED
    BY <2>7, <2>8, <2>9, <2>10, <2>11 DEF SessionInv
<1>2. ASSUME NEW c \in Calls, FinishChange(c) \/ OpenKey(c) PROVE SessionInv'
  <2>1. \A t \in Tabs : tab'[t].token = tab[t].token
    BY <1>types, <1>2 DEF FinishChange, OpenKey, Tab
  <2> QED
    BY <2>1, <1>2, <1>same DEF FinishChange, OpenKey
<1>3. ASSUME NEW t \in Tabs, Logout(t) PROVE SessionInv'
  <2>1. \A u \in Tabs : tab'[u].token = IF u = t THEN None ELSE tab[u].token
    BY <1>types, <1>3 DEF Logout
  <2>2. leaving' = leaving \cup {tab[t].token} /\ UNCHANGED <<token, blocked>>
    BY <1>3 DEF Logout
  <2>3. tab[t].token # None
    BY <1>3 DEF Logout
  <2> QED
    BY <1>types, <2>1, <2>2, <2>3 DEF SessionInv
<1>4. ASSUME NEW t \in Tabs, Reload(t) PROVE SessionInv'
  <2>1. \A u \in Tabs : tab'[u].token = tab[u].token
    BY <1>types, <1>4 DEF Reload, Tab
  <2> QED
    BY <2>1, <1>4, <1>same DEF Reload
<1>5. ASSUME NEW t \in Tabs, UseTab(t) PROVE SessionInv'
  BY <1>3, <1>4, <1>5, <1>same DEF UseTab, Login, ChangePassword, Unlock
<1>6. ASSUME NEW p \in Procs, NEW k \in Tokens, ServeLogout(p, k) PROVE SessionInv'
  <2>1. /\ k \in leaving /\ leaving' = leaving \ {k}
        /\ UNCHANGED <<tab, token>>
    BY <1>6 DEF ServeLogout
  <2>2. \A q \in Procs : \A j \in blocked'[q] : j = k \/ j \in blocked[q]
    BY <1>types, <1>6 DEF ServeLogout, EndedBy
  <2>3. \A q \in Procs : \A j \in blocked'[q] :
          token[j] # "unused" /\ \A t \in Tabs : tab[t].token # j
    BY <2>1, <2>2 DEF SessionInv
  <2> QED
    BY <2>1, <2>3 DEF SessionInv
<1>7. ASSUME NEW k \in Tokens, LogoutLost(k) \/ Expire(k) PROVE SessionInv'
  <2>1. leaving' \subseteq leaving /\ UNCHANGED <<tab, blocked>>
    BY <1>7 DEF LogoutLost, Expire
  <2>2. \A j \in Tokens : token'[j] = "unused" => token[j] = "unused"
    BY <1>types, <1>7 DEF LogoutLost, Expire
  <2>3. \A t \in Tabs : tab[t].token \in Tokens \cup {None}
    BY <1>types DEF Tab
  <2> QED
    BY <1>types, <2>1, <2>2, <2>3 DEF SessionInv
<1>8. ASSUME NEW p \in Procs, Restart(p) PROVE SessionInv'
  <2>1. UNCHANGED <<tab, token, leaving>> /\ \A q \in Procs : blocked'[q] \subseteq blocked[q]
    BY <1>types, <1>8 DEF Restart
  <2> QED
    BY <2>1 DEF SessionInv
<1>9. ASSUME UNCHANGED tab, UNCHANGED sessions PROVE SessionInv'
  BY <1>9, <1>same
<1> QED
  BY <1>1, <1>2, <1>5, <1>6, <1>7, <1>8, <1>9
  DEF Next, Serve, SelectLogin, SelectChange, Rehash, RehashFails, PostChange, WriteChange,
      WriteFails, LoseAnswer, vars, sessions

(* Logging one tab out never ends the session another one holds.             *)
THEOREM SessionsSurviveLogouts == Spec => []SessionsSurvive
<1>1. TInv /\ SessionInv => SessionsSurvive
  BY DEF TInv, TypeOK, SessionInv, SessionsSurvive
<1> QED
  BY <1>1, TypeInit, SessionInit, TypeStep, SessionStep, PTL DEF Spec

=============================================================================
