----------------------------- MODULE Auth_proofs -----------------------------
(***************************************************************************)
(* Proofs about module Auth, for any number of requests, passwords and     *)
(* tokens: it implements AdminAccess, AcceptedIsLive holds, and the        *)
(* failures counted stay bounded.                                          *)
(*                                                                         *)
(* The refinement needs to know of a request that has read the row of the  *)
(* administrator that the password it has verified is still current as     *)
(* long as the version it has read is (SeenIsCurrent), which two changes   *)
(* that overlap can break and nothing else can.                            *)
(***************************************************************************)
EXTENDS Auth, FiniteSetTheorems, TLAPS

(* What the row that a request has read says of the row now. *)
SeenIsCurrent ==
    \A r \in Requests :
        /\ req[r].seen # NULL =>
              /\ admin # NULL
              /\ ~overlapped =>
                    /\ req[r].seen.version <= admin.version
                    /\ req[r].seen.version = admin.version =>
                          req[r].seen.password = admin.password
        /\ req[r].at \in {"verified", "change"} =>
              req[r].given \in former /\ req[r].seen.password = req[r].given

(* The row of a session that a request has read is the row now, or gone. *)
HeldTokens ==
    \A r \in Requests :
        /\ req[r].at \in {"lookup", "touch"} /\ sessions[req[r].token] # NULL =>
              sessions[req[r].token].version = req[r].item
        /\ req[r].at = "touch" /\ sessions[req[r].token] # NULL =>
              admin # NULL /\ sessions[req[r].token].version = admin.version

PasswordIsFormer ==
    IF admin = NULL THEN sessions = NoSessions ELSE admin.password \in former

IInv == TypeOK /\ SeenIsCurrent /\ HeldTokens /\ PasswordIsFormer

-----------------------------------------------------------------------------
(* Initially the invariant holds. *)
LEMMA InitIInv == Init => IInv
<1> SUFFICES ASSUME Init PROVE IInv
  OBVIOUS
<1> USE NullAssumption, RowAssumption, LimitAssumption
<1>1. TypeOK
  <2>1. admin \in AdminRow \cup {NULL} /\ former \subseteq Passwords
    BY DEF Init, AdminRow, Hashings
  <2>. QED
    BY <2>1 DEF Init, TypeOK, Request, Places, Idle, NoSessions
<1>2. SeenIsCurrent /\ HeldTokens
  BY DEF Init, SeenIsCurrent, HeldTokens, Idle
<1>3. PasswordIsFormer
  BY DEF Init, PasswordIsFormer
<1>. QED
  BY <1>1, <1>2, <1>3 DEF IInv

(* Every step keeps the types. *)
LEMMA StepTypeOK == IInv /\ [Next]_vars => TypeOK'
<1> SUFFICES ASSUME IInv, [Next]_vars PROVE TypeOK'
  OBVIOUS
<1> USE NullAssumption, RowAssumption, LimitAssumption DEF IInv
<1>1. CASE UNCHANGED vars
  BY <1>1 DEF TypeOK, vars
<1>2. ASSUME NEW r \in Requests, NEW p \in Passwords,
             SetupRead(r, p) \/ LoginCheck(r, p) \/ ResetRead(r, p)
      PROVE  TypeOK'
  <2>1. CASE SetupRead(r, p)
    BY <2>1 DEF TypeOK, SetupRead, Go, Idle, Request, Places
  <2>2. CASE LoginCheck(r, p)
    BY <2>2 DEF TypeOK, LoginCheck, Go, Idle, Request, Places
  <2>3. CASE ResetRead(r, p)
    BY <2>3 DEF TypeOK, ResetRead, Go, Idle, Request, Places
  <2>. QED
    BY <1>2, <2>1, <2>2, <2>3
<1>3. ASSUME NEW r \in Requests, NEW p \in Passwords, NEW new \in Passwords,
             ChangeRead(r, p, new)
      PROVE  TypeOK'
  BY <1>3 DEF TypeOK, ChangeRead, Go, Idle, Request, Places
<1>4. ASSUME NEW r \in Requests, NEW t \in Tokens, SetupCommit(r, t)
      PROVE  TypeOK'
  BY <1>4 DEF TypeOK, SetupCommit, Create, Done, Go, Idle, Request, Places, AdminRow, Session,
              Hashings
<1>5. ASSUME NEW r \in Requests, NEW t \in Tokens, LoginCommit(r, t)
      PROVE  TypeOK'
  <2>1. req[r].given \in Passwords /\ req[r].seen \in AdminRow /\ admin \in AdminRow
    BY <1>5 DEF TypeOK, LoginCommit, SeenIsCurrent, Request
  <2>2. admin' \in AdminRow /\ overlapped' \in BOOLEAN
    <3>1. CASE req[r].seen.hashed = "before"
      <4>1. overlapped' = (overlapped \/ req[r].seen.version # admin.version)
        BY <1>5, <3>1 DEF LoginCommit, Rehash, Overwrites
      <4>. QED
        BY <1>5, <2>1, <3>1, <4>1 DEF LoginCommit, Rehash, AdminRow, Hashings
    <3>2. CASE req[r].seen.hashed # "before"
      <4>1. UNCHANGED <<admin, overlapped>>
        BY <1>5, <3>2 DEF LoginCommit, Rehash
      <4>. QED
        BY <2>1, <4>1 DEF TypeOK
    <3>. QED
      BY <3>1, <3>2
  <2>3. sessions' \in [Tokens -> Session \cup {NULL}] /\ expired' \subseteq Tokens
    BY <1>5, <2>1 DEF TypeOK, LoginCommit, SessionVersion, Create, AdminRow, Session
  <2>. QED
    BY <1>5, <2>2, <2>3 DEF TypeOK, LoginCommit, Go, Idle, Request, Places
<1>6. ASSUME NEW r \in Requests, NEW t \in Tokens, LookupItem(r, t)
      PROVE  TypeOK'
  BY <1>6 DEF TypeOK, LookupItem, Go, Idle, Request, Places, Session
<1>7. ASSUME NEW r \in Requests, NEW t \in Tokens, ChangeCommit(r, t)
      PROVE  TypeOK'
  BY <1>7 DEF TypeOK, ChangeCommit, Changed, Create, NoSessions, Overwrites, Done, Go,
              Idle, Request, Places, AdminRow, Session, Hashings
<1>8. ASSUME NEW r \in Requests,
             LoginRight(r) \/ LoginWrong(r) \/ LoginForgets(r) \/ LookupAdmin(r)
             \/ LookupTouch(r) \/ LookupPurge(r) \/ Logout(r) \/ Serve(r) \/ Fail(r)
      PROVE  TypeOK'
  <2>1. CASE LoginRight(r)
    <3>1. [req[r] EXCEPT !.at = "verified", !.seen = admin] \in Request
      BY <2>1 DEF TypeOK, LoginRight, Request, Places
    <3>. QED
      BY <2>1, <3>1 DEF TypeOK, LoginRight, Go
  <2>2. CASE LookupAdmin(r)
    BY <2>2 DEF TypeOK, LookupAdmin, Go, Request, Places
  <2>3. CASE LookupTouch(r)
    BY <2>3 DEF TypeOK, LookupTouch, Go, Idle, Request, Places
  <2>4. CASE LookupPurge(r) \/ Logout(r)
    BY <2>4 DEF TypeOK, LookupPurge, Logout, Removes, Done, Go, Idle, Request, Places
  <2>5. CASE LoginWrong(r) \/ LoginForgets(r) \/ Serve(r) \/ Fail(r)
    BY <2>5 DEF TypeOK, LoginWrong, LoginForgets, Serve, Fail, Done, Go, Idle, Request, Places
  <2>. QED
    BY <1>8, <2>1, <2>2, <2>3, <2>4, <2>5
<1>9. ASSUME NEW r \in Requests, ResetCommit(r)
      PROVE  TypeOK'
  <2>1. Idle \in Request
    BY DEF Idle, Request, Places
  <2>2. req' \in [Requests -> Request] /\ \A q \in Requests : q # r => req'[q] = req[q]
    BY <2>1, <1>9 DEF TypeOK, ResetCommit, Done, Go
  <2>3. req[r] \in Request /\ req[r].new \in Passwords
    BY <1>9 DEF TypeOK, ResetCommit, Request
  <2>4. admin' \in AdminRow /\ overlapped' \in BOOLEAN
    <3>1. CASE req[r].seen = NULL
      BY <1>9, <2>3, <3>1 DEF TypeOK, ResetCommit, AdminRow, Hashings
    <3>2. CASE req[r].seen # NULL
      <4>1. req[r].seen.version + 1 \in Nat
        BY <2>3, <3>2 DEF Request, AdminRow, Hashings
      <4>. QED
        BY <1>9, <2>3, <3>2, <4>1 DEF TypeOK, ResetCommit, Changed, Overwrites, AdminRow, Hashings
    <3>. QED
      BY <3>1, <3>2
  <2>5. sessions' \in [Tokens -> Session \cup {NULL}] /\ former' \subseteq Passwords
        /\ UNCHANGED <<expired, failures>>
    BY <1>9, <2>3 DEF TypeOK, ResetCommit, NoSessions
  <2>6. req'[r] = Idle
    BY <1>9 DEF TypeOK, ResetCommit, Done, Go
  <2>. QED
    BY <2>2, <2>4, <2>5, <2>6 DEF TypeOK, Idle
<1>10. CASE (\E t \in Tokens : Expire(t)) \/ FailureAges \/ Restart
  BY <1>10 DEF TypeOK, Expire, FailureAges, Restart, Idle, Request, Places
<1>. QED
  BY <1>1, <1>2, <1>3, <1>4, <1>5, <1>6, <1>7, <1>8, <1>9, <1>10 DEF Next, Step

(* Every step keeps what requests know of the administrator's row. *)
LEMMA StepSeen == IInv /\ [Next]_vars => SeenIsCurrent'
<1> SUFFICES ASSUME IInv, [Next]_vars PROVE SeenIsCurrent'
  OBVIOUS
<1> USE NullAssumption, RowAssumption DEF IInv
<1>1. CASE UNCHANGED vars
  BY <1>1 DEF SeenIsCurrent, vars
<1>2. ASSUME NEW r \in Requests, NEW p \in Passwords,
             SetupRead(r, p) \/ LoginCheck(r, p) \/ ResetRead(r, p)
      PROVE  SeenIsCurrent'
  <2>1. CASE SetupRead(r, p)
    BY <2>1 DEF TypeOK, SeenIsCurrent, SetupRead, Go, Idle
  <2>2. CASE LoginCheck(r, p)
    BY <2>2 DEF TypeOK, SeenIsCurrent, LoginCheck, Go, Idle
  <2>3. CASE ResetRead(r, p)
    BY <2>3 DEF TypeOK, SeenIsCurrent, ResetRead, Go, Idle, AdminRow
  <2>. QED
    BY <1>2, <2>1, <2>2, <2>3
<1>3. ASSUME NEW r \in Requests, NEW p \in Passwords, NEW new \in Passwords,
             ChangeRead(r, p, new)
      PROVE  SeenIsCurrent'
  BY <1>3 DEF TypeOK, SeenIsCurrent, PasswordIsFormer, ChangeRead, Go, Idle, AdminRow
<1>4. ASSUME NEW r \in Requests, NEW t \in Tokens, SetupCommit(r, t)
      PROVE  SeenIsCurrent'
  <2>1. \A q \in Requests : req[q].seen = NULL
    BY <1>4 DEF SetupCommit, SeenIsCurrent
  <2>. QED
    BY <1>4, <2>1 DEF TypeOK, SeenIsCurrent, SetupCommit, Done, Go, Idle
<1>5. ASSUME NEW r \in Requests, NEW t \in Tokens, LoginCommit(r, t)
      PROVE  SeenIsCurrent'
  <2>1. req[r].seen # NULL /\ req[r].seen.password = req[r].given /\ admin # NULL
    BY <1>5 DEF TypeOK, LoginCommit, SeenIsCurrent
  <2>2. \A q \in Requests \ {r} : req'[q] = req[q]
    BY <1>5 DEF TypeOK, LoginCommit, Go
  <2>3. req'[r].seen = NULL /\ req'[r].at = "entered"
    BY <1>5 DEF TypeOK, LoginCommit, Go, Idle
  <2>4. admin' # NULL /\ admin'.version = admin.version /\ former' = former
    <3>1. admin \in AdminRow /\ req[r].given \in Passwords
      BY <1>5, <2>1 DEF TypeOK, LoginCommit, Request
    <3>. QED
      BY <1>5, <2>1, <3>1 DEF LoginCommit, Rehash, AdminRow, Hashings
  <2>5. ~overlapped' => ~overlapped /\ admin'.password = admin.password
    <3>1. ~overlapped /\ req[r].seen.version = admin.version =>
              req[r].given = admin.password
      BY <2>1 DEF SeenIsCurrent
    <3>2. req[r].given \in Passwords
      BY <1>5 DEF TypeOK, LoginCommit, Request
    <3>3. CASE req[r].seen.hashed = "before"
      <4>1. overlapped' = (overlapped \/ req[r].seen.version # admin.version)
        BY <1>5, <3>3 DEF LoginCommit, Rehash, Overwrites
      <4>2. admin'.password = req[r].given
        BY <1>5, <3>2, <3>3 DEF LoginCommit, Rehash
      <4>. QED
        BY <3>1, <4>1, <4>2 DEF TypeOK
    <3>4. CASE req[r].seen.hashed # "before"
      BY <1>5, <3>4 DEF LoginCommit, Rehash
    <3>. QED
      BY <3>3, <3>4
  <2>. QED
    BY <2>2, <2>3, <2>4, <2>5 DEF SeenIsCurrent
<1>6. ASSUME NEW r \in Requests, NEW t \in Tokens, LookupItem(r, t)
      PROVE  SeenIsCurrent'
  BY <1>6 DEF TypeOK, SeenIsCurrent, LookupItem, Go, Idle
<1>7. ASSUME NEW r \in Requests, NEW t \in Tokens, ChangeCommit(r, t)
      PROVE  SeenIsCurrent'
  <2>1. req[r].seen # NULL /\ req[r].seen \in AdminRow /\ admin \in AdminRow
    BY <1>7 DEF TypeOK, ChangeCommit, SeenIsCurrent, Request
  <2>2. \A q \in Requests \ {r} : req'[q] = req[q]
    BY <1>7 DEF TypeOK, ChangeCommit, Done, Go
  <2>3. req'[r].seen = NULL /\ req'[r].at = "idle"
    BY <1>7 DEF TypeOK, ChangeCommit, Done, Go, Idle
  <2>4. admin' # NULL /\ admin'.version = req[r].seen.version + 1 /\ former \subseteq former'
    BY <1>7, <2>1 DEF TypeOK, ChangeCommit, Changed, AdminRow, Hashings, Request
  <2>5. ~overlapped' => ~overlapped /\ admin'.version = admin.version + 1
    BY <1>7, <2>4 DEF TypeOK, ChangeCommit, Overwrites
  <2>6. \A q \in Requests : req[q].seen # NULL => req[q].seen.version \in Nat
    BY DEF TypeOK, Request, AdminRow
  <2>7. admin.version \in Nat
    BY <2>1 DEF AdminRow
  <2>. QED
    BY <2>2, <2>3, <2>4, <2>5, <2>6, <2>7 DEF SeenIsCurrent
<1>8. ASSUME NEW r \in Requests,
             LoginRight(r) \/ LoginWrong(r) \/ LoginForgets(r) \/ LookupAdmin(r)
             \/ LookupTouch(r) \/ LookupPurge(r) \/ Logout(r) \/ Serve(r) \/ Fail(r)
      PROVE  SeenIsCurrent'
  <2>1. CASE LoginRight(r)
    <3>1. req'[r].seen = admin /\ req'[r].given = req[r].given
          /\ \A q \in Requests \ {r} : req'[q] = req[q]
      BY <2>1 DEF TypeOK, LoginRight, Go, Request
    <3>2. admin # NULL /\ admin \in AdminRow /\ admin.password = req[r].given
          /\ admin.password \in former /\ UNCHANGED <<admin, former, overlapped>>
      BY <2>1 DEF TypeOK, LoginRight, PasswordIsFormer
    <3>. QED
      BY <3>1, <3>2 DEF SeenIsCurrent, AdminRow
  <2>2. CASE LookupAdmin(r)
    BY <2>2 DEF TypeOK, SeenIsCurrent, LookupAdmin, Go, Request
  <2>3. CASE LookupTouch(r)
    BY <2>3 DEF TypeOK, SeenIsCurrent, LookupTouch, Go, Idle
  <2>4. CASE LookupPurge(r) \/ Logout(r)
    BY <2>4 DEF TypeOK, SeenIsCurrent, LookupPurge, Logout, Removes, Done, Go, Idle
  <2>5. CASE LoginWrong(r) \/ LoginForgets(r) \/ Serve(r) \/ Fail(r)
    BY <2>5 DEF TypeOK, SeenIsCurrent, LoginWrong, LoginForgets, Serve, Fail, Done, Go, Idle
  <2>. QED
    BY <1>8, <2>1, <2>2, <2>3, <2>4, <2>5
<1>9. ASSUME NEW r \in Requests, ResetCommit(r)
      PROVE  SeenIsCurrent'
  <2>1. \A q \in Requests \ {r} : req'[q] = req[q]
    BY <1>9 DEF TypeOK, ResetCommit, Done, Go
  <2>2. req'[r].seen = NULL /\ req'[r].at = "idle"
    BY <1>9 DEF TypeOK, ResetCommit, Done, Go, Idle
  <2>3. former \subseteq former'
    BY <1>9 DEF ResetCommit
  <2>4. CASE req[r].seen = NULL
    <3>1. \A q \in Requests : req[q].seen = NULL
      BY <1>9, <2>4 DEF ResetCommit, SeenIsCurrent
    <3>. QED
      BY <2>1, <2>2, <2>3, <3>1 DEF SeenIsCurrent
  <2>5. CASE req[r].seen # NULL
    <3>1. req[r].seen \in AdminRow /\ admin \in AdminRow /\ req[r].new \in Passwords
      BY <1>9, <2>5 DEF TypeOK, ResetCommit, SeenIsCurrent, Request
    <3>2. admin' # NULL /\ admin'.version = req[r].seen.version + 1
      BY <1>9, <2>5, <3>1 DEF ResetCommit, Changed, AdminRow, Hashings
    <3>3. ~overlapped' => ~overlapped /\ admin'.version = admin.version + 1
      BY <1>9, <2>5, <3>2 DEF TypeOK, ResetCommit, Overwrites
    <3>4. \A q \in Requests : req[q].seen # NULL => req[q].seen.version \in Nat
      BY DEF TypeOK, Request, AdminRow
    <3>5. admin.version \in Nat
      BY <3>1 DEF AdminRow
    <3>. QED
      BY <2>1, <2>2, <2>3, <3>2, <3>3, <3>4, <3>5 DEF SeenIsCurrent
  <2>. QED
    BY <2>4, <2>5
<1>10. CASE (\E t \in Tokens : Expire(t)) \/ FailureAges \/ Restart
  BY <1>10 DEF TypeOK, SeenIsCurrent, Expire, FailureAges, Restart, Idle
<1>. QED
  BY <1>1, <1>2, <1>3, <1>4, <1>5, <1>6, <1>7, <1>8, <1>9, <1>10 DEF Next, Step

(* The rows of the sessions that requests hold, and of the administrator. *)
LEMMA StepHeld == IInv /\ [Next]_vars => HeldTokens' /\ PasswordIsFormer'
<1> SUFFICES ASSUME IInv, [Next]_vars PROVE HeldTokens' /\ PasswordIsFormer'
  OBVIOUS
<1> USE NullAssumption, RowAssumption DEF IInv
<1>1. CASE UNCHANGED vars
  BY <1>1 DEF HeldTokens, PasswordIsFormer, vars
<1>2. ASSUME NEW r \in Requests, NEW p \in Passwords,
             SetupRead(r, p) \/ LoginCheck(r, p) \/ ResetRead(r, p)
      PROVE  HeldTokens' /\ PasswordIsFormer'
  <2>1. UNCHANGED <<admin, sessions, former>> /\ req'[r].at \notin {"lookup", "touch"}
        /\ \A q \in Requests \ {r} : req'[q] = req[q]
    <3>1. CASE SetupRead(r, p)
      BY <3>1 DEF TypeOK, SetupRead, Go, Idle
    <3>2. CASE LoginCheck(r, p)
      BY <3>2 DEF TypeOK, LoginCheck, Go, Idle
    <3>3. CASE ResetRead(r, p)
      BY <3>3 DEF TypeOK, ResetRead, Go, Idle
    <3>. QED
      BY <1>2, <3>1, <3>2, <3>3
  <2>. QED
    BY <2>1 DEF HeldTokens, PasswordIsFormer
<1>3. ASSUME NEW r \in Requests, NEW p \in Passwords, NEW new \in Passwords,
             ChangeRead(r, p, new)
      PROVE  HeldTokens' /\ PasswordIsFormer'
  BY <1>3 DEF TypeOK, HeldTokens, PasswordIsFormer, ChangeRead, Go, Idle
<1>4. ASSUME NEW r \in Requests, NEW t \in Tokens, SetupCommit(r, t)
      PROVE  HeldTokens' /\ PasswordIsFormer'
  <2>1. \A q \in Requests \ {r} : req'[q] = req[q] /\ req[q].token # t
    BY <1>4 DEF TypeOK, SetupCommit, Done, Go, Fresh
  <2>2. req'[r].at = "idle"
    BY <1>4 DEF TypeOK, SetupCommit, Done, Go, Idle
  <2>3. (\A u \in Tokens \ {t} : sessions'[u] = sessions[u]) /\ sessions = NoSessions
    BY <1>4 DEF SetupCommit, Create, PasswordIsFormer
  <2>4. \A q \in Requests : req[q].token \in Tokens \cup {NULL}
    BY DEF TypeOK, Request
  <2>5. admin' # NULL /\ admin'.password \in former'
    <3>1. req[r].new \in Passwords
      BY <1>4 DEF TypeOK, SetupCommit, Request
    <3>. QED
      BY <1>4, <3>1 DEF SetupCommit, AdminRow, Hashings
  <2>6. \A q \in Requests \ {r} : req[q].at \in {"lookup", "touch"} =>
            sessions'[req[q].token] = NULL
    BY <2>1, <2>3, <2>4 DEF TypeOK, NoSessions
  <2>. QED
    BY <2>1, <2>2, <2>5, <2>6 DEF HeldTokens, PasswordIsFormer
<1>5. ASSUME NEW r \in Requests, NEW t \in Tokens, LoginCommit(r, t)
      PROVE  HeldTokens' /\ PasswordIsFormer'
  <2>1. \A q \in Requests \ {r} : req'[q] = req[q] /\ req[q].token # t
    BY <1>5 DEF TypeOK, LoginCommit, Go, Fresh
  <2>2. req'[r].at = "entered"
    BY <1>5 DEF TypeOK, LoginCommit, Go, Idle
  <2>3. \A u \in Tokens \ {t} : sessions'[u] = sessions[u]
    BY <1>5 DEF TypeOK, LoginCommit, Create
  <2>4. \A q \in Requests : req[q].at \in {"lookup", "touch"} => req[q].token \in Tokens
    BY DEF TypeOK, Request
  <2>5. admin' # NULL /\ admin'.version = admin.version /\ admin'.password \in former'
    <3>1. admin \in AdminRow /\ req[r].given \in Passwords /\ req[r].given \in former
      BY <1>5 DEF TypeOK, LoginCommit, Request, SeenIsCurrent
    <3>. QED
      BY <1>5, <3>1 DEF LoginCommit, Rehash, AdminRow, Hashings, PasswordIsFormer
  <2>. QED
    BY <2>1, <2>2, <2>3, <2>4, <2>5 DEF HeldTokens, PasswordIsFormer
<1>6. ASSUME NEW r \in Requests, NEW t \in Tokens, LookupItem(r, t)
      PROVE  HeldTokens' /\ PasswordIsFormer'
  BY <1>6 DEF TypeOK, HeldTokens, PasswordIsFormer, LookupItem, Go, Idle
<1>7. ASSUME NEW r \in Requests, NEW t \in Tokens, ChangeCommit(r, t)
      PROVE  HeldTokens' /\ PasswordIsFormer'
  <2>1. \A q \in Requests \ {r} : req'[q] = req[q] /\ req[q].token # t
    BY <1>7 DEF TypeOK, ChangeCommit, Done, Go, Fresh
  <2>2. req'[r].at = "idle"
    BY <1>7 DEF TypeOK, ChangeCommit, Done, Go, Idle
  <2>3. \A u \in Tokens \ {t} : sessions'[u] = NULL
    BY <1>7 DEF ChangeCommit, Create, NoSessions
  <2>4. \A q \in Requests : req[q].at \in {"lookup", "touch"} => req[q].token \in Tokens
    BY DEF TypeOK, Request
  <2>5. admin' # NULL /\ admin'.password \in former'
    <3>1. req[r].seen \in AdminRow /\ req[r].new \in Passwords
      BY <1>7 DEF TypeOK, ChangeCommit, Request
    <3>. QED
      BY <1>7, <3>1 DEF ChangeCommit, Changed, AdminRow, Hashings
  <2>. QED
    BY <2>1, <2>2, <2>3, <2>4, <2>5 DEF HeldTokens, PasswordIsFormer
<1>8. ASSUME NEW r \in Requests,
             LoginRight(r) \/ LoginWrong(r) \/ LoginForgets(r) \/ Serve(r) \/ Fail(r)
      PROVE  HeldTokens' /\ PasswordIsFormer'
  <2>1. UNCHANGED <<admin, sessions, former>> /\ req'[r].at \notin {"lookup", "touch"}
        /\ \A q \in Requests \ {r} : req'[q] = req[q]
    <3>1. CASE LoginRight(r)
      BY <3>1 DEF TypeOK, LoginRight, Go, Request
    <3>2. CASE LoginWrong(r) \/ LoginForgets(r) \/ Serve(r) \/ Fail(r)
      BY <3>2 DEF TypeOK, LoginWrong, LoginForgets, Serve, Fail, Done, Go, Idle
    <3>. QED
      BY <1>8, <3>1, <3>2
  <2>. QED
    BY <2>1 DEF HeldTokens, PasswordIsFormer
<1>9. ASSUME NEW r \in Requests, LookupAdmin(r)
      PROVE  HeldTokens' /\ PasswordIsFormer'
  BY <1>9 DEF TypeOK, HeldTokens, PasswordIsFormer, LookupAdmin, Go, Request
<1>10. ASSUME NEW r \in Requests, LookupTouch(r)
      PROVE  HeldTokens' /\ PasswordIsFormer'
  BY <1>10 DEF TypeOK, HeldTokens, PasswordIsFormer, LookupTouch, Go, Idle
<1>11. ASSUME NEW r \in Requests, LookupPurge(r) \/ Logout(r)
       PROVE  HeldTokens' /\ PasswordIsFormer'
  <2>1. \A q \in Requests \ {r} : req'[q] = req[q]
    BY <1>11 DEF TypeOK, LookupPurge, Logout, Removes, Done, Go
  <2>2. req'[r].at = "idle" /\ UNCHANGED <<admin, former>>
    BY <1>11 DEF TypeOK, LookupPurge, Logout, Removes, Done, Go, Idle
  <2>3. \A u \in Tokens : sessions'[u] \in {NULL, sessions[u]}
    BY <1>11 DEF TypeOK, LookupPurge, Logout, Removes
  <2>4. \A q \in Requests : req[q].at \in {"lookup", "touch"} => req[q].token \in Tokens
    BY DEF TypeOK, Request
  <2>5. sessions = NoSessions => sessions' = NoSessions
    BY <1>11 DEF LookupPurge, Logout, Removes, NoSessions
  <2>. QED
    BY <2>1, <2>2, <2>3, <2>4, <2>5 DEF HeldTokens, PasswordIsFormer
<1>12. ASSUME NEW r \in Requests, ResetCommit(r)
       PROVE  HeldTokens' /\ PasswordIsFormer'
  <2>1. \A q \in Requests \ {r} : req'[q] = req[q]
    BY <1>12 DEF TypeOK, ResetCommit, Done, Go
  <2>2. req'[r].at = "idle"
    BY <1>12 DEF TypeOK, ResetCommit, Done, Go, Idle
  <2>3. \A u \in Tokens : sessions'[u] = NULL
    BY <1>12 DEF ResetCommit, NoSessions
  <2>4. \A q \in Requests : req[q].at \in {"lookup", "touch"} => req[q].token \in Tokens
    BY DEF TypeOK, Request
  <2>5. admin' # NULL /\ admin'.password \in former'
    <3>1. req[r].seen \in AdminRow \cup {NULL} /\ req[r].new \in Passwords
      BY <1>12 DEF TypeOK, ResetCommit, Request
    <3>. QED
      BY <1>12, <3>1 DEF ResetCommit, Changed, AdminRow, Hashings
  <2>. QED
    BY <2>1, <2>2, <2>3, <2>4, <2>5 DEF HeldTokens, PasswordIsFormer
<1>13. CASE (\E t \in Tokens : Expire(t)) \/ FailureAges \/ Restart
  BY <1>13 DEF TypeOK, HeldTokens, PasswordIsFormer, Expire, FailureAges, Restart, Idle
<1>. QED
  BY <1>1, <1>2, <1>3, <1>4, <1>5, <1>6, <1>7, <1>8, <1>9, <1>10, <1>11, <1>12, <1>13
  DEF Next, Step

(* The invariant is inductive. *)
LEMMA Invariance == Spec => []IInv
<1>1. IInv /\ [Next]_vars => IInv'
  BY StepTypeOK, StepSeen, StepHeld DEF IInv
<1>. QED
  BY InitIInv, <1>1, PTL DEF Spec

(* Type correctness of the requests, the rows and the histories. *)
THEOREM TypeCorrect == Spec => []TypeOK
BY Invariance, PTL DEF IInv

(* A request is let in only on a session that is there and current as it is *)
(* let in (auth.py:112-128).                                                *)
THEOREM AcceptedLive == Spec => AcceptedIsLive
<1>1. IInv /\ [Next]_vars =>
        [\A r \in Requests : req[r].at = "touch" /\ req'[r].at = "accepted" =>
            Valid(req[r].token) \/ (req[r].token \in expired
                                    /\ sessions[req[r].token].version = admin.version)]_vars
  <2> SUFFICES ASSUME IInv, Next, NEW r \in Requests,
                      req[r].at = "touch", req'[r].at = "accepted"
               PROVE  Valid(req[r].token) \/ (req[r].token \in expired
                                    /\ sessions[req[r].token].version = admin.version)
    OBVIOUS
  <2>1. sessions[req[r].token] # NULL
    <3>1. \A q \in Requests : Step(q) /\ q # r => req'[r] = req[r]
      BY DEF IInv, TypeOK, Step, SetupRead, LoginCheck, ResetRead, ChangeRead, SetupCommit,
             LoginCommit, LookupItem, ChangeCommit, LoginRight, LoginWrong, LoginForgets,
             LookupAdmin, LookupTouch, LookupPurge, Logout, Removes, Serve, ResetCommit,
             Fail, Done, Go
    <3>2. ~((\E t \in Tokens : Expire(t)) \/ FailureAges \/ Restart)
      BY DEF IInv, TypeOK, Expire, FailureAges, Restart, Idle
    <3>3. Step(r)
      BY <3>1, <3>2 DEF Next
    <3>4. LookupTouch(r) \/ Fail(r)
      BY <3>3 DEF Step, SetupRead, LoginCheck, ResetRead, ChangeRead, SetupCommit,
             LoginCommit, LookupItem, ChangeCommit, LoginRight, LoginWrong, LoginForgets,
             LookupAdmin, LookupPurge, Logout, Removes, Serve, ResetCommit
    <3>. QED
      BY <3>4 DEF IInv, TypeOK, LookupTouch, Touched, Fail, Done, Go, Idle
  <2>. QED
    BY <2>1 DEF IInv, HeldTokens, Valid
<1>. QED
  BY Invariance, <1>1, PTL DEF Spec, AcceptedIsLive

-----------------------------------------------------------------------------
(* The refinement: what the steps that write do to the sessions let in. *)

LEMMA LiveKept ==
    ASSUME UNCHANGED <<admin, sessions, expired>>
    PROVE  Live' = Live
BY DEF Live, Valid

LEMMA LiveEnds ==
    ASSUME TypeOK, NEW t \in Tokens, UNCHANGED admin,
           \/ UNCHANGED expired /\ sessions' = [sessions EXCEPT ![t] = NULL]
           \/ UNCHANGED sessions /\ expired' = expired \cup {t}
    PROVE  Live' = [Live EXCEPT ![t] = NULL]
BY DEF TypeOK, Live, Valid

LEMMA LiveCreated ==
    ASSUME TypeOK, NEW t \in Tokens, NEW v \in Nat, NEW p \in Passwords,
           Fresh(t), Create(sessions, t, v, p),
           admin # NULL, admin' # NULL, admin'.version = admin.version
    PROVE  /\ Live[t] = NULL
           /\ Live' = IF v = admin.version THEN [Live EXCEPT ![t] = p] ELSE Live
<1> USE NullAssumption, RowAssumption
<1>1. Live[t] = NULL
  BY DEF Live, Valid, Fresh
<1>2. sessions' = [sessions EXCEPT ![t] = [version |-> v, password |-> p]]
  BY DEF Create
<1>3. \A u \in Tokens \ {t} : Valid(u)' = Valid(u) /\ sessions'[u] = sessions[u]
  BY <1>2 DEF TypeOK, Create, Valid
<1>4. sessions'[t] # NULL /\ sessions'[t].version = v /\ sessions'[t].password = p
      /\ t \notin expired'
  BY <1>2 DEF TypeOK, Create, Session
<1>5. Valid(t)' <=> v = admin.version
  BY <1>4 DEF Valid
<1>6. Live'[t] = IF v = admin.version THEN p ELSE NULL
  BY <1>4, <1>5 DEF Live
<1>7. \A u \in Tokens \ {t} : Live'[u] = Live[u]
  BY <1>3 DEF Live
<1>. QED
  BY <1>1, <1>6, <1>7 DEF Live

LEMMA LiveAlone ==
    ASSUME NEW t \in Tokens, NEW v \in Nat, NEW p \in Passwords,
           Create(NoSessions, t, v, p), admin' # NULL, admin'.version = v
    PROVE  Live' = Access!Only(t, p)
BY RowAssumption DEF Live, Valid, Create, NoSessions, Session, Access!Only

LEMMA InitAccess == Init => Access!Init
<1> SUFFICES ASSUME Init PROVE Access!Init
  OBVIOUS
<1>1. Live = [t \in Tokens |-> NULL]
  BY DEF Init, Live, Valid, NoSessions
<1>2. CASE admin = NULL
  BY <1>1, <1>2 DEF Init, Access!Init
<1>3. CASE admin # NULL
  <2>1. admin.password \in Passwords
    BY <1>3 DEF Init
  <2>. QED
    BY <1>1, <1>3, <2>1, NullAssumption DEF Init, Access!Init
<1>. QED
  BY <1>2, <1>3

LEMMA StepAccess == IInv /\ [Next]_vars => [Access!Next]_(Access!vars)
<1> SUFFICES ASSUME IInv, [Next]_vars PROVE Access!Next \/ UNCHANGED Access!vars
  OBVIOUS
<1> USE NullAssumption, RowAssumption DEF IInv
<1>1. CASE UNCHANGED <<admin, sessions, expired, former, overlapped>>
  BY <1>1, LiveKept DEF Access!vars
<1>2. ASSUME NEW r \in Requests, NEW t \in Tokens, SetupCommit(r, t)
      PROVE  Access!Next
  <2>1. req[r].new \in Passwords
    BY <1>2 DEF TypeOK, SetupCommit, Request
  <2>2. Live' = Access!Only(t, req[r].new)
    <3>1. admin' # NULL /\ admin'.version = 1
      BY <1>2, <2>1 DEF SetupCommit, AdminRow, Hashings
    <3>. QED
      BY <1>2, <2>1, <3>1, LiveAlone DEF SetupCommit, PasswordIsFormer
  <2>3. admin' # NULL /\ admin'.password = req[r].new
    BY <1>2, <2>1 DEF SetupCommit, AdminRow, Hashings
  <2>4. Access!Setup(req[r].new, t)
    BY <1>2, <2>2, <2>3 DEF SetupCommit, Access!Setup, Access!Becomes
  <2>. QED
    BY <2>1, <2>4 DEF Access!Next
<1>3. ASSUME NEW r \in Requests, NEW t \in Tokens, LoginCommit(r, t)
      PROVE  Access!Next \/ UNCHANGED Access!vars
  <2> DEFINE p == req[r].given
             v == req[r].seen.version
  <2>1. /\ p \in Passwords /\ p \in former /\ req[r].seen \in AdminRow /\ v \in Nat
        /\ admin # NULL /\ admin \in AdminRow
        /\ ~overlapped /\ v = admin.version => p = admin.password
    BY <1>3 DEF TypeOK, LoginCommit, SeenIsCurrent, Request, AdminRow
  <2>2. admin' # NULL /\ admin'.version = admin.version
    BY <1>3, <2>1 DEF LoginCommit, Rehash, AdminRow, Hashings
  <2>3. Live[t] = NULL /\ Live' = IF v = admin.version THEN [Live EXCEPT ![t] = p] ELSE Live
    BY <1>3, <2>1, <2>2, LiveCreated DEF LoginCommit, SessionVersion
  <2>4. former' = former
    BY <1>3 DEF LoginCommit
  <2>5. CASE req[r].seen.hashed # "before"
    <3>1. UNCHANGED <<admin, overlapped>>
      BY <1>3, <2>5 DEF LoginCommit, Rehash
    <3>2. CASE v = admin.version
      <4>1. Access!Login(p, t)
        BY <2>1, <2>3, <2>4, <3>1, <3>2 DEF TypeOK, Access!Login, Access!Accepted
      <4>. QED
        BY <2>1, <4>1 DEF Access!Next
    <3>3. CASE v # admin.version
      BY <2>3, <2>4, <3>1, <3>3 DEF Access!vars
    <3>. QED
      BY <3>2, <3>3
  <2>6. CASE req[r].seen.hashed = "before"
    <3>1. admin'.password = p /\ overlapped' = (overlapped \/ v # admin.version)
      BY <1>3, <2>6 DEF LoginCommit, Rehash, Overwrites
    <3>2. CASE overlapped'
      <4>1. former \cup {p} = former /\ Live' \in {Live, [Live EXCEPT ![t] = p]}
        BY <2>1, <2>3
      <4>2. Access!Restore(p, t)
        BY <2>1, <2>2, <2>4, <3>1, <3>2, <4>1
        DEF Access!Restore, Access!Accepted, Access!Becomes
      <4>. QED
        BY <2>1, <4>2 DEF Access!Next
    <3>3. CASE ~overlapped'
      <4>1. v = admin.version /\ ~overlapped /\ p = admin.password
        BY <2>1, <3>1, <3>3 DEF TypeOK
      <4>2. Access!Login(p, t)
        BY <2>1, <2>2, <2>3, <2>4, <3>1, <3>3, <4>1 DEF TypeOK, Access!Login, Access!Accepted
      <4>. QED
        BY <2>1, <4>2 DEF Access!Next
    <3>. QED
      BY <3>2, <3>3
  <2>. QED
    BY <2>5, <2>6
<1>4. ASSUME NEW r \in Requests, NEW t \in Tokens, ChangeCommit(r, t)
      PROVE  Access!Next
  <2> DEFINE p == req[r].given
             n == req[r].new
             v == req[r].seen.version
  <2>1. /\ p \in Passwords /\ n \in Passwords /\ p \in former /\ v \in Nat
        /\ admin # NULL
        /\ ~overlapped /\ v = admin.version => p = admin.password
    BY <1>4 DEF TypeOK, ChangeCommit, SeenIsCurrent, Request, AdminRow
  <2>2. admin' # NULL /\ admin'.version = v + 1 /\ admin'.password = n
    BY <1>4, <2>1 DEF ChangeCommit, Changed, AdminRow, Hashings
  <2>3. Live' = Access!Only(t, n)
    <3>1. Create(NoSessions, t, v + 1, n) /\ v + 1 \in Nat
      BY <1>4, <2>1 DEF ChangeCommit, Changed
    <3>. QED
      BY <2>1, <2>2, <3>1, LiveAlone
  <2>4. overlapped' = (overlapped \/ v # admin.version) /\ former' = former \cup {n}
    BY <1>4 DEF ChangeCommit, Overwrites
  <2>5. Access!Accepted(p)
    BY <2>1, <2>4 DEF TypeOK, Access!Accepted
  <2>6. Access!Change(p, n, t)
    BY <2>2, <2>3, <2>4, <2>5 DEF TypeOK, Access!Change, Access!Becomes
  <2>. QED
    BY <2>1, <2>6 DEF Access!Next
<1>5. ASSUME NEW r \in Requests, ResetCommit(r)
      PROVE  Access!Next
  <2>1. req[r].new \in Passwords /\ req[r].seen \in AdminRow \cup {NULL}
    BY <1>5 DEF TypeOK, ResetCommit, Request
  <2>2. Live' = [t \in Tokens |-> NULL]
    BY <1>5 DEF ResetCommit, Live, Valid, NoSessions
  <2>3. admin' # NULL /\ admin'.password = req[r].new
    BY <1>5, <2>1 DEF ResetCommit, Changed, AdminRow, Hashings
  <2>4. (overlapped => overlapped') /\ former' = former \cup {req[r].new}
    BY <1>5 DEF TypeOK, ResetCommit, Overwrites
  <2>5. Access!Reset(req[r].new)
    BY <2>2, <2>3, <2>4 DEF Access!Reset, Access!Becomes
  <2>. QED
    BY <2>1, <2>5 DEF Access!Next
<1>6. ASSUME NEW t \in Tokens, UNCHANGED <<admin, former, overlapped>>,
             \/ UNCHANGED expired /\ sessions' = [sessions EXCEPT ![t] = NULL]
             \/ UNCHANGED sessions /\ expired' = expired \cup {t}
      PROVE  Access!Next \/ UNCHANGED Access!vars
  <2>1. Live' = [Live EXCEPT ![t] = NULL]
    BY <1>6, LiveEnds
  <2>2. CASE Live[t] # NULL
    <3>1. Access!End(t)
      BY <1>6, <2>1, <2>2 DEF Access!End
    <3>. QED
      BY <3>1 DEF Access!Next
  <2>3. CASE Live[t] = NULL
    <3>1. Live' = Live
      BY <2>1, <2>3 DEF Live
    <3>. QED
      BY <1>6, <3>1 DEF Access!vars
  <2>. QED
    BY <2>2, <2>3
<1>7. ASSUME NEW r \in Requests, LookupPurge(r) \/ Logout(r)
      PROVE  Access!Next \/ UNCHANGED Access!vars
  <2>1. req[r].token \in Tokens
    BY <1>7 DEF TypeOK, LookupPurge, Logout, Removes, Request
  <2>. QED
    BY <1>6, <1>7, <2>1 DEF LookupPurge, Logout, Removes
<1>8. ASSUME NEW t \in Tokens, Expire(t)
      PROVE  Access!Next \/ UNCHANGED Access!vars
  BY <1>6, <1>8 DEF Expire
<1>9. ASSUME NEW r \in Requests, Step(r)
      PROVE  Access!Next \/ UNCHANGED Access!vars
  BY <1>1, <1>2, <1>3, <1>4, <1>5, <1>7, <1>9
  DEF Step, SetupRead, LoginCheck, ResetRead, ChangeRead, LookupItem, LoginRight,
      LoginWrong, LoginForgets, LookupAdmin, LookupTouch, Serve, Fail
<1>. QED
  BY <1>1, <1>8, <1>9 DEF Next, vars, FailureAges, Restart

(* Requests served together do what AdminAccess does in single steps, with  *)
(* any number of requests, passwords and sessions (auth.py).                *)
THEOREM AuthImplements == Spec => Implements
<1>1. IInv /\ [Next]_vars => [Access!Next]_(Access!vars)
  BY StepAccess
<1>. QED
  BY InitAccess, Invariance, <1>1, PTL DEF Spec, Implements, Access!Spec

(* As long as no two changes have overlapped, a session that lets a request *)
(* in was had for the password that is current: a change of the password    *)
(* ends whatever was had for another (auth.py:109-128, 187-189, 236-263).    *)
THEOREM SessionsAreCurrent == Spec => []Access!OfCurrentPassword
<1>1. Access!Init => Access!OfCurrentPassword
  BY DEF Access!Init, Access!OfCurrentPassword
<1>2. Access!OfCurrentPassword /\ [Access!Next]_(Access!vars) => Access!OfCurrentPassword'
  <2> SUFFICES ASSUME Access!OfCurrentPassword, [Access!Next]_(Access!vars)
               PROVE  Access!OfCurrentPassword'
    OBVIOUS
  <2>1. CASE UNCHANGED Access!vars
    BY <2>1 DEF Access!OfCurrentPassword, Access!vars
  <2>2. ASSUME NEW p \in Passwords, NEW t \in Tokens, Access!Setup(p, t) \/ Access!Restore(p, t)
        PROVE  Access!OfCurrentPassword'
    BY <2>2 DEF Access!OfCurrentPassword, Access!Setup, Access!Restore, Access!Becomes, Access!Only
  <2>3. ASSUME NEW p \in Passwords, NEW t \in Tokens, Access!Login(p, t)
        PROVE  Access!OfCurrentPassword'
    BY <2>3 DEF Access!OfCurrentPassword, Access!Login, Access!Accepted, Live
  <2>4. ASSUME NEW p \in Passwords, NEW new \in Passwords, NEW t \in Tokens,
               Access!Change(p, new, t)
        PROVE  Access!OfCurrentPassword'
    BY <2>4 DEF Access!OfCurrentPassword, Access!Change, Access!Becomes, Access!Only
  <2>5. ASSUME NEW new \in Passwords, Access!Reset(new)
        PROVE  Access!OfCurrentPassword'
    BY <2>5 DEF Access!OfCurrentPassword, Access!Reset
  <2>6. ASSUME NEW t \in Tokens, Access!End(t)
        PROVE  Access!OfCurrentPassword'
    BY <2>6 DEF Access!OfCurrentPassword, Access!End, Live
  <2>. QED
    BY <2>1, <2>2, <2>3, <2>4, <2>5, <2>6 DEF Access!Next
<1>. QED
  BY AuthImplements, <1>1, <1>2, PTL DEF Implements, Access!Spec

-----------------------------------------------------------------------------
(* Failed logins *)

LoggingIn == {r \in Requests : req[r].at = "login"}

(* What a request does next but check the limit or fail: it does not begin   *)
(* to verify a password, nor does any other, and counts no failure.          *)
LEMMA QuietStep ==
    ASSUME TypeOK, [Next]_vars,
           ~\E r \in Requests, p \in Passwords : LoginCheck(r, p),
           ~\E r \in Requests : LoginWrong(r)
    PROVE  LoggingIn' \subseteq LoggingIn /\ failures' <= failures
<1> USE DEF Go, Done, Idle
<1>1. failures \in Nat /\ req \in [Requests -> Request]
  BY DEF TypeOK
<1>2. CASE \/ UNCHANGED vars \/ \E t \in Tokens : Expire(t)
           \/ FailureAges \/ Restart
  BY <1>1, <1>2 DEF vars, Expire, FailureAges, Restart, LoggingIn
<1>3. ASSUME NEW r \in Requests, Step(r)
      PROVE  LoggingIn' \subseteq LoggingIn /\ failures' <= failures
  <2>1. \/ failures' = failures
        \/ failures' = 0
    BY <1>3 DEF Step, SetupRead, ResetRead, ChangeRead, SetupCommit, LoginCommit, LookupItem,
       ChangeCommit, LoginRight, LoginForgets, LookupAdmin, LookupTouch, LookupPurge, Logout,
       Removes, Serve, ResetCommit, Fail
  <2>2. /\ req'[r].at # "login"
        /\ \A q \in Requests : q # r => req'[q] = req[q]
    <3>1. CASE Done(r)
      BY <1>1, <3>1
    <3>2. CASE \E p \in Passwords : SetupRead(r, p) \/ ResetRead(r, p)
      BY <1>1, <3>2 DEF SetupRead, ResetRead
    <3>3. CASE \E p, new \in Passwords : ChangeRead(r, p, new)
      BY <1>1, <3>3 DEF ChangeRead
    <3>4. CASE \E t \in Tokens : LoginCommit(r, t) \/ LookupItem(r, t)
      BY <1>1, <3>4 DEF LoginCommit, LookupItem
    <3>5. CASE LookupTouch(r)
      BY <1>1, <3>5 DEF LookupTouch
    <3>6. CASE LoginRight(r)
      BY <1>1, <3>6 DEF LoginRight
    <3>7. CASE LookupAdmin(r)
      <4>1. PICK place \in {"touch", "purge"} :
               req' = [req EXCEPT ![r] = [req[r] EXCEPT !.at = place]]
        BY <3>7 DEF LookupAdmin
      <4>. QED
        BY <1>1, <4>1
    <3>. QED
      BY <1>3, <3>1, <3>2, <3>3, <3>4, <3>5, <3>6, <3>7
      DEF Step, SetupCommit, LoginWrong, LoginForgets, LookupPurge, Logout, Removes, Serve,
          ChangeCommit, ResetCommit, Fail
  <2>3. LoggingIn' \subseteq LoggingIn
    BY <1>1, <2>2 DEF LoggingIn
  <2>. QED
    BY <1>1, <2>1, <2>3
<1>. QED
  BY <1>2, <1>3 DEF Next

FInv == IInv /\ FailuresBounded

LEMMA InitFInv == Init => FInv
<1> SUFFICES ASSUME Init PROVE FailuresBounded
  BY InitIInv DEF FInv
<1>1. LoggingIn = {} /\ failures = 0
  BY DEF Init, LoggingIn, Idle
<1>2. Cardinality({}) = 0 /\ Cardinality(Requests) \in Nat
  BY RequestsAssumption, FS_EmptySet, FS_CardinalityType
<1> HIDE DEF LoggingIn
<1>3. failures + Cardinality(LoggingIn) <= Limit - 1 + Cardinality(Requests)
  BY <1>1, <1>2, LimitAssumption
<1>. QED
  BY <1>3 DEF FailuresBounded, LoggingIn

LEMMA NextFInv == FInv /\ [Next]_vars => FInv'
<1> SUFFICES ASSUME FInv, [Next]_vars PROVE FailuresBounded'
  BY StepTypeOK, StepSeen, StepHeld DEF FInv, IInv
<1> DEFINE n == Cardinality(LoggingIn)
           k == Cardinality(LoggingIn')
           all == Cardinality(Requests)
<1>1. /\ TypeOK /\ TypeOK' /\ failures \in Nat /\ failures' \in Nat /\ Limit \in Nat
      /\ failures + n <= Limit - 1 + all
  BY StepTypeOK, LimitAssumption DEF FInv, IInv, TypeOK, FailuresBounded, LoggingIn
<1>2. /\ LoggingIn \subseteq Requests /\ LoggingIn' \subseteq Requests
      /\ IsFiniteSet(LoggingIn) /\ IsFiniteSet(LoggingIn')
      /\ n \in Nat /\ k \in Nat /\ all \in Nat /\ k <= all
  <2>1. LoggingIn \subseteq Requests /\ LoggingIn' \subseteq Requests
    BY DEF LoggingIn
  <2>2. IsFiniteSet(LoggingIn) /\ IsFiniteSet(LoggingIn')
    BY <2>1, RequestsAssumption, FS_Subset
  <2>3. k <= all
    BY <2>1, RequestsAssumption, FS_Subset
  <2>. QED
    BY <2>1, <2>2, <2>3, RequestsAssumption, FS_CardinalityType
<1> SUFFICES failures' + k <= Limit - 1 + all
  BY DEF FailuresBounded, LoggingIn
<1>3. CASE \E r \in Requests, p \in Passwords : LoginCheck(r, p)
  <2>1. failures' = failures /\ failures < Limit
    BY <1>3 DEF LoginCheck, BelowLimit
  <2> HIDE DEF n, k, all
  <2>. QED
    BY <1>1, <1>2, <2>1
<1>4. CASE \E r \in Requests : LoginWrong(r)
  <2>1. PICK r \in Requests : LoginWrong(r)
    BY <1>4
  <2>2. r \in LoggingIn /\ LoggingIn' = LoggingIn \ {r} /\ failures' = failures + 1
    BY <1>1, <2>1 DEF LoginWrong, Done, Go, Idle, LoggingIn, TypeOK
  <2>3. k = n - 1
    BY <1>2, <2>2, FS_RemoveElement
  <2> HIDE DEF n, k, all
  <2>. QED
    BY <1>1, <1>2, <2>2, <2>3
<1>5. CASE /\ ~\E r \in Requests, p \in Passwords : LoginCheck(r, p)
           /\ ~\E r \in Requests : LoginWrong(r)
  <2>1. LoggingIn' \subseteq LoggingIn /\ failures' <= failures
    BY <1>1, <1>5, QuietStep
  <2>2. k <= n
    <3> HIDE DEF LoggingIn
    <3>. QED
      BY <1>2, <2>1, FS_Subset
  <2> HIDE DEF n, k, all
  <2>3. failures' <= failures
    BY <2>1
  <2>4. \A f, g, a, b, c \in Int : f <= g /\ a <= b /\ g + b <= c => f + a <= c
    OBVIOUS
  <2>5. /\ failures \in Int /\ failures' \in Int /\ n \in Int /\ k \in Int
        /\ Limit - 1 + all \in Int
    BY <1>1, <1>2
  <2>. QED
    BY <1>1, <2>2, <2>3, <2>4, <2>5
<1>. QED
  BY <1>3, <1>4, <1>5

(* The check of the limit and the counting of a failure are apart, so the    *)
(* logins that have passed the check together may exceed the limit, but by   *)
(* no more than there are of them (auth.py:162-186).                         *)
THEOREM FailuresStayBounded == Spec => []FailuresBounded
<1>1. FInv => FailuresBounded
  BY DEF FInv
<1>. QED
  BY <1>1, InitFInv, NextFInv, PTL DEF Spec
=============================================================================
