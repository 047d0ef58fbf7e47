------------------------ MODULE AccountTokens_proofs ------------------------
(***************************************************************************)
(* The safety properties of AccountTokens for any accounts, handlers,      *)
(* logins and number of grants, and that it implements Connections.        *)
(***************************************************************************)
EXTENDS AccountTokens, TLAPS

(***************************************************************************)
(* The inductive invariant: what is in flight is as good as what is stored *)
(***************************************************************************)

\* A call past its read carries a pair of one grant; it is on its way to
\* revoke only with a grant Google no longer honours.
CallsCarryOneGrant ==
    \A c \in Callers : call[c].pc # "idle" =>
        /\ call[c].acc \in Accounts
        /\ call[c].refresh # NoToken
        /\ call[c].access = call[c].refresh
        /\ call[c].pc = "revoke" => call[c].refresh \notin live[call[c].acc]

\* What Google handed out was given in this or an earlier consent.
NoFutureGrant ==
    /\ \A a \in Accounts : live[a] \subseteq 1..issued[a]
    /\ \A a \in Accounts : row[a].refresh <= issued[a]
    /\ \A c \in Callers : call[c].pc # "idle" =>
          call[c].refresh <= issued[call[c].acc]

\* A login past its exchange carries one grant, or no refresh token.
LoginsCarryOneGrant ==
    \A l \in Logins : login[l].pc = "exchanged" =>
        /\ login[l].acc \in Accounts
        /\ login[l].access # NoToken
        /\ login[l].refresh \in {NoToken, login[l].access}
        /\ login[l].refresh <= issued[login[l].acc]

IInv ==
    /\ TypeOK
    /\ StoredPairOfOneGrant
    /\ CallsCarryOneGrant
    /\ NoFutureGrant
    /\ LoginsCarryOneGrant
(***************************************************************************)
(* Type correctness                                                        *)
(***************************************************************************)
\* Empty tables, and no call or login in progress.
LEMMA TypeInit == Init => TypeOK
<1> SUFFICES ASSUME Init PROVE TypeOK
    OBVIOUS
<1>1. NoRow \in Row
    BY MaxGrantAssumption DEF NoRow, Row, Tokens, NoToken
<1>2. Returned("none") \in Call
    BY MaxGrantAssumption DEF Returned, Call, Tokens, NoToken
<1>3. NoLogin \in Login
    BY MaxGrantAssumption DEF NoLogin, Login, Tokens, NoToken
<1> QED
    BY <1>1, <1>2, <1>3, MaxGrantAssumption DEF Init, TypeOK, Tokens, Grants

\* A call that has returned is a call record.
LEMMA ReturnedType ==
    ASSUME NEW r \in {"none", "ok", "revoked", "error"}
    PROVE  Returned(r) \in Call
BY MaxGrantAssumption DEF Returned, Call, Tokens, NoToken

\* The columns UpdateAccountTokens writes keep a row a row.
LEMMA WithTokensType ==
    ASSUME NEW r \in Row, NEW c \in Callers, call[c] \in Call
    PROVE  WithTokens(r, c) \in Row
BY DEF WithTokens, KeepRefreshToken, Row, Call

LEMMA TypeAccountStep ==
    ASSUME TypeOK, NEW a \in Accounts, AccountStep(a)
    PROVE  TypeOK'
<1>1. CASE \E g \in Grants : GrantDropped(a, g)
    BY <1>1 DEF TypeOK, GrantDropped
<1>2. CASE Expire(a)
    <2>1. [row[a] EXCEPT !.fresh = FALSE] \in Row
        BY DEF TypeOK, Row
    <2> QED BY <1>2, <2>1 DEF TypeOK, Expire
<1>3. CASE DeleteConnectedAccount(a)
    <2>1. NoRow \in Row
        BY MaxGrantAssumption DEF NoRow, Row, Tokens, NoToken
    <2> QED BY <1>3, <2>1 DEF TypeOK, DeleteConnectedAccount
<1> QED BY <1>1, <1>2, <1>3 DEF AccountStep

LEMMA TypeLoginStep ==
    ASSUME TypeOK, NEW l \in Logins, LoginStep(l)
    PROVE  TypeOK'
<1>0. NoLogin \in Login
    BY MaxGrantAssumption DEF NoLogin, Login, Tokens, NoToken
<1>1. ASSUME NEW a \in Accounts, NEW withRefresh \in BOOLEAN,
             Exchange(l, a, withRefresh)
      PROVE  TypeOK'
    <2>1. issued[a] + 1 \in Grants
        BY <1>1, MaxGrantAssumption DEF TypeOK, Exchange, Tokens, Grants
    <2>2. issued[a] + 1 \in Tokens /\ NoToken \in Tokens
        BY <2>1, MaxGrantAssumption DEF Grants, Tokens, NoToken
    <2>3. [pc |-> "exchanged", acc |-> a, access |-> issued[a] + 1,
           refresh |-> IF withRefresh THEN issued[a] + 1 ELSE NoToken] \in Login
        BY <2>2 DEF Login
    <2> QED BY <1>1, <2>1, <2>2, <2>3 DEF TypeOK, Exchange
<1>2. CASE UpsertConnectedAccount(l)
    <2>1. login[l] \in Login
        BY DEF TypeOK
    <2>2. ASSUME NEW a \in Accounts
          PROVE  [id |-> IF Exists(a) THEN row[a].id ELSE login[l].access,
                  status |-> "active", access |-> login[l].access,
                  refresh |-> login[l].refresh, fresh |-> TRUE] \in Row
        BY <2>1 DEF TypeOK, Row, Login
    <2> QED BY <1>0, <1>2, <2>2 DEF TypeOK, UpsertConnectedAccount
<1>3. CASE LoginFails(l)
    BY <1>0, <1>3 DEF TypeOK, LoginFails
<1> QED BY <1>1, <1>2, <1>3 DEF LoginStep

LEMMA TypeCallStep ==
    ASSUME TypeOK, NEW c \in Callers, CallStep(c)
    PROVE  TypeOK'
<1>0. call[c] \in Call
    BY DEF TypeOK
<1>1. ASSUME NEW a \in Accounts, ReadFresh(c, a) PROVE TypeOK'
    BY <1>1, ReturnedType DEF TypeOK, ReadFresh
<1>2. ASSUME NEW a \in Accounts, ReadExpired(c, a) PROVE TypeOK'
    <2>1. [pc |-> "refresh", acc |-> a, id |-> row[a].id,
           access |-> row[a].access, refresh |-> row[a].refresh,
           result |-> "none"] \in Call
        BY DEF TypeOK, Row, Call
    <2> QED BY <1>2, <2>1 DEF TypeOK, ReadExpired
<1>3. ASSUME NEW a \in Accounts, ReadFails(c, a) PROVE TypeOK'
    BY <1>3, ReturnedType DEF TypeOK, ReadFails
<1>4. ASSUME NEW given \in Tokens, RefreshGranted(c, given) PROVE TypeOK'
    <2>1. [call[c] EXCEPT !.pc = "save", !.access = call[c].refresh,
              !.refresh = KeepRefreshToken(given, call[c].refresh)] \in Call
        BY <1>0 DEF Call, KeepRefreshToken
    <2>2. call' = [call EXCEPT ![c] =
              [call[c] EXCEPT !.pc = "save", !.access = call[c].refresh,
                  !.refresh = KeepRefreshToken(given, call[c].refresh)]]
        BY <1>0, <1>4 DEF RefreshGranted, Call, TypeOK
    <2> QED BY <1>4, <2>1, <2>2 DEF TypeOK, RefreshGranted
<1>5. CASE RefreshRefused(c)
    <2>1. [call[c] EXCEPT !.pc = "revoke"] \in Call
        BY <1>0 DEF Call
    <2> QED BY <1>5, <2>1 DEF TypeOK, RefreshRefused
<1>6. CASE RefreshFails(c)
    BY <1>6, ReturnedType DEF TypeOK, RefreshFails
<1>7. CASE MarkRevoked(c)
    <2>1. ASSUME NEW a \in Accounts PROVE WithStatusRevoked(row[a]) \in Row
        BY DEF TypeOK, Row, WithStatusRevoked
    <2> QED BY <1>7, <2>1, ReturnedType DEF TypeOK, MarkRevoked
<1>8. CASE MarkRevokedFails(c)
    BY <1>8, ReturnedType DEF TypeOK, MarkRevokedFails
<1>9. CASE SaveTokens(c)
    <2>1. ASSUME NEW a \in Accounts PROVE WithTokens(row[a], c) \in Row
        BY <1>0, WithTokensType DEF TypeOK
    <2> QED BY <1>9, <2>1, ReturnedType DEF TypeOK, SaveTokens
<1>10. CASE SaveFails(c)
    BY <1>10, ReturnedType DEF TypeOK, SaveFails
<1> QED
    BY <1>1, <1>2, <1>3, <1>4, <1>5, <1>6, <1>7, <1>8, <1>9, <1>10 DEF CallStep

LEMMA TypeStep == TypeOK /\ [Next]_vars => TypeOK'
<1> SUFFICES ASSUME TypeOK, [Next]_vars PROVE TypeOK'
    OBVIOUS
<1>1. CASE Crash
    <2>1. NoLogin \in Login
        BY MaxGrantAssumption DEF NoLogin, Login, Tokens, NoToken
    <2> QED BY <1>1, <2>1, ReturnedType DEF TypeOK, Crash
<1>2. CASE UNCHANGED vars
    BY <1>2 DEF TypeOK, vars
<1> QED BY <1>1, <1>2, TypeAccountStep, TypeLoginStep, TypeCallStep DEF Next

\* Every reachable state is well typed, for any accounts, handlers, logins and
\* number of consents (the rows, calls and logins of internal/store/account
\* and internal/api/auth).
THEOREM TypeCorrect == Spec => []TypeOK
<1> QED BY TypeInit, TypeStep, PTL DEF Spec

(***************************************************************************)
(* The invariant is inductive                                              *)
(***************************************************************************)
LEMMA InvInit == Init => IInv
<1> SUFFICES ASSUME Init PROVE IInv
    OBVIOUS
<1>1. TypeOK
    BY TypeInit
<1>2. StoredPairOfOneGrant /\ CallsCarryOneGrant /\ LoginsCarryOneGrant
    BY DEF Init, StoredPairOfOneGrant, Exists, NoRow, CallsCarryOneGrant,
           Returned, LoginsCarryOneGrant, NoLogin
<1>3. NoFutureGrant
    BY DEF Init, NoFutureGrant, NoRow, Returned, NoToken
<1> QED BY <1>1, <1>2, <1>3 DEF IInv

\* What each step of Google, the user and the API changes in the account.
LEMMA InvAccountStep ==
    ASSUME IInv, NEW a \in Accounts, AccountStep(a)
    PROVE  IInv'
<1> USE DEF IInv
<1>0. TypeOK'
    BY TypeAccountStep
<1>1. CASE \E g \in Grants : GrantDropped(a, g)
    <2> PICK g \in Grants : GrantDropped(a, g)
        BY <1>1
    <2>1. live' = [live EXCEPT ![a] = @ \ {g}] /\ UNCHANGED <<row, call, login, issued>>
        BY DEF GrantDropped
    <2>2. \A b \in Accounts : live'[b] \subseteq live[b]
        BY <2>1 DEF TypeOK
    <2>3. StoredPairOfOneGrant' /\ LoginsCarryOneGrant'
        BY <2>1 DEF StoredPairOfOneGrant, LoginsCarryOneGrant, Exists
    <2>4. CallsCarryOneGrant'
        BY <2>1, <2>2 DEF CallsCarryOneGrant
    <2>5. NoFutureGrant'
        BY <2>1, <2>2 DEF NoFutureGrant
    <2> QED BY <1>0, <2>3, <2>4, <2>5
<1>2. CASE Expire(a)
    <2>1. \A b \in Accounts : /\ row'[b].status = row[b].status
                              /\ row'[b].access = row[b].access
                              /\ row'[b].refresh = row[b].refresh
        BY <1>2 DEF Expire, TypeOK, Row
    <2>2. UNCHANGED <<call, login, live, issued>>
        BY <1>2 DEF Expire
    <2> QED BY <1>0, <2>1, <2>2 DEF StoredPairOfOneGrant, Exists,
                CallsCarryOneGrant, NoFutureGrant, LoginsCarryOneGrant
<1>3. CASE DeleteConnectedAccount(a)
    <2>1. \A b \in Accounts : row'[b] = IF b = a THEN NoRow ELSE row[b]
        BY <1>3 DEF DeleteConnectedAccount, TypeOK
    <2>2. UNCHANGED <<call, login, live, issued>>
        BY <1>3 DEF DeleteConnectedAccount
    <2>3. StoredPairOfOneGrant'
        BY <2>1 DEF StoredPairOfOneGrant, Exists, NoRow
    <2>4. NoFutureGrant'
        BY <2>1, <2>2 DEF NoFutureGrant, NoRow, TypeOK, Tokens, NoToken
    <2> QED BY <1>0, <2>2, <2>3, <2>4 DEF CallsCarryOneGrant, LoginsCarryOneGrant
<1> QED BY <1>1, <1>2, <1>3 DEF AccountStep

\* A new grant has a number no call or row holds yet; only a login that has a
\* refresh token reaches the row.
LEMMA InvLoginStep ==
    ASSUME IInv, NEW l \in Logins, LoginStep(l)
    PROVE  IInv'
<1> USE DEF IInv
<1>0. TypeOK'
    BY TypeLoginStep
<1>1. ASSUME NEW a \in Accounts, NEW withRefresh \in BOOLEAN,
             Exchange(l, a, withRefresh)
      PROVE  IInv'
    <2>1. /\ \A b \in Accounts : issued'[b] = IF b = a THEN issued[a] + 1 ELSE issued[b]
          /\ \A b \in Accounts :
                live'[b] = IF b = a THEN live[a] \union {issued[a] + 1} ELSE live[b]
          /\ UNCHANGED <<row, call>>
        BY <1>1 DEF Exchange, TypeOK
    <2>2. \A b \in Accounts : issued[b] \in Nat
        BY MaxGrantAssumption DEF TypeOK, Tokens
    <2>3. StoredPairOfOneGrant'
        BY <2>1 DEF StoredPairOfOneGrant, Exists
    <2>4. CallsCarryOneGrant'
        <3> SUFFICES ASSUME NEW c \in Callers, call[c].pc # "idle"
                     PROVE  /\ call[c].acc \in Accounts
                            /\ call[c].refresh # NoToken
                            /\ call[c].access = call[c].refresh
                            /\ call[c].pc = "revoke" =>
                                  call[c].refresh \notin live'[call[c].acc]
            BY <2>1 DEF CallsCarryOneGrant
        <3>1. call[c].acc \in Accounts /\ call[c].refresh <= issued[call[c].acc]
            BY DEF CallsCarryOneGrant, NoFutureGrant
        <3>2. call[c].refresh # issued[call[c].acc] + 1
            BY <2>2, <3>1
        <3> QED BY <2>1, <3>1, <3>2 DEF CallsCarryOneGrant
    <2>5. NoFutureGrant'
        <3>1. ASSUME NEW b \in Accounts PROVE live'[b] \subseteq 1..issued'[b]
            BY <2>1, <2>2 DEF NoFutureGrant
        <3>2. ASSUME NEW b \in Accounts PROVE row'[b].refresh <= issued'[b]
            <4>1. row[b].refresh \in Nat /\ row[b].refresh <= issued[b]
                BY MaxGrantAssumption DEF NoFutureGrant, TypeOK, Row, Tokens
            <4> QED BY <2>1, <2>2, <4>1
        <3>3. ASSUME NEW c \in Callers, call'[c].pc # "idle"
              PROVE  call'[c].refresh <= issued'[call'[c].acc]
            <4>1. /\ call[c].refresh \in Nat
                  /\ call[c].acc \in Accounts
                  /\ call[c].refresh <= issued[call[c].acc]
                BY <2>1, <3>3, MaxGrantAssumption
                   DEF NoFutureGrant, CallsCarryOneGrant, TypeOK, Call, Tokens
            <4> QED BY <2>1, <2>2, <4>1
        <3> QED BY <3>1, <3>2, <3>3 DEF NoFutureGrant
    <2>6. LoginsCarryOneGrant'
        <3> SUFFICES ASSUME NEW k \in Logins, login'[k].pc = "exchanged"
                     PROVE  /\ login'[k].acc \in Accounts
                            /\ login'[k].access # NoToken
                            /\ login'[k].refresh \in {NoToken, login'[k].access}
                            /\ login'[k].refresh <= issued'[login'[k].acc]
            BY DEF LoginsCarryOneGrant
        <3>1. CASE k = l
            <4>1. login'[k] = [pc |-> "exchanged", acc |-> a, access |-> issued[a] + 1,
                      refresh |-> IF withRefresh THEN issued[a] + 1 ELSE NoToken]
                BY <1>1, <3>1 DEF Exchange, TypeOK
            <4> QED BY <2>1, <2>2, <4>1 DEF NoToken
        <3>2. CASE k # l
            <4>1. login'[k] = login[k]
                BY <1>1, <3>2 DEF Exchange, TypeOK
            <4>2. /\ login[k].acc \in Accounts /\ login[k].access # NoToken
                  /\ login[k].refresh \in {NoToken, login[k].access}
                  /\ login[k].refresh <= issued[login[k].acc]
                BY <4>1 DEF LoginsCarryOneGrant
            <4>3. login[k].refresh \in Nat
                BY MaxGrantAssumption DEF TypeOK, Login, Tokens
            <4> QED BY <2>1, <2>2, <4>1, <4>2, <4>3
        <3> QED BY <3>1, <3>2
    <2> QED BY <1>0, <2>3, <2>4, <2>5, <2>6
<1>2. CASE UpsertConnectedAccount(l)
    <2> DEFINE b == login[l].acc
    <2>1. /\ b \in Accounts /\ login[l].refresh = login[l].access
          /\ login[l].refresh # NoToken /\ login[l].refresh <= issued[b]
        BY <1>2 DEF UpsertConnectedAccount, HasRefreshToken, LoginsCarryOneGrant
    <2>2. /\ row'[b].access = login[l].access /\ row'[b].refresh = login[l].refresh
          /\ \A a \in Accounts : a # b => row'[a] = row[a]
        <3> DEFINE r == [id |-> IF Exists(b) THEN row[b].id ELSE login[l].access,
                         status |-> "active", access |-> login[l].access,
                         refresh |-> login[l].refresh, fresh |-> TRUE]
        <3>1. row' = [row EXCEPT ![b] = r]
            BY <1>2 DEF UpsertConnectedAccount
        <3>2. r.access = login[l].access /\ r.refresh = login[l].refresh
            OBVIOUS
        <3> HIDE DEF r
        <3> QED BY <2>1, <3>1, <3>2 DEF TypeOK
    <2>3. UNCHANGED <<call, live, issued>>
        BY <1>2 DEF UpsertConnectedAccount
    <2>4. StoredPairOfOneGrant'
        BY <2>1, <2>2 DEF StoredPairOfOneGrant, Exists
    <2>5. NoFutureGrant'
        BY <2>1, <2>2, <2>3 DEF NoFutureGrant
    <2>6. LoginsCarryOneGrant'
        BY <1>2, <2>3 DEF UpsertConnectedAccount, LoginsCarryOneGrant, NoLogin, TypeOK
    <2> QED BY <1>0, <2>3, <2>4, <2>5, <2>6 DEF CallsCarryOneGrant
<1>3. CASE LoginFails(l)
    <2>1. UNCHANGED <<row, call, live, issued>>
        BY <1>3 DEF LoginFails
    <2>2. LoginsCarryOneGrant'
        BY <1>3, <2>1 DEF LoginFails, LoginsCarryOneGrant, NoLogin, TypeOK
    <2> QED BY <1>0, <2>1, <2>2 DEF StoredPairOfOneGrant, Exists,
                CallsCarryOneGrant, NoFutureGrant
<1> QED BY <1>1, <1>2, <1>3 DEF LoginStep

\* A call that returns carries nothing, and the others are untouched.
LEMMA CallReturns ==
    ASSUME TypeOK, CallsCarryOneGrant, NoFutureGrant, NEW c \in Callers,
           NEW r \in {"none", "ok", "revoked", "error"},
           call' = [call EXCEPT ![c] = Returned(r)], UNCHANGED <<live, issued>>
    PROVE  /\ CallsCarryOneGrant'
           /\ \A d \in Callers : call'[d].pc # "idle" =>
                 call'[d].refresh <= issued'[call'[d].acc]
<1>1. \A d \in Callers : call'[d] = IF d = c THEN Returned(r) ELSE call[d]
    BY DEF TypeOK
<1>2. Returned(r).pc = "idle"
    BY DEF Returned
<1> QED BY <1>1, <1>2 DEF CallsCarryOneGrant, NoFutureGrant

\* A row rewritten by a caller holds what the row or the call held: its call
\* carries a pair of one grant, and the row it finds has a refresh token.
LEMMA InvCallStep ==
    ASSUME IInv, NEW c \in Callers, CallStep(c)
    PROVE  IInv'
<1> USE DEF IInv
<1>0. TypeOK'
    BY TypeCallStep
<1>1. ASSUME NEW r \in {"none", "ok", "revoked", "error"},
             call' = [call EXCEPT ![c] = Returned(r)],
             UNCHANGED <<row, login, live, issued>>
      PROVE  IInv'
    BY <1>0, <1>1, CallReturns
       DEF StoredPairOfOneGrant, Exists, NoFutureGrant, LoginsCarryOneGrant
<1>2. ASSUME NEW a \in Accounts, ReadFresh(c, a) PROVE IInv'
    BY <1>1, <1>2 DEF ReadFresh
<1>3. ASSUME NEW a \in Accounts, ReadFails(c, a) PROVE IInv'
    BY <1>1, <1>3 DEF ReadFails
<1>4. CASE RefreshFails(c)
    BY <1>1, <1>4 DEF RefreshFails
<1>5. CASE MarkRevokedFails(c)
    BY <1>1, <1>5 DEF MarkRevokedFails
<1>6. CASE SaveFails(c)
    BY <1>1, <1>6 DEF SaveFails
<1>7. ASSUME NEW a \in Accounts, ReadExpired(c, a) PROVE IInv'
    <2>1. /\ row[a].refresh # NoToken /\ row[a].access = row[a].refresh
          /\ row[a].refresh <= issued[a]
        BY <1>7 DEF ReadExpired, StoredPairOfOneGrant, NoFutureGrant
    <2>2. \A d \in Callers : call'[d] =
             IF d = c
             THEN [pc |-> "refresh", acc |-> a, id |-> row[a].id,
                   access |-> row[a].access, refresh |-> row[a].refresh,
                   result |-> "none"]
             ELSE call[d]
        BY <1>7 DEF ReadExpired, TypeOK
    <2>3. UNCHANGED <<row, login, live, issued>>
        BY <1>7 DEF ReadExpired
    <2> QED BY <1>0, <2>1, <2>2, <2>3 DEF StoredPairOfOneGrant, Exists,
                CallsCarryOneGrant, NoFutureGrant, LoginsCarryOneGrant
<1>8. ASSUME NEW given \in Tokens, RefreshGranted(c, given) PROVE IInv'
    <2>1. /\ call'[c].pc = "save" /\ call'[c].acc = call[c].acc
          /\ call'[c].access = call[c].refresh /\ call'[c].refresh = call[c].refresh
          /\ \A d \in Callers : d # c => call'[d] = call[d]
        BY <1>8 DEF RefreshGranted, KeepRefreshToken, TypeOK, Call
    <2>2. UNCHANGED <<row, login, live, issued>>
        BY <1>8 DEF RefreshGranted
    <2>3. call[c].pc # "idle"
        BY <1>8 DEF RefreshGranted
    <2>4. CallsCarryOneGrant'
        BY <2>1, <2>2, <2>3 DEF CallsCarryOneGrant
    <2>5. NoFutureGrant'
        BY <2>1, <2>2, <2>3 DEF NoFutureGrant
    <2> QED BY <1>0, <2>2, <2>4, <2>5 DEF StoredPairOfOneGrant, Exists, LoginsCarryOneGrant
<1>9. CASE RefreshRefused(c)
    <2>1. /\ call'[c].acc = call[c].acc /\ call[c].pc # "idle"
          /\ call'[c].access = call[c].access /\ call'[c].refresh = call[c].refresh
          /\ call[c].refresh \notin live[call[c].acc]
          /\ \A d \in Callers : d # c => call'[d] = call[d]
        BY <1>9 DEF RefreshRefused, TypeOK, Call
    <2>2. UNCHANGED <<row, login, live, issued>>
        BY <1>9 DEF RefreshRefused
    <2>3. CallsCarryOneGrant'
        BY <2>1, <2>2 DEF CallsCarryOneGrant
    <2>4. NoFutureGrant'
        BY <2>1, <2>2 DEF NoFutureGrant
    <2> QED BY <1>0, <2>2, <2>3, <2>4 DEF StoredPairOfOneGrant, Exists, LoginsCarryOneGrant
<1>10. CASE MarkRevoked(c)
    <2>1. \A a \in Accounts : /\ row'[a].access = row[a].access
                              /\ row'[a].refresh = row[a].refresh
                              /\ row'[a].status # "absent" => row[a].status # "absent"
        BY <1>10 DEF MarkRevoked, WithStatusRevoked, SameRow, Exists, TypeOK, Row
    <2>2. call' = [call EXCEPT ![c] = Returned("revoked")]
        BY <1>10 DEF MarkRevoked
    <2>3. UNCHANGED <<login, live, issued>>
        BY <1>10 DEF MarkRevoked
    <2> QED BY <1>0, <2>1, <2>2, <2>3, CallReturns
            DEF StoredPairOfOneGrant, Exists, NoFutureGrant, LoginsCarryOneGrant
<1>11. CASE SaveTokens(c)
    <2> DEFINE a == call[c].acc
    <2>1. /\ a \in Accounts /\ call[c].refresh # NoToken
          /\ call[c].access = call[c].refresh /\ call[c].refresh <= issued[a]
        BY <1>11 DEF SaveTokens, CallsCarryOneGrant, NoFutureGrant
    <2>2. row' = [row EXCEPT ![a] = WithTokens(row[a], c)]
        BY <1>11 DEF SaveTokens
    <2>3. row[a] \in Row
        BY <2>1 DEF TypeOK
    <2>4. /\ WithTokens(row[a], c).access = call[c].refresh
          /\ WithTokens(row[a], c).refresh = call[c].refresh
        BY <2>1, <2>3 DEF WithTokens, KeepRefreshToken, Row
    <2>5. /\ row'[a].access = call[c].refresh /\ row'[a].refresh = call[c].refresh
          /\ \A b \in Accounts : b # a => row'[b] = row[b]
        BY <2>1, <2>2, <2>4 DEF TypeOK
    <2>6. call' = [call EXCEPT ![c] = Returned("ok")] /\ UNCHANGED <<login, live, issued>>
        BY <1>11 DEF SaveTokens
    <2>7. StoredPairOfOneGrant'
        BY <2>1, <2>5 DEF StoredPairOfOneGrant, Exists
    <2>8. \A b \in Accounts : row'[b].refresh <= issued'[b]
        BY <2>1, <2>5, <2>6 DEF NoFutureGrant
    <2> QED BY <1>0, <2>6, <2>7, <2>8, CallReturns DEF NoFutureGrant, LoginsCarryOneGrant
<1> QED
    BY <1>2, <1>3, <1>4, <1>5, <1>6, <1>7, <1>8, <1>9, <1>10, <1>11 DEF CallStep

LEMMA InvStep == IInv /\ [Next]_vars => IInv'
<1> SUFFICES ASSUME IInv, [Next]_vars PROVE IInv'
    OBVIOUS
<1>0. TypeOK'
    BY TypeStep DEF IInv
<1>1. CASE Crash
    <2>1. /\ \A c \in Callers : call'[c].pc = "idle"
          /\ \A l \in Logins : login'[l].pc = "idle"
        BY <1>1 DEF Crash, Returned, NoLogin
    <2>2. UNCHANGED <<row, live, issued>>
        BY <1>1 DEF Crash
    <2> QED BY <1>0, <2>1, <2>2 DEF IInv, StoredPairOfOneGrant, Exists,
                CallsCarryOneGrant, NoFutureGrant, LoginsCarryOneGrant
<1>2. CASE UNCHANGED vars
    BY <1>0, <1>2 DEF IInv, vars, StoredPairOfOneGrant, Exists,
       CallsCarryOneGrant, NoFutureGrant, LoginsCarryOneGrant
<1> QED BY <1>1, <1>2, InvAccountStep, InvLoginStep, InvCallStep DEF Next

LEMMA Invariant == Spec => []IInv
<1> QED BY InvInit, InvStep, PTL DEF Spec

(***************************************************************************)
(* The properties                                                          *)
(***************************************************************************)

\* The stored access and refresh tokens are always of one grant, and the
\* refresh token is never missing, however calls, logins, deletions and
\* crashes interleave.
THEOREM StoredPair == Spec => []StoredPairOfOneGrant
<1>1. IInv => StoredPairOfOneGrant
    BY DEF IInv
<1> QED BY <1>1, Invariant, PTL

\* Which step changes the status of a row, and how.
LEMMA RevocationStep == IInv /\ [Next]_vars => [RevocationHasRefusal]_vars
<1> SUFFICES ASSUME IInv, Next, NEW a \in Accounts,
                    row[a].status = "active", row'[a].status = "revoked"
             PROVE  \E c \in Callers : /\ call[c].pc # "idle" /\ call[c].acc = a
                                       /\ call[c].id = row[a].id
                                       /\ call[c].refresh \notin live[a]
    BY DEF RevocationHasRefusal
<1> USE DEF IInv
<1>1. CASE Crash
    BY <1>1 DEF Crash
<1>2. ASSUME NEW b \in Accounts, AccountStep(b) PROVE FALSE
    BY <1>2 DEF AccountStep, GrantDropped, Expire, DeleteConnectedAccount,
                TypeOK, Row, NoRow
<1>3. ASSUME NEW l \in Logins, LoginStep(l) PROVE FALSE
    <2>1. CASE UpsertConnectedAccount(l)
        <3> DEFINE r == [id |-> IF Exists(a) THEN row[a].id ELSE login[l].access,
                         status |-> "active", access |-> login[l].access,
                         refresh |-> login[l].refresh, fresh |-> TRUE]
        <3>1. row'[a] = r \/ row'[a] = row[a]
            BY <2>1 DEF UpsertConnectedAccount, TypeOK
        <3>2. r.status = "active"
            OBVIOUS
        <3> QED BY <3>1, <3>2
    <2> QED BY <1>3, <2>1 DEF LoginStep, Exchange, LoginFails
<1>4. ASSUME NEW c \in Callers, CallStep(c)
      PROVE  /\ call[c].pc # "idle" /\ call[c].acc = a
             /\ call[c].id = row[a].id
             /\ call[c].refresh \notin live[a]
    <2>1. CASE MarkRevoked(c)
        <3>1. a = call[c].acc /\ SameRow(c)
            BY <2>1 DEF MarkRevoked
        <3>2. call[c].pc = "revoke"
            BY <2>1 DEF MarkRevoked
        <3> QED BY <3>1, <3>2 DEF SameRow, CallsCarryOneGrant
    <2>2. CASE SaveTokens(c)
        <3>1. \A r \in Row : WithTokens(r, c).status = r.status
            BY DEF WithTokens, Row
        <3> QED BY <2>2, <3>1 DEF SaveTokens, TypeOK
    <2> QED BY <1>4, <2>1, <2>2
            DEF CallStep, ReadFresh, ReadExpired, ReadFails, RefreshGranted,
                RefreshRefused, RefreshFails, MarkRevokedFails, SaveFails
<1> QED BY <1>1, <1>2, <1>3, <1>4 DEF Next

\* A caller marks an account revoked only with a refresh token, read from
\* this very row, that Google does not honour at the moment of the write.
THEOREM RevocationSound == Spec => RevokedOnlyOnRefusal
<1> QED BY Invariant, RevocationStep, PTL DEF Spec, RevokedOnlyOnRefusal

\* Only a login makes an account active: no refresh that was under way when
\* the account was revoked or deleted brings it back, because
\* UpdateAccountTokens leaves the status alone and inserts nothing.
ActivationHasLogin ==
    \A a \in Accounts :
        row[a].status # "active" /\ row'[a].status = "active" =>
            \E l \in Logins : /\ login[l].pc = "exchanged"
                              /\ login[l].acc = a
                              /\ row'[a].refresh = login[l].refresh

OnlyLoginActivates == [][ActivationHasLogin]_vars

LEMMA ActivationStep == IInv /\ [Next]_vars => [ActivationHasLogin]_vars
<1> SUFFICES ASSUME IInv, Next, NEW a \in Accounts,
                    row[a].status # "active", row'[a].status = "active"
             PROVE  \E l \in Logins : /\ login[l].pc = "exchanged"
                                      /\ login[l].acc = a
                                      /\ row'[a].refresh = login[l].refresh
    BY DEF ActivationHasLogin
<1> USE DEF IInv
<1>1. CASE Crash
    BY <1>1 DEF Crash
<1>2. ASSUME NEW b \in Accounts, AccountStep(b) PROVE FALSE
    BY <1>2 DEF AccountStep, GrantDropped, Expire, DeleteConnectedAccount,
                TypeOK, Row, NoRow
<1>3. ASSUME NEW l \in Logins, LoginStep(l)
      PROVE  /\ login[l].pc = "exchanged" /\ login[l].acc = a
             /\ row'[a].refresh = login[l].refresh
    <2>1. CASE UpsertConnectedAccount(l)
        <3> DEFINE r == [id |-> IF Exists(a) THEN row[a].id ELSE login[l].access,
                         status |-> "active", access |-> login[l].access,
                         refresh |-> login[l].refresh, fresh |-> TRUE]
        <3>1. (row'[a] = r /\ login[l].acc = a) \/ row'[a] = row[a]
            BY <2>1 DEF UpsertConnectedAccount, TypeOK
        <3>2. r.refresh = login[l].refresh
            OBVIOUS
        <3>3. login[l].pc = "exchanged"
            BY <2>1 DEF UpsertConnectedAccount
        <3> QED BY <3>1, <3>2, <3>3
    <2> QED BY <1>3, <2>1 DEF LoginStep, Exchange, LoginFails
<1>4. ASSUME NEW c \in Callers, CallStep(c) PROVE FALSE
    <2>1. CASE MarkRevoked(c)
        <3>1. WithStatusRevoked(row[a]).status = "revoked"
            BY DEF WithStatusRevoked, TypeOK, Row
        <3> QED BY <2>1, <3>1 DEF MarkRevoked, TypeOK
    <2>2. CASE SaveTokens(c)
        <3>1. \A r \in Row : WithTokens(r, c).status = r.status
            BY DEF WithTokens, Row
        <3> QED BY <2>2, <3>1 DEF SaveTokens, TypeOK
    <2> QED BY <1>4, <2>1, <2>2
            DEF CallStep, ReadFresh, ReadExpired, ReadFails, RefreshGranted,
                RefreshRefused, RefreshFails, MarkRevokedFails, SaveFails
<1> QED BY <1>1, <1>2, <1>3, <1>4 DEF Next

\* No refresh that was under way brings back an account that was revoked or
\* deleted: only the upsert of a login makes a row active, with its own token.
THEOREM ActivationSound == Spec => OnlyLoginActivates
<1> QED BY Invariant, ActivationStep, PTL DEF Spec, OnlyLoginActivates

LEMMA SaveStep == IInv /\ [Next]_vars => [ReturnedTokenIsStored]_vars
<1> SUFFICES ASSUME IInv, Next, NEW c \in Callers, call[c].pc = "save",
                    call'[c].pc = "idle", call'[c].result = "ok"
             PROVE  /\ row'[call[c].acc].id = call[c].id
                    /\ row'[call[c].acc].fresh
                    /\ row'[call[c].acc].access = call[c].access
                    /\ row'[call[c].acc].refresh = call[c].refresh
    BY DEF ReturnedTokenIsStored
<1> USE DEF IInv
<1>1. CASE Crash
    BY <1>1 DEF Crash, Returned
<1>2. ASSUME NEW b \in Accounts, AccountStep(b) PROVE FALSE
    BY <1>2 DEF AccountStep, GrantDropped, Expire, DeleteConnectedAccount
<1>3. ASSUME NEW l \in Logins, LoginStep(l) PROVE FALSE
    BY <1>3 DEF LoginStep, Exchange, UpsertConnectedAccount, LoginFails
<1>4. ASSUME NEW d \in Callers, CallStep(d)
      PROVE  SaveTokens(c)
    <2>1. d = c
        BY <1>4 DEF CallStep, ReadFresh, ReadExpired, ReadFails, RefreshGranted,
              RefreshRefused, RefreshFails, MarkRevoked, MarkRevokedFails,
              SaveTokens, SaveFails, TypeOK
    <2>2. ~SaveFails(c)
        BY DEF SaveFails, Returned, TypeOK
    <2> QED BY <1>4, <2>1, <2>2
            DEF CallStep, ReadFresh, ReadExpired, ReadFails, RefreshGranted,
                RefreshRefused, RefreshFails, MarkRevoked, MarkRevokedFails
<1>5. ASSUME SaveTokens(c)
      PROVE  /\ row'[call[c].acc].id = call[c].id
             /\ row'[call[c].acc].fresh
             /\ row'[call[c].acc].access = call[c].access
             /\ row'[call[c].acc].refresh = call[c].refresh
    <2> DEFINE a == call[c].acc
    <2>1. /\ a \in Accounts /\ call[c].refresh # NoToken
          /\ row[a] \in Row /\ row[a].id = call[c].id
        BY <1>5 DEF SaveTokens, CallsCarryOneGrant, TypeOK, SameRow
    <2>2. row'[a] = WithTokens(row[a], c)
        BY <1>5, <2>1 DEF SaveTokens, TypeOK
    <2>3. /\ WithTokens(row[a], c).id = row[a].id
          /\ WithTokens(row[a], c).fresh
          /\ WithTokens(row[a], c).access = call[c].access
          /\ WithTokens(row[a], c).refresh = call[c].refresh
        BY <2>1 DEF WithTokens, KeepRefreshToken, Row
    <2> QED BY <2>1, <2>2, <2>3
<1> QED BY <1>1, <1>2, <1>3, <1>4, <1>5 DEF Next

\* A refreshed token reaches a caller only after it is in the row it was read
\* from.
THEOREM SaveSound == Spec => SavedBeforeReturned
<1> QED BY Invariant, SaveStep, PTL DEF Spec, SavedBeforeReturned

(***************************************************************************)
(* The refinement of Connections                                           *)
(***************************************************************************)

\* An id is that of a consent, of the row, or of the row a call was made for.
IdsOfConsents ==
    /\ \A a \in Accounts : IF Exists(a) THEN row[a].id \in 1..issued[a] ELSE row[a] = NoRow
    /\ \A c \in Callers : call[c].pc # "idle" => call[c].id \in 1..issued[call[c].acc]

\* The consent of a login in progress is of that login alone, and the id of no
\* row and of no call: the row it may insert is known to nobody.
LoginIsFresh ==
    \A l \in Logins : login[l].pc = "exchanged" =>
        /\ login[l].access \in 1..issued[login[l].acc]
        /\ row[login[l].acc].id # login[l].access
        /\ \A c \in Callers :
              call[c].pc # "idle" /\ call[c].acc = login[l].acc =>
                  call[c].id # login[l].access
        /\ \A k \in Logins :
              /\ login[k].pc = "exchanged" /\ login[k].acc = login[l].acc
              /\ login[k].access = login[l].access
              => k = l

IdInv == IdsOfConsents /\ LoginIsFresh

LEMMA IdInit == Init => IdInv
BY DEF Init, IdInv, IdsOfConsents, LoginIsFresh, Exists, NoRow, Returned, NoLogin

\* A step of callers: no row changes its id, and a call is for the row it was
\* for, or for one that is there.
LEMMA IdCalls ==
    ASSUME IInv, IdInv, UNCHANGED <<login, issued>>,
           \A a \in Accounts :
               IF Exists(a) THEN Exists(a)' /\ row'[a].id = row[a].id ELSE row'[a] = row[a],
           \A c \in Callers : call'[c].pc # "idle" =>
               \/ /\ call[c].pc # "idle"
                  /\ call'[c].acc = call[c].acc /\ call'[c].id = call[c].id
               \/ /\ call'[c].acc \in Accounts /\ Exists(call'[c].acc)
                  /\ call'[c].id = row[call'[c].acc].id
    PROVE  IdInv'
<1>1. \A a \in Accounts : row'[a].id = row[a].id
    OBVIOUS
<1>2. IdsOfConsents'
    <2>1. ASSUME NEW a \in Accounts
          PROVE  IF Exists(a)' THEN row'[a].id \in 1..issued[a] ELSE row'[a] = NoRow
        BY DEF IdInv, IdsOfConsents, Exists, NoRow
    <2>2. ASSUME NEW c \in Callers, call'[c].pc # "idle"
          PROVE  call'[c].id \in 1..issued[call'[c].acc]
        BY <2>2 DEF IdInv, IdsOfConsents
    <2> QED BY <2>1, <2>2 DEF IdsOfConsents
<1>3. LoginIsFresh'
    <2> SUFFICES ASSUME NEW l \in Logins, login[l].pc = "exchanged"
                 PROVE  /\ row'[login[l].acc].id # login[l].access
                        /\ \A c \in Callers :
                              call'[c].pc # "idle" /\ call'[c].acc = login[l].acc =>
                                  call'[c].id # login[l].access
        BY DEF IdInv, LoginIsFresh
    <2>1. login[l].acc \in Accounts /\ row[login[l].acc].id # login[l].access
        BY DEF IInv, IdInv, LoginIsFresh, LoginsCarryOneGrant
    <2>2. ASSUME NEW c \in Callers, call'[c].pc # "idle", call'[c].acc = login[l].acc
          PROVE  call'[c].id # login[l].access
        BY <2>1, <2>2 DEF IdInv, LoginIsFresh
    <2> QED BY <1>1, <2>1, <2>2
<1> QED BY <1>2, <1>3 DEF IdInv

LEMMA IdAccountStep ==
    ASSUME IInv, IdInv, NEW a \in Accounts, AccountStep(a)
    PROVE  IdInv'
<1>1. CASE \E g \in Grants : GrantDropped(a, g)
    <2>1. UNCHANGED <<row, call, login, issued>>
        BY <1>1 DEF GrantDropped
    <2> QED BY <2>1, IdCalls DEF Exists
<1>2. CASE Expire(a)
    <2>1. \A b \in Accounts :
             /\ row'[b].id = row[b].id /\ row'[b].status = row[b].status
             /\ ~Exists(b) => row'[b] = row[b]
        BY <1>2 DEF Expire, IInv, TypeOK, Row
    <2>2. UNCHANGED <<call, login, issued>>
        BY <1>2 DEF Expire
    <2> QED BY <2>1, <2>2, IdCalls DEF Exists
<1>3. CASE DeleteConnectedAccount(a)
    <2>1. \A b \in Accounts : row'[b] = IF b = a THEN NoRow ELSE row[b]
        BY <1>3 DEF DeleteConnectedAccount, IInv, TypeOK
    <2>2. UNCHANGED <<call, login, issued>>
        BY <1>3 DEF DeleteConnectedAccount
    <2>3. NoRow.id = 0 /\ NoRow.status = "absent"
        BY DEF NoRow
    <2>4. IdsOfConsents'
        BY <2>1, <2>2, <2>3 DEF IdInv, IdsOfConsents, Exists
    <2>5. LoginIsFresh'
        <3>1. ASSUME NEW l \in Logins, login[l].pc = "exchanged"
              PROVE  row'[login[l].acc].id # login[l].access
            <4>1. login[l].acc \in Accounts /\ login[l].access # 0
                BY <3>1 DEF IInv, LoginsCarryOneGrant, NoToken
            <4> QED BY <2>1, <2>3, <3>1, <4>1 DEF IdInv, LoginIsFresh
        <3> QED BY <2>2, <3>1 DEF IdInv, LoginIsFresh
    <2> QED BY <2>4, <2>5 DEF IdInv
<1> QED BY <1>1, <1>2, <1>3 DEF AccountStep

LEMMA IdLoginStep ==
    ASSUME IInv, IdInv, NEW l \in Logins, LoginStep(l)
    PROVE  IdInv'
<1>0. /\ \A a \in Accounts : issued[a] \in Nat
      /\ \A k \in Logins : login[k].pc = "exchanged" => login[k].acc \in Accounts
      /\ \A c \in Callers : call[c].pc # "idle" => call[c].acc \in Accounts
    BY MaxGrantAssumption DEF IInv, TypeOK, Tokens, LoginsCarryOneGrant, CallsCarryOneGrant
<1>1. ASSUME NEW a \in Accounts, NEW withRefresh \in BOOLEAN, Exchange(l, a, withRefresh)
      PROVE  IdInv'
    <2> DEFINE g == issued[a] + 1
    <2>1. /\ \A b \in Accounts : issued'[b] = IF b = a THEN g ELSE issued[b]
          /\ UNCHANGED <<row, call>>
        BY <1>1 DEF Exchange, IInv, TypeOK
    <2>2. /\ login'[l].pc = "exchanged" /\ login'[l].acc = a /\ login'[l].access = g
          /\ \A k \in Logins : k # l => login'[k] = login[k]
        BY <1>1 DEF Exchange, IInv, TypeOK
    <2>3. g \in Nat /\ g > issued[a] /\ g >= 1
        BY <1>0
    <2> HIDE DEF g
    <2>4. /\ \A b \in Accounts : 1..issued[b] \subseteq 1..issued'[b]
          /\ g \in 1..issued'[a] /\ g \notin 1..issued[a]
        BY <1>0, <2>1, <2>3
    <2>5. IdsOfConsents'
        BY <1>0, <2>1, <2>4 DEF IdInv, IdsOfConsents, Exists
    <2>6. row[a].id # g
        BY <2>3, <2>4 DEF IdInv, IdsOfConsents, NoRow
    <2>7. \A c \in Callers : call[c].pc # "idle" /\ call[c].acc = a => call[c].id # g
        BY <2>4 DEF IdInv, IdsOfConsents
    <2>8. \A k \in Logins :
             login[k].pc = "exchanged" /\ login[k].acc = a => login[k].access # g
        BY <2>4 DEF IdInv, LoginIsFresh
    <2>9. LoginIsFresh'
        <3> SUFFICES ASSUME NEW k \in Logins, login'[k].pc = "exchanged"
                     PROVE  /\ login'[k].access \in 1..issued'[login'[k].acc]
                            /\ row[login'[k].acc].id # login'[k].access
                            /\ \A c \in Callers :
                                  call[c].pc # "idle" /\ call[c].acc = login'[k].acc =>
                                      call[c].id # login'[k].access
                            /\ \A j \in Logins :
                                  /\ login'[j].pc = "exchanged"
                                  /\ login'[j].acc = login'[k].acc
                                  /\ login'[j].access = login'[k].access
                                  => j = k
            BY <2>1 DEF LoginIsFresh
        <3>1. CASE k = l
            BY <2>2, <2>4, <2>6, <2>7, <2>8, <3>1
        <3>2. CASE k # l
            BY <1>0, <2>2, <2>4, <2>8, <3>2 DEF IdInv, LoginIsFresh
        <3> QED BY <3>1, <3>2
    <2> QED BY <2>5, <2>9 DEF IdInv
<1>2. CASE UpsertConnectedAccount(l)
    <2> DEFINE b == login[l].acc
               g == login[l].access
    <2>1. b \in Accounts /\ g \in 1..issued[b] /\ login[l].pc = "exchanged"
        BY <1>0, <1>2 DEF UpsertConnectedAccount, IdInv, LoginIsFresh
    <2>2. /\ row'[b].status # "absent" /\ row'[b].id = IF Exists(b) THEN row[b].id ELSE g
          /\ \A a \in Accounts : a # b => row'[a] = row[a]
        <3> DEFINE r == [id |-> IF Exists(b) THEN row[b].id ELSE g,
                         status |-> "active", access |-> g,
                         refresh |-> login[l].refresh, fresh |-> TRUE]
        <3>1. row' = [row EXCEPT ![b] = r]
            BY <1>2 DEF UpsertConnectedAccount
        <3>2. r.id = (IF Exists(b) THEN row[b].id ELSE g) /\ r.status = "active"
            OBVIOUS
        <3> HIDE DEF r
        <3> QED BY <2>1, <3>1, <3>2 DEF IInv, TypeOK, Exists
    <2>3. /\ \A k \in Logins : login'[k] = IF k = l THEN NoLogin ELSE login[k]
          /\ UNCHANGED <<call, issued>> /\ NoLogin.pc = "idle"
        BY <1>2 DEF UpsertConnectedAccount, IInv, TypeOK, NoLogin
    <2>4. \A k \in Logins :
             k # l /\ login[k].pc = "exchanged" /\ login[k].acc = b => login[k].access # g
        BY <2>1 DEF IdInv, LoginIsFresh
    <2>5. IdsOfConsents'
        BY <2>1, <2>2, <2>3 DEF IdInv, IdsOfConsents, Exists
    <2>6. LoginIsFresh'
        <3> SUFFICES ASSUME NEW k \in Logins, k # l, login[k].pc = "exchanged"
                     PROVE  row'[login[k].acc].id # login[k].access
            BY <2>3 DEF IdInv, LoginIsFresh
        <3> QED BY <1>0, <2>2, <2>4 DEF IdInv, LoginIsFresh
    <2> QED BY <2>5, <2>6 DEF IdInv
<1>3. CASE LoginFails(l)
    <2>1. /\ \A k \in Logins : login'[k] = IF k = l THEN NoLogin ELSE login[k]
          /\ UNCHANGED <<row, call, issued>> /\ NoLogin.pc = "idle"
        BY <1>3 DEF LoginFails, IInv, TypeOK, NoLogin
    <2> QED BY <2>1 DEF IdInv, IdsOfConsents, LoginIsFresh, Exists
<1> QED BY <1>1, <1>2, <1>3 DEF LoginStep

\* What a step of a caller does to the row: its id stays, and its status and
\* tokens change as MarkRevoked and SaveTokens say.
LEMMA IdCallStep ==
    ASSUME IInv, IdInv, NEW c \in Callers, CallStep(c)
    PROVE  IdInv'
<1>0. call[c] \in Call /\ call \in [Callers -> Call]
    BY DEF IInv, TypeOK
<1>1. UNCHANGED <<login, issued>>
    BY DEF CallStep, ReadFresh, ReadExpired, ReadFails, RefreshGranted, RefreshRefused,
           RefreshFails, MarkRevoked, MarkRevokedFails, SaveTokens, SaveFails
<1>2. \A a \in Accounts :
         IF Exists(a) THEN Exists(a)' /\ row'[a].id = row[a].id ELSE row'[a] = row[a]
    <2>1. CASE MarkRevoked(c)
        BY <2>1 DEF MarkRevoked, WithStatusRevoked, SameRow, Exists, IInv, TypeOK, Row
    <2>2. CASE SaveTokens(c)
        <3> DEFINE a == call[c].acc
        <3>1. row' = [row EXCEPT ![a] = WithTokens(row[a], c)] /\ Exists(a)
            BY <2>2 DEF SaveTokens, SameRow
        <3>2. a \in Accounts
            BY <2>2 DEF SaveTokens, IInv, CallsCarryOneGrant
        <3>3. row[a] \in Row
            BY <3>2 DEF IInv, TypeOK
        <3>4. /\ WithTokens(row[a], c).id = row[a].id
              /\ WithTokens(row[a], c).status = row[a].status
            BY <3>3 DEF WithTokens, Row
        <3> QED BY <3>1, <3>2, <3>4 DEF Exists, IInv, TypeOK
    <2>3. CASE UNCHANGED row
        BY <2>3 DEF Exists
    <2>4. MarkRevoked(c) \/ SaveTokens(c) \/ UNCHANGED row
        BY DEF CallStep, ReadFresh, ReadExpired, ReadFails, RefreshGranted, RefreshRefused,
               RefreshFails, MarkRevokedFails, SaveFails
    <2> QED BY <2>1, <2>2, <2>3, <2>4
<1>3. ASSUME NEW r, call' = [call EXCEPT ![c] = Returned(r)]
      PROVE  \A d \in Callers : call'[d].pc # "idle" =>
                call[d].pc # "idle" /\ call'[d].acc = call[d].acc /\ call'[d].id = call[d].id
    BY <1>0, <1>3 DEF Returned
<1>4. ASSUME NEW given, RefreshGranted(c, given)
      PROVE  \A d \in Callers : call'[d].pc # "idle" =>
                call[d].pc # "idle" /\ call'[d].acc = call[d].acc /\ call'[d].id = call[d].id
    BY <1>0, <1>4 DEF RefreshGranted, Call
<1>5. ASSUME RefreshRefused(c)
      PROVE  \A d \in Callers : call'[d].pc # "idle" =>
                call[d].pc # "idle" /\ call'[d].acc = call[d].acc /\ call'[d].id = call[d].id
    BY <1>0, <1>5 DEF RefreshRefused, Call
<1>6. ASSUME NEW a \in Accounts, ReadExpired(c, a)
      PROVE  \A d \in Callers : call'[d].pc # "idle" =>
                \/ /\ call[d].pc # "idle"
                   /\ call'[d].acc = call[d].acc /\ call'[d].id = call[d].id
                \/ /\ call'[d].acc \in Accounts /\ Exists(call'[d].acc)
                   /\ call'[d].id = row[call'[d].acc].id
    BY <1>0, <1>6 DEF ReadExpired
<1>7. \/ \E r : call' = [call EXCEPT ![c] = Returned(r)]
      \/ \E given \in Tokens : RefreshGranted(c, given)
      \/ RefreshRefused(c)
      \/ \E a \in Accounts : ReadExpired(c, a)
    BY DEF CallStep, ReadFresh, ReadFails, RefreshFails, MarkRevoked, MarkRevokedFails,
           SaveTokens, SaveFails
<1> QED BY <1>1, <1>2, <1>3, <1>4, <1>5, <1>6, <1>7, IdCalls

LEMMA IdStep == IInv /\ IdInv /\ [Next]_vars => IdInv'
<1> SUFFICES ASSUME IInv, IdInv, [Next]_vars PROVE IdInv'
    OBVIOUS
<1>1. CASE Crash
    <2>1. /\ \A c \in Callers : call'[c].pc = "idle"
          /\ \A l \in Logins : login'[l].pc = "idle"
          /\ UNCHANGED <<row, issued>>
        BY <1>1 DEF Crash, Returned, NoLogin
    <2> QED BY <2>1 DEF IdInv, IdsOfConsents, LoginIsFresh, Exists
<1>2. CASE UNCHANGED vars
    BY <1>2, IdCalls DEF vars, Exists
<1> QED BY <1>1, <1>2, IdAccountStep, IdLoginStep, IdCallStep DEF Next

(***************************************************************************)
(* What the steps do to the consents in flight                             *)
(***************************************************************************)

\* The accounts, consents and ids of what is in flight.
LEMMA InFlight ==
    ASSUME IInv, IdInv
    PROVE  /\ \A a \in Accounts : issued[a] \in Nat
           /\ \A l \in Logins : login[l].pc = "exchanged" =>
                 login[l].acc \in Accounts /\ login[l].access \in 1..issued[login[l].acc]
           /\ \A c \in Callers : call[c].pc # "idle" =>
                 /\ call[c].acc \in Accounts
                 /\ call[c].refresh \in 1..issued[call[c].acc]
                 /\ call[c].id \in 1..issued[call[c].acc]
<1>1. \A a \in Accounts : issued[a] \in Nat
    BY MaxGrantAssumption DEF IInv, TypeOK, Tokens
<1>2. ASSUME NEW l \in Logins, login[l].pc = "exchanged"
      PROVE  login[l].acc \in Accounts /\ login[l].access \in 1..issued[login[l].acc]
    BY <1>2 DEF IInv, LoginsCarryOneGrant, IdInv, LoginIsFresh
<1>3. ASSUME NEW c \in Callers, call[c].pc # "idle"
      PROVE  /\ call[c].acc \in Accounts
             /\ call[c].refresh \in 1..issued[call[c].acc]
             /\ call[c].id \in 1..issued[call[c].acc]
    <2>1. call[c].acc \in Accounts /\ call[c].refresh # NoToken
        BY <1>3 DEF IInv, CallsCarryOneGrant
    <2>2. call[c].refresh \in Nat
        BY MaxGrantAssumption DEF IInv, TypeOK, Call, Tokens
    <2>3. call[c].refresh <= issued[call[c].acc]
        BY <1>3 DEF IInv, NoFutureGrant
    <2>4. call[c].id \in 1..issued[call[c].acc]
        BY <1>3 DEF IdInv, IdsOfConsents
    <2> QED BY <1>1, <2>1, <2>2, <2>3, <2>4 DEF NoToken
<1> QED BY <1>1, <1>2, <1>3

\* A callback that ends, in whatever way, takes its consent with it: no other
\* callback has it.
LEMMA LoginEnds ==
    ASSUME IInv, IdInv, NEW l \in Logins, login[l].pc = "exchanged",
           NEW a \in Accounts, a = login[l].acc, NEW g \in Nat, g = login[l].access,
           login' = [login EXCEPT ![l] = NoLogin]
    PROVE  /\ g \in 1..issued[a]
           /\ Connection!Close(a, g)
<1>1. g \in 1..issued[a]
    BY InFlight
<1>2. l \in Exchanged(a)
    BY DEF Exchanged
<1>3. \A k \in Logins : login'[k] = IF k = l THEN NoLogin ELSE login[k]
    BY DEF IInv, TypeOK
<1>4. \A b \in Accounts : Exchanged(b)' = Exchanged(b) \ {l}
    BY <1>3 DEF Exchanged, NoLogin
<1>5. \A k \in Exchanged(a) : login[k].access = g => k = l
    BY DEF IdInv, LoginIsFresh, Exchanged
<1>6. {login'[k].access : k \in Exchanged(a)'} = {login[k].access : k \in Exchanged(a)} \ {g}
    BY <1>3, <1>4, <1>5
<1>7. ASSUME NEW b \in Accounts, b # a
      PROVE  {login'[k].access : k \in Exchanged(b)'} = {login[k].access : k \in Exchanged(b)}
    <2>1. Exchanged(b)' = Exchanged(b)
        BY <1>4, <1>7 DEF Exchanged
    <2> QED BY <1>3, <1>4, <2>1
<1> QED BY <1>1, <1>2, <1>6, <1>7 DEF OpenNow, Connection!Close

\* A code that is exchanged puts a consent in flight that was not there.
LEMMA LoginBegins ==
    ASSUME IInv, IdInv, NEW l \in Logins, NEW a \in Accounts,
           NEW withRefresh \in BOOLEAN, Exchange(l, a, withRefresh)
    PROVE  OpenNow' = [OpenNow EXCEPT ![a] = @ \union {issued[a] + 1}]
<1>1. /\ login'[l].pc = "exchanged" /\ login'[l].acc = a /\ login'[l].access = issued[a] + 1
      /\ \A k \in Logins : k # l => login'[k] = login[k]
    BY DEF Exchange, IInv, TypeOK
<1>2. \A b \in Accounts : l \notin Exchanged(b)
    BY DEF Exchange, Exchanged
<1>3. \A b \in Accounts :
         Exchanged(b)' = IF b = a THEN Exchanged(b) \union {l} ELSE Exchanged(b)
    BY <1>1, <1>2 DEF Exchanged
<1>4. {login'[k].access : k \in Exchanged(a)'}
         = {login[k].access : k \in Exchanged(a)} \union {issued[a] + 1}
    <2>1. \A k \in Exchanged(a) : k # l /\ k \in Logins
        BY <1>2 DEF Exchanged
    <2> QED BY <1>1, <1>3, <2>1
<1>5. ASSUME NEW b \in Accounts, b # a
      PROVE  {login'[k].access : k \in Exchanged(b)'} = {login[k].access : k \in Exchanged(b)}
    <2>1. \A k \in Exchanged(b) : k # l /\ k \in Logins
        BY <1>2 DEF Exchanged
    <2> QED BY <1>1, <1>3, <1>5, <2>1
<1> QED BY <1>4, <1>5 DEF OpenNow

\* Calls that go on with the token and for the row they had, and rows that
\* keep their id, leave the consents being refreshed as they are.
LEMMA CallsGoOn ==
    ASSUME IInv,
           \A a \in Accounts : row'[a].id = row[a].id,
           \A c \in Callers :
               /\ call'[c].pc # "idle" <=> call[c].pc # "idle"
               /\ call[c].pc # "idle" =>
                     /\ call'[c].acc = call[c].acc /\ call'[c].id = call[c].id
                     /\ call'[c].refresh = call[c].refresh
    PROVE  TakenNow' = TakenNow
<1>1. \A a \in Accounts : Refreshing(a)' = Refreshing(a)
    BY DEF Refreshing
<1>2. ASSUME NEW a \in Accounts
      PROVE  {call'[c].refresh : c \in Refreshing(a)'} = {call[c].refresh : c \in Refreshing(a)}
    BY <1>1 DEF Refreshing
<1> QED BY <1>2 DEF TakenNow

\* A call that returns releases its token, unless another call has it too or
\* the row it was read from is gone.
LEMMA CallEnds ==
    ASSUME IInv, IdInv, NEW c \in Callers, call[c].pc # "idle",
           NEW a \in Accounts, a = call[c].acc, NEW g \in Nat, g = call[c].refresh,
           NEW r, call' = [call EXCEPT ![c] = Returned(r)],
           \A b \in Accounts : row'[b].id = row[b].id
    PROVE  Connection!Release(a, g)
<1>1. \A d \in Callers : call'[d] = IF d = c THEN Returned(r) ELSE call[d]
    BY DEF IInv, TypeOK
<1>2. \A b \in Accounts : Refreshing(b)' = Refreshing(b) \ {c}
    BY <1>1 DEF Refreshing, Returned
<1>3. ASSUME NEW b \in Accounts, b # a
      PROVE  {call'[d].refresh : d \in Refreshing(b)'} = {call[d].refresh : d \in Refreshing(b)}
    <2>1. Refreshing(b)' = Refreshing(b)
        BY <1>2, <1>3 DEF Refreshing
    <2> QED BY <1>1, <1>2, <2>1
<1>4. \/ {call'[d].refresh : d \in Refreshing(a)'} = {call[d].refresh : d \in Refreshing(a)}
      \/ {call'[d].refresh : d \in Refreshing(a)'} = {call[d].refresh : d \in Refreshing(a)} \ {g}
    <2>1. CASE c \notin Refreshing(a)
        <3>1. Refreshing(a)' = Refreshing(a)
            BY <1>2, <2>1
        <3> QED BY <1>1, <2>1, <3>1
    <2>2. CASE \E d \in Refreshing(a) : d # c /\ call[d].refresh = g
        BY <1>1, <1>2, <2>2
    <2>3. CASE c \in Refreshing(a) /\ \A d \in Refreshing(a) : d # c => call[d].refresh # g
        BY <1>1, <1>2, <2>3
    <2> QED BY <2>1, <2>2, <2>3
<1>5. TakenNow' = TakenNow \/ TakenNow' = [TakenNow EXCEPT ![a] = @ \ {g}]
    BY <1>3, <1>4 DEF TakenNow
<1> QED BY <1>5 DEF Connection!Release

(***************************************************************************)
(* Every step of the row and its writers is a step of Connections          *)
(***************************************************************************)

\* Google and the user: a grant dropped, the clock, a deletion.
LEMMA ConnectionAccountStep ==
    ASSUME IInv, IdInv, NEW a \in Accounts, AccountStep(a)
    PROVE  [Connection!Next]_(Connection!vars)
<1>0. /\ row \in [Accounts -> Row] /\ live \in [Accounts -> SUBSET Grants]
      /\ \A b \in Accounts : issued[b] \in Nat /\ live[b] \subseteq 1..issued[b]
    BY InFlight DEF IInv, TypeOK, NoFutureGrant
<1>1. ASSUME NEW g \in Grants, GrantDropped(a, g)
      PROVE  Connection!Next
    <2>1. /\ g \in 1..issued[a]
          /\ live' = [live EXCEPT ![a] = @ \ {g}]
          /\ UNCHANGED <<row, call, login, issued>>
        BY <1>0, <1>1 DEF GrantDropped
    <2>2. UNCHANGED <<OpenNow, StatusNow, HeldNow, TakenNow>>
        BY <2>1 DEF OpenNow, StatusNow, HeldNow, TakenNow, Exchanged, Refreshing
    <2>3. Connection!Withdraw(a, g)
        BY <2>1, <2>2 DEF Connection!Withdraw, Connection!connection
    <2> QED BY <2>1, <2>3 DEF Connection!Next
<1>2. CASE Expire(a)
    <2>1. /\ \A b \in Accounts :
                /\ row'[b].id = row[b].id /\ row'[b].status = row[b].status
                /\ row'[b].refresh = row[b].refresh
          /\ UNCHANGED <<call, login, live, issued>>
        BY <1>0, <1>2 DEF Expire, Row
    <2>2. UNCHANGED <<OpenNow, StatusNow, HeldNow>>
        BY <2>1 DEF OpenNow, StatusNow, HeldNow, Exchanged
    <2>3. UNCHANGED TakenNow
        BY <2>1, CallsGoOn
    <2> QED BY <2>1, <2>2, <2>3 DEF Connection!vars
<1>3. CASE DeleteConnectedAccount(a)
    <2>1. /\ \A b \in Accounts : row'[b] = IF b = a THEN NoRow ELSE row[b]
          /\ UNCHANGED <<call, login, live, issued>>
        BY <1>0, <1>3 DEF DeleteConnectedAccount
    <2>2. NoRow.id = 0 /\ NoRow.status = "absent" /\ NoRow.refresh = 0
        BY DEF NoRow, NoToken
    <2>3. OpenNow' = OpenNow
        BY <2>1 DEF OpenNow, Exchanged
    <2>4. /\ StatusNow' = [StatusNow EXCEPT ![a] = "absent"]
          /\ HeldNow' = [HeldNow EXCEPT ![a] = 0]
        BY <2>1, <2>2 DEF StatusNow, HeldNow
    <2>5. Refreshing(a)' = {}
        <3>1. \A c \in Callers : call[c].pc # "idle" /\ call[c].acc = a => call[c].id # 0
            BY InFlight
        <3> QED BY <2>1, <2>2, <3>1 DEF Refreshing
    <2>6. TakenNow' = [TakenNow EXCEPT ![a] = {}]
        <3>1. \A b \in Accounts : b # a => Refreshing(b)' = Refreshing(b)
            BY <2>1 DEF Refreshing
        <3> QED BY <2>1, <2>5, <3>1 DEF TakenNow
    <2>7. Connection!Disconnect(a)
        BY <2>1, <2>3, <2>4, <2>6 DEF Connection!Disconnect
    <2> QED BY <2>7 DEF Connection!Next
<1> QED BY <1>1, <1>2, <1>3 DEF AccountStep

\* HandleGoogleCallback: the consent, its row, or neither.
LEMMA ConnectionLoginStep ==
    ASSUME IInv, IdInv, NEW l \in Logins, LoginStep(l)
    PROVE  Connection!Next
<1>0. /\ row \in [Accounts -> Row] /\ live \in [Accounts -> SUBSET Grants]
      /\ issued \in [Accounts -> Tokens] /\ login \in [Logins -> Login]
    BY DEF IInv, TypeOK
<1>1. ASSUME NEW a \in Accounts, NEW withRefresh \in BOOLEAN, Exchange(l, a, withRefresh)
      PROVE  Connection!Next
    <2>1. /\ issued' = [issued EXCEPT ![a] = @ + 1]
          /\ live' = [live EXCEPT ![a] = @ \union {issued[a] + 1}]
          /\ UNCHANGED <<row, call>>
        BY <1>1 DEF Exchange
    <2>2. issued'[a] = issued[a] + 1
        BY <1>0, <2>1
    <2>3. UNCHANGED <<StatusNow, HeldNow, TakenNow>>
        BY <2>1 DEF StatusNow, HeldNow, TakenNow, Refreshing
    <2>4. OpenNow' = [OpenNow EXCEPT ![a] = @ \union {issued[a] + 1}]
        BY <1>1, LoginBegins
    <2>5. Connection!Consent(a)
        BY <2>1, <2>2, <2>3, <2>4 DEF Connection!Consent, Connection!connection
    <2> QED BY <2>5 DEF Connection!Next
<1>2. CASE UpsertConnectedAccount(l)
    <2>1. PICK b \in Accounts, g \in Nat :
             /\ login[l].pc = "exchanged" /\ b = login[l].acc /\ g = login[l].access
             /\ g \in 1..issued[b]
        BY <1>2, InFlight DEF UpsertConnectedAccount
    <2>2. login[l].refresh = g
        BY <1>2, <2>1 DEF UpsertConnectedAccount, HasRefreshToken, IInv, LoginsCarryOneGrant
    <2>3. /\ row'[b].id = (IF Exists(b) THEN row[b].id ELSE g)
          /\ row'[b].status = "active" /\ row'[b].refresh = g
          /\ \A a \in Accounts : a # b => row'[a] = row[a]
        <3> DEFINE r == [id |-> IF Exists(b) THEN row[b].id ELSE g,
                         status |-> "active", access |-> g, refresh |-> g, fresh |-> TRUE]
        <3>1. row' = [row EXCEPT ![b] = r]
            BY <1>2, <2>1, <2>2 DEF UpsertConnectedAccount
        <3>2. r.id = (IF Exists(b) THEN row[b].id ELSE g) /\ r.status = "active" /\ r.refresh = g
            OBVIOUS
        <3> HIDE DEF r
        <3> QED BY <1>0, <3>1, <3>2
    <2>4. login' = [login EXCEPT ![l] = NoLogin] /\ UNCHANGED <<call, live, issued>>
        BY <1>2 DEF UpsertConnectedAccount
    <2>5. Connection!Close(b, g)
        BY <2>1, <2>4, LoginEnds
    <2>6. /\ StatusNow' = [StatusNow EXCEPT ![b] = "active"]
          /\ HeldNow' = [HeldNow EXCEPT ![b] = g]
        BY <2>3 DEF StatusNow, HeldNow
    <2>7. TakenNow' = TakenNow
        <3>1. CASE Exists(b)
            <4>1. \A a \in Accounts : row'[a].id = row[a].id
                BY <2>3, <3>1
            <4> QED BY <2>4, <4>1, CallsGoOn
        <3>2. CASE ~Exists(b)
            <4>1. row[b].id = 0
                BY <3>2 DEF IdInv, IdsOfConsents, NoRow
            <4>2. \A c \in Callers : call[c].pc # "idle" /\ call[c].acc = b =>
                     call[c].id # 0 /\ call[c].id # g
                BY <2>1, InFlight DEF IdInv, LoginIsFresh
            <4>3. Refreshing(b) = {} /\ Refreshing(b)' = {}
                BY <2>3, <2>4, <3>2, <4>1, <4>2 DEF Refreshing
            <4>4. \A a \in Accounts : Refreshing(a)' = Refreshing(a)
                BY <2>3, <2>4, <4>3 DEF Refreshing
            <4> QED BY <2>4, <4>4 DEF TakenNow
        <3> QED BY <3>1, <3>2
    <2>8. Connection!Connect(b, g)
        BY <2>4, <2>5, <2>6, <2>7 DEF Connection!Connect
    <2> QED BY <2>1, <2>8 DEF Connection!Next
<1>3. CASE LoginFails(l)
    <2>1. PICK b \in Accounts, g \in Nat :
             /\ login[l].pc = "exchanged" /\ b = login[l].acc /\ g = login[l].access
             /\ g \in 1..issued[b]
        BY <1>3, InFlight DEF LoginFails
    <2>2. login' = [login EXCEPT ![l] = NoLogin] /\ UNCHANGED <<row, call, live, issued>>
        BY <1>3 DEF LoginFails
    <2>3. Connection!Close(b, g)
        BY <2>1, <2>2, LoginEnds
    <2>4. UNCHANGED <<StatusNow, HeldNow, TakenNow>>
        BY <2>2 DEF StatusNow, HeldNow, TakenNow, Refreshing
    <2>5. Connection!Abandon(b, g)
        BY <2>2, <2>3, <2>4 DEF Connection!Abandon, Connection!connection
    <2> QED BY <2>1, <2>5 DEF Connection!Next
<1> QED BY <1>1, <1>2, <1>3 DEF LoginStep

\* A call that returns without having written leaves the connection as it is,
\* and releases its token.
LEMMA CallGivesUp ==
    ASSUME IInv, IdInv, NEW c \in Callers, call[c].pc # "idle",
           NEW r, call' = [call EXCEPT ![c] = Returned(r)],
           UNCHANGED <<row, login, live, issued>>
    PROVE  Connection!Next
<1>1. PICK a \in Accounts, g \in Nat :
         a = call[c].acc /\ g = call[c].refresh /\ g \in 1..issued[a]
    BY InFlight
<1>2. \A b \in Accounts : row'[b].id = row[b].id
    OBVIOUS
<1>3. Connection!Release(a, g)
    BY <1>1, <1>2, CallEnds
<1>4. UNCHANGED <<OpenNow, StatusNow, HeldNow>>
    BY DEF OpenNow, StatusNow, HeldNow, Exchanged
<1>5. Connection!GiveUp(a, g)
    BY <1>3, <1>4 DEF Connection!GiveUp
<1> QED BY <1>1, <1>5 DEF Connection!Next

\* A call that has read the row or heard from Google has changed nothing yet.
LEMMA CallWaits ==
    ASSUME IInv, NEW c \in Callers, UNCHANGED <<row, login, live, issued>>,
           \A d \in Callers : d # c => call'[d] = call[d],
           call'[c].pc # "idle" <=> call[c].pc # "idle",
           call[c].pc # "idle" =>
               /\ call'[c].acc = call[c].acc /\ call'[c].id = call[c].id
               /\ call'[c].refresh = call[c].refresh
    PROVE  UNCHANGED Connection!vars
<1>1. TakenNow' = TakenNow
    <2>1. \A d \in Callers :
             /\ call'[d].pc # "idle" <=> call[d].pc # "idle"
             /\ call[d].pc # "idle" =>
                   /\ call'[d].acc = call[d].acc /\ call'[d].id = call[d].id
                   /\ call'[d].refresh = call[d].refresh
        OBVIOUS
    <2>2. \A a \in Accounts : row'[a].id = row[a].id
        OBVIOUS
    <2> QED BY <2>1, <2>2, CallsGoOn
<1>2. UNCHANGED <<OpenNow, StatusNow, HeldNow>>
    BY DEF OpenNow, StatusNow, HeldNow, Exchanged
<1> QED BY <1>1, <1>2 DEF Connection!vars

\* A call that finds its token expired takes it to Google.
LEMMA CallTakes ==
    ASSUME IInv, IdInv, NEW c \in Callers, NEW a \in Accounts, ReadExpired(c, a)
    PROVE  Connection!Next
<1>1. /\ call[c].pc = "idle" /\ row[a].status # "absent"
      /\ UNCHANGED <<row, login, live, issued>>
    BY DEF ReadExpired, Exists
<1>2. /\ call'[c].pc # "idle" /\ call'[c].acc = a /\ call'[c].id = row[a].id
      /\ call'[c].refresh = row[a].refresh
      /\ \A d \in Callers : d # c => call'[d] = call[d]
    BY DEF ReadExpired, IInv, TypeOK
<1>3. \A b \in Accounts : Refreshing(b) \subseteq Callers \ {c}
    BY <1>1 DEF Refreshing
<1>4. \A b \in Accounts :
         Refreshing(b)' = IF b = a THEN Refreshing(b) \union {c} ELSE Refreshing(b)
    BY <1>1, <1>2, <1>3 DEF Refreshing
<1>5. {call'[d].refresh : d \in Refreshing(a)'}
         = {call[d].refresh : d \in Refreshing(a)} \union {row[a].refresh}
    BY <1>2, <1>3, <1>4
<1>6. ASSUME NEW b \in Accounts, b # a
      PROVE  {call'[d].refresh : d \in Refreshing(b)'} = {call[d].refresh : d \in Refreshing(b)}
    <2>1. Refreshing(b)' = Refreshing(b)
        BY <1>4, <1>6
    <2> QED BY <1>2, <1>3, <2>1
<1>7. TakenNow' = [TakenNow EXCEPT ![a] = @ \union {HeldNow[a]}]
    BY <1>5, <1>6 DEF TakenNow, HeldNow
<1>8. UNCHANGED <<OpenNow, StatusNow, HeldNow>>
    BY <1>1 DEF OpenNow, StatusNow, HeldNow, Exchanged
<1>9. StatusNow[a] # "absent"
    BY <1>1 DEF StatusNow
<1>10. Connection!Take(a)
    BY <1>1, <1>7, <1>8, <1>9 DEF Connection!Take
<1> QED BY <1>10 DEF Connection!Next

\* The invalid_grant branch: the row is revoked by a call that was for it, or
\* nothing is written.
LEMMA CallRevokes ==
    ASSUME IInv, IdInv, NEW c \in Callers, MarkRevoked(c)
    PROVE  Connection!Next
<1>1. /\ call[c].pc = "revoke" /\ call' = [call EXCEPT ![c] = Returned("revoked")]
      /\ UNCHANGED <<login, live, issued>>
    BY DEF MarkRevoked
<1>2. PICK a \in Accounts, g \in Nat :
         a = call[c].acc /\ g = call[c].refresh /\ g \in 1..issued[a]
    BY <1>1, InFlight
<1>3. CASE SameRow(c)
    <2>1. /\ row'[a].status = "revoked"
          /\ row'[a].id = row[a].id /\ row'[a].refresh = row[a].refresh
          /\ \A b \in Accounts : b # a => row'[b] = row[b]
        BY <1>2, <1>3 DEF MarkRevoked, WithStatusRevoked, IInv, TypeOK, Row
    <2>2. StatusNow' = [StatusNow EXCEPT ![a] = "revoked"] /\ HeldNow' = HeldNow
        BY <2>1 DEF StatusNow, HeldNow
    <2>3. OpenNow' = OpenNow
        BY <1>1 DEF OpenNow, Exchanged
    <2>4. \A b \in Accounts : row'[b].id = row[b].id
        BY <2>1
    <2>5. Connection!Release(a, g)
        BY <1>1, <1>2, <2>4, CallEnds
    <2>6. g \in TakenNow[a]
        BY <1>1, <1>2, <1>3 DEF SameRow, TakenNow, Refreshing
    <2>7. g \notin live[a]
        BY <1>1, <1>2 DEF IInv, CallsCarryOneGrant
    <2>8. Connection!Refuse(a, g)
        BY <1>1, <2>2, <2>3, <2>5, <2>6, <2>7 DEF Connection!Refuse
    <2> QED BY <1>2, <2>8 DEF Connection!Next
<1>4. CASE ~SameRow(c)
    <2>1. row' = row
        BY <1>4 DEF MarkRevoked, IInv, TypeOK
    <2> QED BY <1>1, <2>1, CallGivesUp
<1> QED BY <1>3, <1>4

\* The refreshed token is one the row was read with.
LEMMA CallSaves ==
    ASSUME IInv, IdInv, NEW c \in Callers, SaveTokens(c)
    PROVE  Connection!Next
<1>1. /\ call[c].pc = "save" /\ SameRow(c)
      /\ call' = [call EXCEPT ![c] = Returned("ok")]
      /\ UNCHANGED <<login, live, issued>>
    BY DEF SaveTokens
<1>2. PICK a \in Accounts, g \in Nat :
         a = call[c].acc /\ g = call[c].refresh /\ g \in 1..issued[a]
    BY <1>1, InFlight
<1>3. /\ row'[a].status = row[a].status
      /\ row'[a].id = row[a].id /\ row'[a].refresh = g
      /\ \A b \in Accounts : b # a => row'[b] = row[b]
    <2>1. row' = [row EXCEPT ![a] = WithTokens(row[a], c)]
        BY <1>2 DEF SaveTokens
    <2>2. row[a] \in Row
        BY DEF IInv, TypeOK
    <2>3. /\ WithTokens(row[a], c).status = row[a].status
          /\ WithTokens(row[a], c).id = row[a].id
          /\ WithTokens(row[a], c).refresh = g
        BY <1>2, <2>2 DEF WithTokens, KeepRefreshToken, NoToken, Row
    <2> QED BY <2>1, <2>3 DEF IInv, TypeOK
<1>4. HeldNow' = [HeldNow EXCEPT ![a] = g] /\ StatusNow' = StatusNow
    BY <1>3 DEF StatusNow, HeldNow
<1>5. OpenNow' = OpenNow
    BY <1>1 DEF OpenNow, Exchanged
<1>6. \A b \in Accounts : row'[b].id = row[b].id
    BY <1>3
<1>7. Connection!Release(a, g)
    BY <1>1, <1>2, <1>6, CallEnds
<1>8. g \in TakenNow[a]
    BY <1>1, <1>2 DEF SameRow, TakenNow, Refreshing
<1>9. Connection!Refresh(a, g)
    BY <1>1, <1>4, <1>5, <1>7, <1>8 DEF Connection!Refresh
<1> QED BY <1>2, <1>9 DEF Connection!Next

\* GetValidTokenForAccount, step by step.
LEMMA ConnectionCallStep ==
    ASSUME IInv, IdInv, NEW c \in Callers, CallStep(c)
    PROVE  [Connection!Next]_(Connection!vars)
<1>0. call \in [Callers -> Call]
    BY DEF IInv, TypeOK
<1>1. ASSUME NEW a \in Accounts, ReadFresh(c, a) \/ ReadFails(c, a)
      PROVE  UNCHANGED Connection!vars
    <2>1. /\ call[c].pc = "idle" /\ call'[c].pc = "idle"
          /\ \A d \in Callers : d # c => call'[d] = call[d]
          /\ UNCHANGED <<row, login, live, issued>>
        BY <1>0, <1>1 DEF ReadFresh, ReadFails, Returned
    <2> QED BY <2>1, CallWaits
<1>2. ASSUME NEW a \in Accounts, ReadExpired(c, a)
      PROVE  Connection!Next
    BY <1>2, CallTakes
<1>3. ASSUME NEW given, RefreshGranted(c, given)
      PROVE  UNCHANGED Connection!vars
    <2>1. KeepRefreshToken(given, call[c].refresh) = call[c].refresh
        BY <1>3 DEF RefreshGranted, KeepRefreshToken
    <2>2. /\ call[c].pc = "refresh" /\ call'[c].pc = "save"
          /\ call'[c].acc = call[c].acc /\ call'[c].id = call[c].id
          /\ call'[c].refresh = call[c].refresh
          /\ \A d \in Callers : d # c => call'[d] = call[d]
        BY <1>0, <1>3, <2>1 DEF RefreshGranted, Call
    <2>3. UNCHANGED <<row, login, live, issued>>
        BY <1>3 DEF RefreshGranted
    <2> QED BY <2>2, <2>3, CallWaits
<1>4. CASE RefreshRefused(c)
    <2>1. /\ call[c].pc = "refresh" /\ call'[c].pc = "revoke"
          /\ call'[c].acc = call[c].acc /\ call'[c].id = call[c].id
          /\ call'[c].refresh = call[c].refresh
          /\ \A d \in Callers : d # c => call'[d] = call[d]
        BY <1>0, <1>4 DEF RefreshRefused, Call
    <2>2. UNCHANGED <<row, login, live, issued>>
        BY <1>4 DEF RefreshRefused
    <2> QED BY <2>1, <2>2, CallWaits
<1>5. CASE RefreshFails(c) \/ MarkRevokedFails(c) \/ SaveFails(c)
    <2>1. /\ call[c].pc # "idle" /\ UNCHANGED <<row, login, live, issued>>
          /\ \E r : call' = [call EXCEPT ![c] = Returned(r)]
        BY <1>5 DEF RefreshFails, MarkRevokedFails, SaveFails
    <2> QED BY <2>1, CallGivesUp
<1> QED BY <1>1, <1>2, <1>3, <1>4, <1>5, CallRevokes, CallSaves DEF CallStep

LEMMA ConnectionStep == IInv /\ IdInv /\ [Next]_vars => [Connection!Next]_(Connection!vars)
<1> SUFFICES ASSUME IInv, IdInv, [Next]_vars
             PROVE  [Connection!Next]_(Connection!vars)
    OBVIOUS
<1>1. CASE Crash
    <2>1. /\ \A c \in Callers : call'[c].pc = "idle"
          /\ \A l \in Logins : login'[l].pc = "idle"
          /\ UNCHANGED <<row, live, issued>>
        BY <1>1 DEF Crash, Returned, NoLogin
    <2>2. OpenNow' = [a \in Accounts |-> {}] /\ TakenNow' = [a \in Accounts |-> {}]
        BY <2>1 DEF OpenNow, TakenNow, Exchanged, Refreshing
    <2>3. UNCHANGED <<StatusNow, HeldNow>>
        BY <2>1 DEF StatusNow, HeldNow
    <2>4. Connection!Restart
        BY <2>1, <2>2, <2>3 DEF Connection!Restart
    <2> QED BY <2>4 DEF Connection!Next
<1>2. CASE UNCHANGED vars
    BY <1>2 DEF vars, Connection!vars, OpenNow, StatusNow, HeldNow, TakenNow,
                Exchanged, Refreshing
<1> QED
    BY <1>1, <1>2, ConnectionAccountStep, ConnectionLoginStep, ConnectionCallStep DEF Next

LEMMA ConnectionInit == Init => Connection!Init
BY DEF Init, Connection!Init, OpenNow, StatusNow, HeldNow, TakenNow, Exchanged, Refreshing,
       NoRow, NoToken, Returned, NoLogin

\* The accounts, whoever works on them, are the connections of Connections:
\* the row of a key is written by no login twice, revoked only with a refusal
\* of a token read from it, and given no token of a row that is gone.
THEOREM ImplementsConnections == Spec => ConnectionKept
<1>1. Spec => []IdInv
    BY Invariant, IdInit, IdStep, PTL DEF Spec
<1> QED
    BY <1>1, Invariant, ConnectionInit, ConnectionStep, PTL
       DEF Spec, ConnectionKept, Connection!Spec
=============================================================================
