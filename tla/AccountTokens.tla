---------------------------- MODULE AccountTokens ----------------------------
(***************************************************************************)
(* The row of a connected account and everyone who writes it:              *)
(*   - GetValidTokenForAccount (internal/store/account/account.go), run by *)
(*     the worker's goroutine of the account and by any API handler that   *)
(*     needs a Google client, each a read, a call to Google and a write;   *)
(*   - HandleGoogleCallback (internal/api/auth/auth.go), which exchanges a *)
(*     code and upserts the row;                                           *)
(*   - HandleDeleteConnectedAccount (internal/api/account/account.go).     *)
(* Nothing locks the row between the read and the write of one caller.     *)
(*                                                                         *)
(* A token is represented by the grant it was issued under: consent number *)
(* 1, 2, ... of the account, NoToken for the empty string.  Google's       *)
(* refresh tokens live and die with their grant, so the tokens of one      *)
(* grant are not told apart, except for "expired or not" (fresh).          *)
(*                                                                         *)
(* A definition directly above another with the same parameters, and a     *)
(* name that says what was forgotten, is a seeded bug of the one below it. *)
(* No specification uses it.                                               *)
(***************************************************************************)
EXTENDS Naturals

CONSTANTS
    Accounts,   \* keys (user_id, provider, provider_user_id) of the table
    Handlers,   \* concurrent API requests that need a Google client
    Logins,     \* concurrent OAuth callbacks
    MaxGrant,   \* bound: consents given per account
    NoAccount   \* "not working on any account"

ASSUME MaxGrantAssumption == MaxGrant \in Nat
ASSUME NoAccountAssumption == NoAccount \notin Accounts

VARIABLES
    row,     \* connected_accounts, one row per key
    call,    \* the GetValidTokenForAccount in progress of each caller
    login,   \* the HandleGoogleCallback in progress of each login
    live,    \* grants Google still honours
    issued   \* number of grants given so far

vars == <<row, call, login, live, issued>>

(***************************************************************************)
(* Types and empty values                                                  *)
(***************************************************************************)
NoToken == 0
Grants  == 1..MaxGrant
Tokens  == 0..MaxGrant

\* The worker runs one goroutine per account; it is named after the account.
Callers == Accounts \union Handlers

\* Statuses "error" and "paused" exist in the schema; no code writes them.
Row == [id : Tokens, status : {"absent", "active", "revoked"},
        access : Tokens, refresh : Tokens, fresh : BOOLEAN]

\* id is the uuid drawn by the INSERT: the grant whose login inserted the row.
NoRow == [id |-> 0, status |-> "absent",
          access |-> NoToken, refresh |-> NoToken, fresh |-> FALSE]

Call == [pc : {"idle", "refresh", "revoke", "save"},
         acc : Accounts \union {NoAccount}, id : Tokens,
         access : Tokens, refresh : Tokens,
         result : {"none", "ok", "revoked", "error"}]

\* The call has returned with this result.
Returned(result) ==
    [pc |-> "idle", acc |-> NoAccount, id |-> 0,
     access |-> NoToken, refresh |-> NoToken, result |-> result]

Login == [pc : {"idle", "exchanged"}, acc : Accounts \union {NoAccount},
          access : Tokens, refresh : Tokens]

NoLogin == [pc |-> "idle", acc |-> NoAccount,
            access |-> NoToken, refresh |-> NoToken]

TypeOK ==
    /\ row \in [Accounts -> Row]
    /\ call \in [Callers -> Call]
    /\ login \in [Logins -> Login]
    /\ live \in [Accounts -> SUBSET Grants]
    /\ issued \in [Accounts -> Tokens]

Init ==
    /\ row = [a \in Accounts |-> NoRow]
    /\ call = [c \in Callers |-> Returned("none")]
    /\ login = [l \in Logins |-> NoLogin]
    /\ live = [a \in Accounts |-> {}]
    /\ issued = [a \in Accounts |-> 0]

Exists(a) == row[a].status # "absent"

\* WHERE id = $1: the row a caller read is still there.
SameKey(c) == Exists(call[c].acc)
SameRow(c) == Exists(call[c].acc) /\ row[call[c].acc].id = call[c].id

(***************************************************************************)
(* Google and the user (outside src/)                                      *)
(***************************************************************************)

\* The user revokes access, or Google ages the grant out.
GrantDropped(a, g) ==
    /\ g \in live[a]
    /\ live' = [live EXCEPT ![a] = @ \ {g}]
    /\ UNCHANGED <<row, call, login, issued>>

\* token_expiry of the stored access token passes.
Expire(a) ==
    /\ Exists(a)
    /\ row[a].fresh
    /\ row' = [row EXCEPT ![a].fresh = FALSE]
    /\ UNCHANGED <<call, login, live, issued>>

(***************************************************************************)
(* HandleGoogleCallback                                                    *)
(***************************************************************************)

\* oauthConfig.Exchange: Google answers with an access token and, if
\* withRefresh, a refresh token of a new grant.
Exchange(l, a, withRefresh) ==
    /\ login[l].pc = "idle"
    /\ issued[a] < MaxGrant
    /\ issued' = [issued EXCEPT ![a] = @ + 1]
    /\ live' = [live EXCEPT ![a] = @ \union {issued[a] + 1}]
    /\ login' = [login EXCEPT ![l] =
                    [pc |-> "exchanged", acc |-> a, access |-> issued[a] + 1,
                     refresh |-> IF withRefresh THEN issued[a] + 1 ELSE NoToken]]
    /\ UNCHANGED <<row, call>>

\* "Geen refresh token ontvangen": the callback refuses to store such a token.
HasRefreshTokenNotChecked(l) == TRUE
HasRefreshToken(l) == login[l].refresh # NoToken

\* UpsertConnectedAccount: one INSERT ... ON CONFLICT DO UPDATE, which keeps
\* the id of an existing row and makes it active again.
UpsertConnectedAccount(l) ==
    LET a == login[l].acc IN
    /\ login[l].pc = "exchanged"
    /\ HasRefreshToken(l)
    /\ row' = [row EXCEPT ![a] =
                  [id |-> IF Exists(a) THEN @.id ELSE login[l].access,
                   status |-> "active", access |-> login[l].access,
                   refresh |-> login[l].refresh, fresh |-> TRUE]]
    /\ login' = [login EXCEPT ![l] = NoLogin]
    /\ UNCHANGED <<call, live, issued>>

\* Any early return after the exchange: no refresh token, user info or
\* CreateUser failed, the upsert failed.
LoginFails(l) ==
    /\ login[l].pc = "exchanged"
    /\ login' = [login EXCEPT ![l] = NoLogin]
    /\ UNCHANGED <<row, call, live, issued>>

(***************************************************************************)
(* HandleDeleteConnectedAccount, and the cascade of DeleteUser.  The lookup *)
(* and the DELETE use the same id, so a row that changed id in between is   *)
(* not deleted and the two statements act as one.                           *)
(***************************************************************************)
DeleteConnectedAccount(a) ==
    /\ Exists(a)
    /\ row' = [row EXCEPT ![a] = NoRow]
    /\ UNCHANGED <<call, login, live, issued>>

(***************************************************************************)
(* GetValidTokenForAccount                                                 *)
(***************************************************************************)

\* A handler takes any id, whatever the status; the goroutine of an account takes
\* that one, whatever has become of the row since the cycle listed it
\* (GetActiveAccounts, some calls ago).
MayCall(c, a) == c \in Handlers \/ c = a

\* token.Valid(): the stored token is returned as it is.
ReadFresh(c, a) ==
    /\ call[c].pc = "idle"
    /\ MayCall(c, a)
    /\ Exists(a)
    /\ row[a].fresh
    /\ call' = [call EXCEPT ![c] = Returned("ok")]
    /\ UNCHANGED <<row, login, live, issued>>

\* The stored token has expired: go on to Google with what was read.
ReadExpired(c, a) ==
    /\ call[c].pc = "idle"
    /\ MayCall(c, a)
    /\ Exists(a)
    /\ ~row[a].fresh
    /\ call' = [call EXCEPT ![c] =
                   [pc |-> "refresh", acc |-> a, id |-> row[a].id,
                    access |-> row[a].access, refresh |-> row[a].refresh,
                    result |-> "none"]]
    /\ UNCHANGED <<row, login, live, issued>>

\* "account not found", a database error, or a failed decryption.
ReadFails(c, a) ==
    /\ call[c].pc = "idle"
    /\ MayCall(c, a)
    /\ call' = [call EXCEPT ![c] = Returned("error")]
    /\ UNCHANGED <<row, login, live, issued>>

\* "Als we GEEN nieuwe refresh token krijgen, hergebruik dan de oude."
KeepRefreshToken(given, old) == IF given = NoToken THEN old ELSE given

\* ts.Token() succeeds; Google may or may not repeat the refresh token.
RefreshGranted(c, given) ==
    /\ call[c].pc = "refresh"
    /\ call[c].refresh \in live[call[c].acc]
    /\ given \in {NoToken, call[c].refresh}
    /\ call' = [call EXCEPT ![c].pc = "save",
                            ![c].access = call[c].refresh,
                            ![c].refresh = KeepRefreshToken(given, @)]
    /\ UNCHANGED <<row, login, live, issued>>

\* ts.Token() fails with 'invalid_grant'.  Without a refresh token the library
\* fails before it asks Google: that is RefreshFails.
RefusalTakenForFailure(c) ==
    /\ call[c].pc = "refresh"
    /\ call[c].refresh \notin live[call[c].acc]
    /\ call' = [call EXCEPT ![c] = Returned("error")]
    /\ UNCHANGED <<row, login, live, issued>>
RefreshRefused(c) ==
    /\ call[c].pc = "refresh"
    /\ call[c].refresh # NoToken
    /\ call[c].refresh \notin live[call[c].acc]
    /\ call' = [call EXCEPT ![c].pc = "revoke"]
    /\ UNCHANGED <<row, login, live, issued>>

\* ts.Token() fails with anything else.
RefreshFails(c) ==
    /\ call[c].pc = "refresh"
    /\ call' = [call EXCEPT ![c] = Returned("error")]
    /\ UNCHANGED <<row, login, live, issued>>

WithStatusError(r) == [r EXCEPT !.status = "error"]
WithStatusRevoked(r) == [r EXCEPT !.status = "revoked"]

\* UpdateAccountStatus(revoked) WHERE id; no error when the row is gone.
MarkRevoked(c) ==
    /\ call[c].pc = "revoke"
    /\ row' = [a \in Accounts |->
                  IF a = call[c].acc /\ SameRow(c)
                  THEN WithStatusRevoked(row[a]) ELSE row[a]]
    /\ call' = [call EXCEPT ![c] = Returned("revoked")]
    /\ UNCHANGED <<login, live, issued>>

\* The status update fails: it is logged, and ErrTokenRevoked is returned.
MarkRevokedFails(c) ==
    /\ call[c].pc = "revoke"
    /\ call' = [call EXCEPT ![c] = Returned("revoked")]
    /\ UNCHANGED <<row, login, live, issued>>

\* The columns UpdateAccountTokens writes: the refresh token only when there
\* is one, the status never.
ActiveWithTokens(r, c) ==
    [r EXCEPT !.access = call[c].access, !.fresh = TRUE, !.status = "active",
              !.refresh = KeepRefreshToken(call[c].refresh, @)]
WithTokensNotExpiry(r, c) ==
    [r EXCEPT !.access = call[c].access,
              !.refresh = KeepRefreshToken(call[c].refresh, @)]
WithTokens(r, c) ==
    [r EXCEPT !.access = call[c].access, !.fresh = TRUE,
              !.refresh = KeepRefreshToken(call[c].refresh, @)]

\* UpdateAccountTokens finds the row it was called for.
SaveTokens(c) ==
    LET a == call[c].acc IN
    /\ call[c].pc = "save"
    /\ SameRow(c)
    /\ row' = [row EXCEPT ![a] = WithTokens(@, c)]
    /\ call' = [call EXCEPT ![c] = Returned("ok")]
    /\ UNCHANGED <<login, live, issued>>

\* No row with that id, or a database error: the new token is dropped.
SaveFailureIgnored(c) ==
    /\ call[c].pc = "save"
    /\ call' = [call EXCEPT ![c] = Returned("ok")]
    /\ UNCHANGED <<row, login, live, issued>>
SaveFails(c) ==
    /\ call[c].pc = "save"
    /\ call' = [call EXCEPT ![c] = Returned("error")]
    /\ UNCHANGED <<row, login, live, issued>>

(***************************************************************************)
(* The process dies and is started again: every call and login is lost.    *)
(***************************************************************************)
Crash ==
    /\ call' = [c \in Callers |-> Returned("none")]
    /\ login' = [l \in Logins |-> NoLogin]
    /\ UNCHANGED <<row, live, issued>>

LoginStep(l) ==
    \/ \E a \in Accounts, withRefresh \in BOOLEAN : Exchange(l, a, withRefresh)
    \/ UpsertConnectedAccount(l)
    \/ LoginFails(l)

CallStep(c) ==
    \/ \E a \in Accounts :
          ReadFresh(c, a) \/ ReadExpired(c, a) \/ ReadFails(c, a)
    \/ \E given \in Tokens : RefreshGranted(c, given)
    \/ RefreshRefused(c)
    \/ RefreshFails(c)
    \/ MarkRevoked(c)
    \/ MarkRevokedFails(c)
    \/ SaveTokens(c)
    \/ SaveFails(c)

AccountStep(a) ==
    \/ \E g \in Grants : GrantDropped(a, g)
    \/ Expire(a)
    \/ DeleteConnectedAccount(a)

Next ==
    \/ \E a \in Accounts : AccountStep(a)
    \/ \E l \in Logins : LoginStep(l)
    \/ \E c \in Callers : CallStep(c)
    \/ Crash

Spec == Init /\ [][Next]_vars

(***************************************************************************)
(* Fairness: access tokens do expire; the worker comes back to an account  *)
(* that is active, and so listed, every two minutes (worker.go, run); a    *)
(* call it has begun is finished; Google and the database, tried again and *)
(* again, do answer.                                                       *)
(* Nothing is assumed of handlers, users or logins.                        *)
(***************************************************************************)
Fairness ==
    \A a \in Accounts :
        /\ WF_vars(Expire(a))
        /\ SF_vars(row[a].status = "active" /\ ReadExpired(a, a))
        /\ WF_vars(CallStep(a) /\ call[a].pc # "idle")
        /\ SF_vars(RefreshRefused(a))
        /\ SF_vars(\E given \in Tokens : RefreshGranted(a, given))
        /\ SF_vars(MarkRevoked(a))
        /\ SF_vars(SaveTokens(a))

FairSpec == Spec /\ Fairness

(***************************************************************************)
(* Properties                                                              *)
(***************************************************************************)

\* A stored account always has a refresh token, and its access token comes
\* from the same grant, whatever callers and logins interleave: every writer
\* replaces the pair in one statement and no writer holds a mixed pair
\* (UpsertConnectedAccount, UpdateAccountTokens, the reuse of the old token).
StoredPairOfOneGrant ==
    \A a \in Accounts :
        Exists(a) => row[a].refresh # NoToken /\ row[a].access = row[a].refresh

\* An account goes to 'revoked' only because of a caller whose refresh token
\* for this very row Google no longer honours when the write happens: a
\* transient refresh error, or the deletion and re-creation of the account,
\* never revokes it (GetValidTokenForAccount, the invalid_grant branch).
RevocationHasRefusal ==
    \A a \in Accounts :
        row[a].status = "active" /\ row'[a].status = "revoked" =>
            \E c \in Callers : /\ call[c].pc # "idle" /\ call[c].acc = a
                               /\ call[c].id = row[a].id
                               /\ call[c].refresh \notin live[a]

RevokedOnlyOnRefusal == [][RevocationHasRefusal]_vars

\* The row and its writers keep the promise of Connections: whatever callers, logins,
\* deletions and crashes interleave, every consent is connected at most once and by its
\* own login, only a refusal of a token read from this very row revokes it, and no
\* token of a row that was deleted gets into its successor.  In particular only a
\* login makes an account active (UpdateAccountTokens leaves the status alone and
\* inserts nothing; the writers find the row by its id).
Exchanged(a) == {l \in Logins : login[l].pc = "exchanged" /\ login[l].acc = a}
Refreshing(a) ==
    {c \in Callers : call[c].pc # "idle" /\ call[c].acc = a /\ call[c].id = row[a].id}

OpenNow   == [a \in Accounts |-> {login[l].access : l \in Exchanged(a)}]
StatusNow == [a \in Accounts |-> row[a].status]
HeldNow   == [a \in Accounts |-> row[a].refresh]
TakenNow  == [a \in Accounts |-> {call[c].refresh : c \in Refreshing(a)}]

Connection == INSTANCE Connections WITH
    given <- issued, honoured <- live,
    open <- OpenNow, status <- StatusNow, held <- HeldNow, taken <- TakenNow

ConnectionKept == Connection!Spec

\* A refreshed token is handed to the caller only once it is in the row it
\* was read from ("kon ververst token niet opslaan" otherwise): the account
\* may have been deleted or reconnected while Google was answering.
ReturnedTokenIsStored ==
    \A c \in Callers :
        call[c].pc = "save" /\ call'[c].pc = "idle" /\ call'[c].result = "ok" =>
            LET r == row'[call[c].acc] IN
            /\ r.id = call[c].id /\ r.fresh
            /\ r.access = call[c].access /\ r.refresh = call[c].refresh

SavedBeforeReturned == [][ReturnedTokenIsStored]_vars

\* An active account whose refresh token Google refuses does not stay active:
\* the worker finds out, in spite of failures and restarts, unless a login or
\* a deletion comes first (worker.go processAccount, account.go).
DeadGrantDetected ==
    \A a \in Accounts :
        (row[a].status = "active" /\ row[a].refresh \notin live[a]) ~>
            ~(row[a].status = "active" /\ row[a].refresh \notin live[a])

\* An account that stays active under a grant Google honours gets a valid
\* token again and again: no interleaving of refreshes wedges it.
TokenKeptFresh ==
    \A a \in Accounts :
        <>[](row[a].status = "active" /\ row[a].refresh \in live[a])
            => []<>row[a].fresh

\* account.go:35 "ErrTokenRevoked wordt gegooid als de gebruiker de toegang
\* heeft ingetrokken": an account marked revoked is one whose access the user
\* has withdrawn.  The code does not guarantee this.
RevokedMeansWithdrawn ==
    \A a \in Accounts : row[a].status = "revoked" => row[a].refresh \notin live[a]
=============================================================================
