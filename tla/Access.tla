------------------------------- MODULE Access -------------------------------
(***************************************************************************)
(* Who is let in, and by what: the allowlist, sessions, API tokens, and    *)
(* what an app is given when a member connects it ("Sign in with Eifo").   *)
(* eifo_api: sessions.py, members.py, oauth_server.py, routers/auth.py,    *)
(* connect.py, me.py (tokens) and admin.py (members).                      *)
(*                                                                         *)
(* A request looks up what it was shown, and writes later: what happened   *)
(* in between it may not know.  From its first write on it holds the       *)
(* write lock and reads what is committed, so the rest is one step.        *)
(***************************************************************************)
EXTENDS Naturals, FiniteSets

CONSTANTS
    Accounts, Email,   \* accounts of identity providers, and their addresses
    Configured,        \* admin_emails
    Apps,              \* OAuth clients
    Requests,          \* requests that may be served at one time
    MaxKeys,           \* bound: secrets handed out
    MaxTokens,         \* MAX_TOKENS
    MaxTurns,          \* bound: invitations, sign-ins, approvals, ages and new tokens
    None

AccessAssumption ==
    /\ MaxKeys \in Nat /\ MaxTokens \in Nat /\ MaxTurns \in Nat
    /\ None \notin Accounts \cup Apps

Addresses == {Email[a] : a \in Accounts}
Keys == 1 .. MaxKeys

VARIABLES
    members,   \* the allowlist
    accounts,  \* accounts that have a users row
    apps,      \* registered apps: no one approved them yet, or someone did
    rows,      \* user_sessions, api_tokens, oauth_codes, oauth_refresh_tokens
    handed,    \* secrets handed out so far
    turns,
    served,    \* what each request is at
    connected, \* history: connections approved and not ended since
    traded     \* history: secrets an app was given a pair of tokens for

vars == <<members, accounts, apps, rows, handed, turns, served, connected, traded>>
people == <<members, accounts>>
history == <<connected, traded>>

Kinds == {"session", "personal", "access", "refresh", "code"}

Row == [kind  : Kinds,
        owner : Accounts,
        app   : Apps \cup {None},
        age   : {"fresh", "due", "expired"},   \* due: SESSION_RENEW_AFTER ago
        used  : BOOLEAN,
        raced : BOOLEAN]   \* history: given to a request that was overtaken

Request == [pc    : {"idle", "admitted", "renewing", "in", "counted", "code", "refresh"},
            owner : Accounts \cup {None},
            key   : Keys \cup {None},
            app   : Apps \cup {None},
            raced : BOOLEAN]   \* history: what it relies on was withdrawn meanwhile

Idle == [pc |-> "idle", owner |-> None, key |-> None, app |-> None, raced |-> FALSE]

TypeOK ==
    /\ members \subseteq Addresses /\ accounts \subseteq Accounts
    /\ apps \in [Apps -> {"none", "new", "stale", "used"}]
    /\ rows \in [Keys -> Row \cup {None}]
    /\ handed \in 0 .. MaxKeys /\ turns \in 0 .. MaxTurns
    /\ \A k \in Keys : rows[k] # None => k <= handed /\ rows[k].owner \in accounts
    /\ served \in [Requests -> Request]
    /\ connected \subseteq Accounts \X Apps
    /\ traded \subseteq 1 .. handed

Init ==
    /\ members = {} /\ accounts = {}
    /\ apps = [c \in Apps |-> "none"]
    /\ rows = [k \in Keys |-> None] /\ handed = 0 /\ turns = 0
    /\ served = [r \in Requests |-> Idle]
    /\ connected = {} /\ traded = {}

-----------------------------------------------------------------------------

At(r, pc) == served[r].pc = pc
Stands(k) == rows[k] # None
Is(k, kind) == Stands(k) /\ rows[k].kind = kind

(* may_sign_in: the gate is shut from the first address that may.          *)
MaySignIn(a) ==
    (Configured # {} \/ members # {}) => Email[a] \in Configured \cup members

(* The request is over, whether it was answered or raised.                 *)
Done(r) == served' = [served EXCEPT ![r] = Idle]

(* Ends r, and notes whom its commit overtakes.                            *)
DoneOver(r, overtaken) ==
    served' = [o \in Requests |->
        IF o = r THEN Idle
        ELSE IF ~At(o, "idle") /\ o \in overtaken
             THEN [served[o] EXCEPT !.raced = TRUE] ELSE served[o]]

New(kind, a, c, raced) ==
    [kind |-> kind, owner |-> a, app |-> c, age |-> "fresh", used |-> FALSE, raced |-> raced]

Hand(row) ==
    /\ handed < MaxKeys /\ handed' = handed + 1
    /\ rows' = [rows EXCEPT ![handed + 1] = row]

Turn == turns < MaxTurns /\ turns' = turns + 1

Without(K) == [k \in Keys |-> IF k \in K THEN None ELSE rows[k]]

SlipLeavesRefresh(a, c) ==
    {k \in Keys : Stands(k) /\ rows[k].owner = a /\ rows[k].app = c /\ rows[k].kind # "refresh"}

(* _disconnect: tokens, refresh tokens and codes.                          *)
OfConnection(a, c) == {k \in Keys : Stands(k) /\ rows[k].owner = a /\ rows[k].app = c}

Disconnected(r, a, c) ==
    /\ rows' = Without(OfConnection(a, c))
    /\ connected' = connected \ {<<a, c>>}
    /\ DoneOver(r, {o \in Requests : served[o].owner = a /\ served[o].app = c})
    /\ UNCHANGED <<people, apps, handed, traded, turns>>

-----------------------------------------------------------------------------
(* Signing in, and a browser's requests.                                   *)

SignsIn(r, a) ==
    /\ At(r, "idle") /\ MaySignIn(a)
    /\ served' = [served EXCEPT ![r] = [Idle EXCEPT !.pc = "admitted", !.owner = a]]
    /\ Turn
    /\ UNCHANGED <<people, apps, rows, handed, history>>

(* _upsert_user and start_session.                                         *)
OpensSession(r) ==
    /\ At(r, "admitted")
    /\ accounts' = accounts \cup {served[r].owner}
    /\ Hand(New("session", served[r].owner, None, served[r].raced))
    /\ Done(r)
    /\ UNCHANGED <<members, apps, history, turns>>

(* resolve_session: a dead row is deleted on sight.                        *)
ShowsCookie(r, k) ==
    /\ At(r, "idle") /\ Is(k, "session")
    /\ IF rows[k].age = "expired"
       THEN rows' = Without({k}) /\ UNCHANGED served
       ELSE /\ served' = [served EXCEPT ![r] =
                 [Idle EXCEPT !.pc = IF rows[k].age = "due" THEN "renewing" ELSE "in",
                              !.owner = rows[k].owner, !.key = k, !.raced = rows[k].raced]]
            /\ UNCHANGED rows
    /\ UNCHANGED <<people, apps, handed, history, turns>>

(* _renew: there may be nothing left to update, and that raises.           *)
Renews(r) ==
    /\ At(r, "renewing")
    /\ IF Stands(served[r].key)
       THEN /\ rows' = [rows EXCEPT ![served[r].key].age = "fresh"]
            /\ served' = [served EXCEPT ![r].pc = "in"]
       ELSE Done(r) /\ UNCHANGED rows
    /\ UNCHANGED <<people, apps, handed, history, turns>>

Ends(r) ==
    /\ At(r, "in")
    /\ Done(r)
    /\ UNCHANGED <<people, apps, rows, handed, history, turns>>

LogsOut(r) ==
    /\ At(r, "in")
    /\ rows' = Without({served[r].key})
    /\ Done(r)
    /\ UNCHANGED <<people, apps, handed, history, turns>>

TokensOf(a) == {k \in Keys : Is(k, "personal") /\ rows[k].owner = a}

CountsTokens(r) ==
    /\ At(r, "in") /\ Cardinality(TokensOf(served[r].owner)) < MaxTokens
    /\ served' = [served EXCEPT ![r].pc = "counted"]
    /\ Turn
    /\ UNCHANGED <<people, apps, rows, handed, history>>

(* create_my_token; the row of an account that is gone is refused.         *)
MakesToken(r) ==
    /\ At(r, "counted")
    /\ IF served[r].owner \in accounts
       THEN Hand(New("personal", served[r].owner, None, served[r].raced))
       ELSE UNCHANGED <<rows, handed>>
    /\ Done(r)
    /\ UNCHANGED <<people, apps, history, turns>>

(* revoke_my_token matches any API token of the caller's, an app's too.    *)
RevokesToken(r, k) ==
    /\ At(r, "in") /\ Stands(k) /\ rows[k].kind \in {"personal", "access"}
    /\ rows[k].owner = served[r].owner
    /\ rows' = Without({k})
    /\ Done(r)
    /\ UNCHANGED <<people, apps, handed, history, turns>>

(* delete_me: every row of the account goes with it.                       *)
DeletesAccount(r) ==
    /\ At(r, "in")
    /\ LET a == served[r].owner IN
          /\ accounts' = accounts \ {a}
          /\ rows' = Without({k \in Keys : Stands(k) /\ rows[k].owner = a})
          /\ connected' = {p \in connected : p[1] # a}
          /\ DoneOver(r, {o \in Requests : served[o].owner = a /\ served[o].app # None})
    /\ UNCHANGED <<members, apps, handed, traded, turns>>

-----------------------------------------------------------------------------
(* Connecting an app.                                                      *)

(* register_client: one nobody approved in time is forgotten.              *)
Registers(c) ==
    /\ apps[c] = "none"
    /\ apps' = [d \in Apps |-> IF d = c THEN "new"
                               ELSE IF apps[d] = "stale" THEN "none" ELSE apps[d]]
    /\ UNCHANGED <<people, rows, handed, served, history, turns>>

GoesUnused(c) ==
    /\ apps[c] = "new"
    /\ apps' = [apps EXCEPT ![c] = "stale"]
    /\ UNCHANGED <<people, rows, handed, served, history, turns>>

Approves(r, c) ==
    /\ At(r, "in") /\ apps[c] # "none" /\ served[r].owner \in accounts
    /\ Hand(New("code", served[r].owner, c, FALSE))
    /\ apps' = [apps EXCEPT ![c] = "used"]
    /\ connected' = connected \cup {<<served[r].owner, c>>}
    /\ Done(r)
    /\ Turn
    /\ UNCHANGED <<people, traded>>

Disconnects(r, c) ==
    /\ At(r, "in") /\ OfConnection(served[r].owner, c) # {}
    /\ Disconnected(r, served[r].owner, c)

(* load_authorization_code and the read of the exchange.                   *)
ShowsCode(r, k) ==
    /\ At(r, "idle") /\ Is(k, "code") /\ rows[k].age # "expired"
    /\ served' = [served EXCEPT ![r] =
          [pc |-> "code", owner |-> rows[k].owner, key |-> k, app |-> rows[k].app,
           raced |-> rows[k].raced]]
    /\ UNCHANGED <<people, apps, rows, handed, history, turns>>

(* load_refresh_token: one that was traded in already ends everything.     *)
ShowsRefresh(r, k) ==
    /\ At(r, "idle") /\ Is(k, "refresh")
    /\ \/ /\ rows[k].used
          /\ Disconnected(r, rows[k].owner, rows[k].app)
       \/ /\ ~rows[k].used /\ rows[k].age # "expired"
          /\ served' = [served EXCEPT ![r] =
                [pc |-> "refresh", owner |-> rows[k].owner, key |-> k, app |-> rows[k].app,
                 raced |-> rows[k].raced]]
          /\ UNCHANGED <<people, apps, rows, handed, history, turns>>

(* _issue, after what was shown has been taken out of table: the expired   *)
(* tokens of the connection go, and a pair is handed out.                  *)
Issued(r, table) ==
    LET a == served[r].owner
        c == served[r].app
        kept == [k \in Keys |->
                   IF table[k] # None /\ table[k].owner = a /\ table[k].app = c
                      /\ table[k].kind \in {"access", "refresh"} /\ table[k].age = "expired"
                   THEN None ELSE table[k]]
    IN  /\ handed + 2 <= MaxKeys /\ handed' = handed + 2
        /\ rows' = [kept EXCEPT ![handed + 1] = New("access", a, c, served[r].raced),
                                ![handed + 2] = New("refresh", a, c, served[r].raced)]
        /\ traded' = traded \cup {served[r].key}
        /\ DoneOver(r, {o \in Requests : served[o].key = served[r].key})

MayIssue(r) == served[r].owner \in accounts /\ MaySignIn(served[r].owner)

SlipKeepsCode(r) == rows

(* Deleting a row that is gone already is only warned about.               *)
CodeSpent(r) == Without({served[r].key})

(* exchange_authorization_code: refused, nothing of it stays.              *)
SpendsCode(r) ==
    /\ At(r, "code")
    /\ IF MayIssue(r)
       THEN Issued(r, CodeSpent(r))
       ELSE Done(r) /\ UNCHANGED <<rows, handed, traded>>
    /\ UNCHANGED <<people, apps, connected, turns>>

(* exchange_refresh_token: updating a row that is gone raises.             *)
TradesRefresh(r) ==
    /\ At(r, "refresh")
    /\ IF Stands(served[r].key) /\ MayIssue(r)
       THEN Issued(r, [rows EXCEPT ![served[r].key].used = TRUE])
       ELSE Done(r) /\ UNCHANGED <<rows, handed, traded>>
    /\ UNCHANGED <<people, apps, connected, turns>>

(* revoke_token, by the app itself, with a token that still counts.        *)
AppRevokes(r, k) ==
    /\ At(r, "idle") /\ Stands(k)
    /\ rows[k].kind = "refresh" \/ rows[k].kind = "access"
    /\ rows[k].age # "expired" \/ rows[k].used
    /\ Disconnected(r, rows[k].owner, rows[k].app)

-----------------------------------------------------------------------------
(* Administration, and time.                                               *)

(* Somebody has to be there to administer: configured, or promoted.        *)
Invites(p) ==
    /\ Configured \cup members # {}
    /\ p \notin Configured \cup members
    /\ members' = members \cup {p}
    /\ Turn
    /\ UNCHANGED <<accounts, apps, rows, handed, served, history>>

SlipLeavesTokens(p) ==
    {k \in Keys : Stands(k) /\ Email[rows[k].owner] = p /\ rows[k].kind = "session"}

(* _revoke_everything: by address, and no refresh tokens.                  *)
HeldBy(p) ==
    {k \in Keys : Stands(k) /\ Email[rows[k].owner] = p
                  /\ rows[k].kind \in {"session", "personal", "access"}}

(* remove_member.                                                          *)
Removes(p) ==
    /\ p \in members
    /\ members' = members \ {p}
    /\ rows' = Without(HeldBy(p))
    /\ served' = [o \in Requests |->
          IF ~At(o, "idle") /\ Email[served[o].owner] = p
          THEN [served[o] EXCEPT !.raced = TRUE] ELSE served[o]]
    /\ UNCHANGED <<accounts, apps, handed, history, turns>>

(* A token made in Settings does not expire.                               *)
Ages(k) ==
    /\ Stands(k) /\ rows[k].kind # "personal" /\ rows[k].age # "expired"
    /\ rows' = [rows EXCEPT ![k].age =
          IF rows[k].kind = "session" /\ @ = "fresh" THEN "due" ELSE "expired"]
    /\ Turn
    /\ UNCHANGED <<people, apps, handed, served, history>>

Browses(r) ==
    \/ \E a \in Accounts : SignsIn(r, a)
    \/ \E k \in Keys : ShowsCookie(r, k) \/ RevokesToken(r, k)
    \/ \E c \in Apps : Approves(r, c) \/ Disconnects(r, c)
    \/ OpensSession(r) \/ Renews(r) \/ Ends(r) \/ LogsOut(r)
    \/ CountsTokens(r) \/ MakesToken(r) \/ DeletesAccount(r)

AppAsks(r) ==
    \/ \E k \in Keys : ShowsCode(r, k) \/ ShowsRefresh(r, k) \/ AppRevokes(r, k)
    \/ SpendsCode(r) \/ TradesRefresh(r)

Next ==
    \/ \E r \in Requests : Browses(r) \/ AppAsks(r)
    \/ \E c \in Apps : Registers(c) \/ GoesUnused(c)
    \/ \E p \in Addresses : Invites(p) \/ Removes(p)
    \/ \E k \in Keys : Ages(k)

Spec == Init /\ [][Next]_vars

-----------------------------------------------------------------------------

(* Taking an address off the allowlist leaves nothing signed in under it,  *)
(* through whichever provider, and an app it had connected cannot renew    *)
(* what it held; what a request makes that was being served at that moment *)
(* is the exception (remove_member: "both halves matter").                 *)
RemovedHoldNothing ==
    \A k \in Keys :
        Stands(k) /\ rows[k].kind \in {"session", "personal", "access"} /\ ~rows[k].raced
            => MaySignIn(rows[k].owner)

(* A connection that was ended, by the member, by the app or because a     *)
(* refresh token came back a second time, holds nothing until it is        *)
(* approved anew, down to the last token that came of it; but for what an  *)
(* exchange under way at that moment writes after it.                      *)
EndedConnectionsHoldNothing ==
    \A k \in Keys :
        Stands(k) /\ rows[k].app # None /\ ~rows[k].raced
            => <<rows[k].owner, rows[k].app>> \in connected

(* A code or a refresh token gives one pair of tokens, unless two requests *)
(* had both looked it up before either wrote ("spent the moment it is      *)
(* used").                                                                 *)
GivesOnePair ==
    [][\A r \in Requests : ~served[r].raced /\ handed' = handed + 2 /\ served'[r] # served[r]
          /\ served[r].pc \in {"code", "refresh"} => served[r].key \notin traded]_vars
=============================================================================
