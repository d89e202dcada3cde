-------------------------------- MODULE SignIn --------------------------------
(***************************************************************************)
(* Signing in and out of one device: the refresh credentials of the        *)
(* service, the OS vault that keeps one of them, and the two processes     *)
(* that rotate it: the desktop, which restores the session when it starts  *)
(* and signs in and out, and the runtime, which refreshes before every     *)
(* connection.  Requests and answers get lost, clients give up, exceptions *)
(* other than AuthError end what a worker is at, the vault fails, and the  *)
(* runtime, or both processes, are killed between any two steps of theirs. *)
(* A process is killed at once, and the desktop with its runtime.          *)
(*                                                                         *)
(* The row lock is the database's: SELECT ... FOR UPDATE locks the row on  *)
(* PostgreSQL, the backend for production, and is ignored by SQLite, the   *)
(* default and the one for development (docs/accounts.md:48).              *)
(*                                                                         *)
(* Refresh tokens are numbered in the order of issue; 0 is no token.       *)
(* Their expiry (30 days) and wrong devices and secrets are left out, the  *)
(* expiry of access tokens (15 minutes) is not.  Access tokens are not     *)
(* modelled otherwise.                                                     *)
(*                                                                         *)
(* A definition named Mutant... is the definition after it with a          *)
(* plausible bug; nothing uses it.                                         *)
(***************************************************************************)
EXTENDS Integers, Sequences, FiniteSets

CONSTANTS
    MaxTokens,      \* bound on the tokens issued
    MaxCalls,       \* bound on the requests made
    RowLocks        \* whether FOR UPDATE locks rows: PostgreSQL, not SQLite

ASSUME SignInAssumption ==
    MaxTokens \in Nat \ {0} /\ MaxCalls \in Nat /\ RowLocks \in BOOLEAN

Tokens  == 1..MaxTokens
Desktop == {"restore", "login"}     \* pool threads, one StoredAuthSession
Workers == Desktop \cup {"runtime"} \* the runtime has its own

VARIABLES
    live,           \* tokens whose credential is not revoked
    parent,         \* of each token issued: the one it replaced, 0 for a sign-in
    calls,          \* requests, as the service sees them
    vault,          \* CredentialStore
    current,        \* the desktop's pair: refresh token, access token unexpired
    page,           \* MainWindow.stack
    up,             \* the runtime process runs
    logout,         \* the request that _logout waits for, 0 if none
    worker,         \* what each worker is at
    cut,            \* history: tokens whose exchange or revocation was cut short by
                    \* a kill, an exception that is no AuthError, or a failing vault
    out, left       \* history: signed out with no worker about; the token that was
                    \* in the vault when the service accepted the sign-out

server == <<live, parent, calls>>
client == <<vault, current, page, up, logout, worker>>
vars   == <<server, client, cut, out, left>>

Idle  == [stage |-> "idle", call |-> 0, pair |-> 0]
Fresh == [a \in Workers |-> IF a = "restore" THEN [Idle EXCEPT !.stage = "reading"] ELSE Idle]
NoPair == [token |-> 0, fresh |-> FALSE]

\* Every variable has its type.
TypeOK ==
    /\ live \subseteq Tokens
    /\ parent \in Seq(0..MaxTokens) /\ Len(parent) =< MaxTokens
    /\ calls \in Seq([kind : {"refresh", "login", "logout"}, token : 0..MaxTokens,
                      stage : {"sent", "locked", "granted", "refused", "lost"},
                      pair : 0..MaxTokens])
    /\ vault \in 0..MaxTokens
    /\ current \in [token : 0..MaxTokens, fresh : BOOLEAN]
    /\ page \in {"login", "dashboard"} /\ up \in BOOLEAN
    /\ logout \in 0..MaxCalls
    /\ worker \in [Workers -> [stage : {"idle", "reading", "waiting", "storing", "adopting",
                                        "failing", "done"},
                               call : 0..MaxCalls, pair : 0..MaxTokens]]
    /\ cut \subseteq Tokens /\ out \in BOOLEAN /\ left \in 0..MaxTokens

\* The desktop starts, with a session to restore or without.
Init ==
    /\ parent \in {<<>>, <<0>>} /\ live = 1..Len(parent) /\ vault = Len(parent)
    /\ calls = <<>> /\ current = NoPair /\ page = "login" /\ up = FALSE /\ logout = 0
    /\ worker = Fresh
    /\ cut = {} /\ out = FALSE /\ left = 0

------------------------------------------------------------------------------
(* The service: one transaction per request, whoever still waits for it.   *)

At(i, kind, stage) == i \in DOMAIN calls /\ calls[i].kind = kind /\ calls[i].stage = stage

\* No row lock.
MutantFree(t) == TRUE

\* SELECT ... FOR UPDATE waits for the transaction that has the row.
Free(t) == RowLocks => \A i \in DOMAIN calls : ~(calls[i].stage = "locked" /\ calls[i].token = t)

\* The row is read and checked.
CheckRefresh(i) ==
    /\ At(i, "refresh", "sent") /\ Free(calls[i].token)
    /\ calls' = [calls EXCEPT ![i].stage = IF calls[i].token \in live THEN "locked" ELSE "refused"]
    /\ UNCHANGED <<live, parent, client, cut, out, left>>

\* _issue_pair and commit, the old token revoked in the same transaction.
Issue(i, revoked) ==
    /\ Len(parent) < MaxTokens
    /\ parent' = Append(parent, calls[i].token)
    /\ live' = (live \ revoked) \cup {Len(parent) + 1}
    /\ calls' = [calls EXCEPT ![i].stage = "granted", ![i].pair = Len(parent) + 1]
    /\ UNCHANGED <<client, cut, out, left>>

CommitRefresh(i) == At(i, "refresh", "locked") /\ Issue(i, {calls[i].token})

Login(i) == At(i, "login", "sent") /\ Issue(i, {})

\* Wrong password, or an account that exists.
RefuseLogin(i) ==
    /\ At(i, "login", "sent")
    /\ calls' = [calls EXCEPT ![i].stage = "refused"]
    /\ UNCHANGED <<live, parent, client, cut, out, left>>

\* The bearer token must not have expired; revoking again is no error.
Revoke(i) ==
    /\ At(i, "logout", "sent") /\ Free(calls[i].token)
    /\ live' = live \ {calls[i].pair}
    /\ calls' = [calls EXCEPT ![i].stage = IF calls[i].pair # 0 THEN "granted" ELSE "refused"]
    /\ UNCHANGED <<parent, client, cut, out, left>>

Lose(i) ==
    /\ i \in DOMAIN calls /\ calls[i].stage = "sent"
    /\ calls' = [calls EXCEPT ![i].stage = "lost"]
    /\ UNCHANGED <<live, parent, client, cut, out, left>>

------------------------------------------------------------------------------
(* The clients.                                                            *)

Moves(a, record) == worker' = [worker EXCEPT ![a] = record]
CallOf(a) == calls[worker[a].call]

\* a has presented a token and its answer is not in the vault.
Exchanging(a) == worker[a].stage \in {"waiting", "storing", "failing"}
Presented(A)  == {CallOf(a).token : a \in {b \in A : Exchanging(b)}} \ {0}

\* What a is at ends where it is, the vault as it was.
Abandons(a) == Moves(a, Idle) /\ cut' = cut \cup Presented({a})

\* pair: the one granted; of a sign-out, the token again while access is unexpired.
Send(kind, token, pair) ==
    /\ Len(calls) < MaxCalls
    /\ calls' = Append(calls, [kind |-> kind, token |-> token, stage |-> "sent", pair |-> pair])

Waits == [Idle EXCEPT !.stage = "waiting", !.call = Len(calls) + 1]

\* restore: without a stored token, or when the vault fails, there is nothing to do.
Read(a) ==
    /\ worker[a].stage = "reading"
    /\ \/ Moves(a, Idle) /\ UNCHANGED calls
       \/ vault # 0 /\ Send("refresh", vault, 0) /\ Moves(a, Waits)
    /\ UNCHANGED <<live, parent, vault, current, page, up, logout, cut, out, left>>

\* The answer arrives.
Answer(a) ==
    /\ worker[a].stage = "waiting"
    /\ \/ CallOf(a).stage = "granted"
          /\ Moves(a, [worker[a] EXCEPT !.stage = "storing", !.pair = CallOf(a).pair])
       \/ CallOf(a).stage = "refused" /\ Moves(a, [worker[a] EXCEPT !.stage = "failing"])
    /\ UNCHANGED <<server, vault, current, page, up, logout, cut, out, left>>

\* OSError: the connection fails or the timeout passes, whatever the service does.
GiveUp(a) ==
    /\ worker[a].stage = "waiting"
    /\ Moves(a, [worker[a] EXCEPT !.stage = "failing"])
    /\ UNCHANGED <<server, vault, current, page, up, logout, cut, out, left>>

\* An answer that breaks off or is not HTTP raises what is neither OSError nor AuthError.
Break(a) ==
    /\ worker[a].stage = "waiting"
    /\ Abandons(a)
    /\ UNCHANGED <<server, vault, current, page, up, logout, out, left>>

\* A refused token stays where it is.
MutantFail(a) ==
    /\ worker[a].stage = "failing"
    /\ Moves(a, Idle)
    /\ UNCHANGED <<server, vault, current, page, up, logout, cut, out, left>>

\* AuthError: a refresh empties the vault, unless deleting fails; a sign-in leaves it.
Fail(a) ==
    /\ worker[a].stage = "failing"
    /\ \/ /\ Moves(a, Idle) /\ UNCHANGED cut
          /\ vault' = IF CallOf(a).kind = "refresh" THEN 0 ELSE vault
       \/ Abandons(a) /\ UNCHANGED vault
    /\ UNCHANGED <<server, current, page, up, logout, out, left>>

\* _save: the vault, which may fail, then the pair in memory.
Store(a) ==
    /\ worker[a].stage = "storing"
    /\ \/ /\ Moves(a, [worker[a] EXCEPT !.stage = "adopting"])
          /\ vault' = worker[a].pair /\ UNCHANGED cut
       \/ Abandons(a) /\ UNCHANGED vault
    /\ UNCHANGED <<server, current, page, up, logout, out, left>>

Adopt(a) ==
    /\ worker[a].stage = "adopting"
    /\ Moves(a, IF a \in Desktop THEN [worker[a] EXCEPT !.stage = "done"] ELSE Idle)
    /\ current' = IF a \in Desktop THEN [token |-> worker[a].pair, fresh |-> TRUE] ELSE current
    /\ UNCHANGED <<server, vault, page, up, logout, cut, out, left>>

\* _signed_in, on the UI thread.
SignedIn(a) ==
    /\ worker[a].stage = "done" /\ logout = 0
    /\ Moves(a, Idle) /\ page' = "dashboard"
    /\ UNCHANGED <<server, vault, current, up, logout, cut, out, left>>

Authenticate ==
    /\ page = "login" /\ logout = 0 /\ worker["login"].stage = "idle"
    /\ Send("login", 0, 0) /\ Moves("login", Waits)
    /\ out' = FALSE
    /\ UNCHANGED <<live, parent, vault, current, page, up, logout, cut, left>>

AccessExpires ==
    /\ current.fresh
    /\ current' = [current EXCEPT !.fresh = FALSE]
    /\ UNCHANGED <<server, vault, page, up, logout, worker, cut, out, left>>

StartRuntime ==
    /\ page = "dashboard" /\ logout = 0 /\ ~up
    /\ up' = TRUE
    /\ UNCHANGED <<server, vault, current, page, logout, worker, cut, out, left>>

\* Each attempt to connect.
Connect ==
    /\ up /\ worker["runtime"].stage = "idle"
    /\ Moves("runtime", [Idle EXCEPT !.stage = "reading"])
    /\ UNCHANGED <<server, vault, current, page, up, logout, cut, out, left>>

\* The runtime ends, and with it what it was at.
RuntimeEnds ==
    /\ up' = FALSE /\ Abandons("runtime")

StopRuntime ==
    /\ up /\ logout = 0
    /\ RuntimeEnds
    /\ UNCHANGED <<server, vault, current, page, logout, out, left>>

\* The desktop is signed out with no worker about.
Alone == \A a \in Desktop : worker[a].stage = "idle"

\* The runtime goes on.
MutantLogout ==
    /\ page = "dashboard" /\ logout = 0
    /\ UNCHANGED <<up, worker, cut>>
    /\ \/ /\ current.token = 0
          /\ vault' = 0 /\ page' = "login" /\ out' = Alone /\ left' = 0
          /\ UNCHANGED <<calls, logout>>
       \/ current.token = 0 /\ UNCHANGED <<vault, page, out, left, calls, logout>>
       \/ /\ current.token # 0
          /\ Send("logout", current.token, IF current.fresh THEN current.token ELSE 0) /\ logout' = Len(calls) + 1
          /\ UNCHANGED <<vault, page, out, left>>
    /\ UNCHANGED <<live, parent, current>>

\* _logout: the runtime is stopped, then the pair in memory is sent.  Without one the
\* vault is emptied, or fails to be.
Logout ==
    /\ page = "dashboard" /\ logout = 0
    /\ RuntimeEnds
    /\ \/ /\ current.token = 0
          /\ vault' = 0 /\ page' = "login" /\ out' = Alone /\ left' = 0
          /\ UNCHANGED <<calls, logout>>
       \/ current.token = 0 /\ UNCHANGED <<vault, page, out, left, calls, logout>>
       \/ /\ current.token # 0
          /\ Send("logout", current.token, IF current.fresh THEN current.token ELSE 0) /\ logout' = Len(calls) + 1
          /\ UNCHANGED <<vault, page, out, left>>
    /\ UNCHANGED <<live, parent, current>>

\* Answered, refused or lost: the device forgets, though an exception that is no
\* AuthError leaves the page where it is.  Or the vault fails, and all stays.
LoggedOut ==
    /\ logout # 0 /\ logout' = 0
    /\ \/ /\ vault' = 0 /\ current' = NoPair /\ page' = "login" /\ out' = Alone
          /\ left' = IF calls[logout].stage = "granted" THEN vault ELSE 0
          /\ UNCHANGED cut
       \/ vault' = 0 /\ current' = NoPair /\ UNCHANGED <<page, out, left, cut>>
       \/ cut' = cut \cup {calls[logout].token} /\ UNCHANGED <<vault, current, page, out, left>>
    /\ UNCHANGED <<server, up, worker>>

\* The machine or the pilot's session ends, and the desktop starts again: what was in
\* memory is gone, the vault is not, and the service goes on with what it was sent.
Restart ==
    /\ worker' = Fresh /\ current' = NoPair /\ page' = "login" /\ up' = FALSE /\ logout' = 0
    /\ cut' = cut \cup Presented(Workers) \cup (IF logout = 0 THEN {} ELSE {calls[logout].token})
    /\ UNCHANGED <<server, vault, out, left>>

Next ==
    \/ \E i \in DOMAIN calls : CheckRefresh(i) \/ CommitRefresh(i) \/ Login(i) \/ RefuseLogin(i)
                               \/ Revoke(i) \/ Lose(i)
    \/ \E a \in Workers : Read(a) \/ Answer(a) \/ GiveUp(a) \/ Break(a) \/ Fail(a) \/ Store(a)
                          \/ Adopt(a) \/ SignedIn(a)
    \/ Authenticate \/ AccessExpires \/ Logout \/ LoggedOut
    \/ StartRuntime \/ Connect \/ StopRuntime \/ Restart

Spec == Init /\ [][Next]_vars

------------------------------------------------------------------------------
(* Properties.                                                             *)

\* docs/accounts.md: every successful refresh revokes the old token, and a
\* replayed one fails.  Where the database locks rows, no token is ever exchanged
\* twice, however often and from however many processes it is presented at once.
TokenAcceptedOnce ==
    \A t \in DOMAIN parent :
        /\ Cardinality({u \in DOMAIN parent : parent[u] = t}) =< 1
        /\ t \in live => \A u \in DOMAIN parent : parent[u] # t

\* The token in the vault is accepted, or a worker or a sign-out has just presented
\* this very token, or its exchange was cut short by a kill, an exception that is no
\* AuthError or a failing vault.  Nothing else leaves a dead one: no refusal, lost
\* request or answer, timeout, sign-in beside a restore, or runtime beside either.
StoredIsUsable ==
    \/ vault \in {0} \cup live \cup cut
    \/ vault \in Presented(Workers)
    \/ logout # 0 /\ calls[logout].token = vault

\* Once signed out, with no sign-in or restore under way, the device holds no
\* credential, and neither the runtime it stopped nor starting again brings one back.
SignedOutStays == out => vault = 0 /\ current = NoPair /\ ~up

\* docs/accounts.md: signing out revokes the current refresh credential, the one
\* that it removes from the vault.
SigningOutRevokes == out => left \notin live

==============================================================================
