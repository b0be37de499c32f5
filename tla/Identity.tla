------------------------------ MODULE Identity ------------------------------
(***************************************************************************)
(* The identity service: registration and its verification e-mail, login   *)
(* and refresh, forgotten and changed passwords, updates and deletion of   *)
(* accounts, and the authentication of protected requests, which asks the  *)
(* user cache before the users table.                                      *)
(*                                                                         *)
(* A request carries out one operation, one statement or transaction or    *)
(* Redis command per step, and other requests run between any two of them. *)
(* A transaction may be refused (a unique key, a lost connection), an      *)
(* e-mail may not be sent: the first ends the request, the second is only  *)
(* logged.  Usernames follow the e-mail addresses here: both are unique    *)
(* columns that an update writes together.  JWTs are the sets of those     *)
(* that have been issued and have not expired.  Requests that fail the     *)
(* validation of their fields end before the first step.                   *)
(***************************************************************************)
EXTENDS Integers, FiniteSets

CONSTANTS
    Requests,           \* numbered in the order in which they arrive
    Users,              \* ids that users may get
    ResetTokens,        \* ids that password reset tokens may get
    Workloads,          \* Workloads[w]: [start, requests, operations]
    None

VARIABLES
    users,              \* users[u]: None or [email, role, password, verified, deleted]
    verification,       \* verification[u]: the token of u's registration, "valid", "used", "expired" or None
    reset,              \* reset[k]: None or [user, state]
    inbox,              \* the tokens that arrived by e-mail
    access, refresh,    \* the JWTs: <<user, role>>, and user
    cache, suspect,     \* see RedisCache: the role of a user
    workload,
    op, pc, seen,       \* of each request: the operation, the next step, what it has read
    \* history
    lost,               \* tokens whose e-mail was not sent
    uses,               \* uses[k]: how often k has set a password
    overlapped          \* tokens that two requests had read before either marked them used

INSTANCE RedisCache WITH Keys <- Users, Nil <- None

tables   == <<users, verification, reset>>
tokens   == <<inbox, access, refresh>>
caches   == <<cache, suspect>>
requests == <<workload, op, pc, seen>>
history  == <<lost, uses, overlapped>>
vars     == <<tables, tokens, caches, requests, history>>

Init ==
    \E w \in DOMAIN Workloads :
        LET start == Workloads[w].start
        IN  /\ workload = w
            /\ users = start.users /\ verification = start.verification /\ reset = start.reset
            /\ inbox = start.inbox /\ access = start.access /\ refresh = start.refresh
            /\ CacheInit
            /\ op = [r \in Requests |-> None]
            /\ pc = [r \in Requests |-> "idle"]
            /\ seen = [r \in Requests |-> None]
            /\ lost = {} /\ overlapped = {}
            /\ uses = [k \in ResetTokens |-> 0]

-----------------------------------------------------------------------------
(* The repository *)

\* get_user_by_id, get_user_by_username and get_user_by_email skip the rows
\* of deleted users.
get_user_by_id(u)    == users[u] # None /\ ~users[u].deleted
get_user_by_email(e) == {u \in Users : get_user_by_id(u) /\ users[u].email = e}

\* The unique keys do not skip them.
EmailFree(e, u) == \A v \in Users \ {u} : users[v] # None => users[v].email # e

create_user(u, o) ==
    /\ users[u] = None /\ \A v \in Users : v < u => users[v] # None
    /\ EmailFree(o.email, u)
    /\ users' = [users EXCEPT ![u] = [email |-> o.email, role |-> o.role, password |-> o.password,
                                      verified |-> FALSE, deleted |-> FALSE]]

create_verification_token(u) == verification' = [verification EXCEPT ![u] = "valid"]

get_valid_verification_token(u) == verification[u] = "valid"

mark_token_used(u) == verification' = [verification EXCEPT ![u] = "used"]

verify_user_email(u) == users' = [users EXCEPT ![u].verified = TRUE]

\* email_verified stays as it is.
update_user(u, o) ==
    /\ get_user_by_id(u)
    /\ EmailFree(o.email, u)
    /\ users' = [users EXCEPT ![u].email = o.email, ![u].role = o.role]

delete_user(u) ==
    /\ get_user_by_id(u)
    /\ users' = [users EXCEPT ![u].deleted = TRUE]

create_password_reset_token(k, u) ==
    /\ reset[k] = None
    /\ \A j \in ResetTokens : j < k => reset[j] # None
    /\ reset' = [reset EXCEPT ![k] = [user |-> u, state |-> "valid"]]

get_valid_password_reset_token(k) == reset[k] # None /\ reset[k].state = "valid"

\* Seeded defect: the token stays valid.
mark_reset_token_used_Never(k) == UNCHANGED reset

mark_reset_token_used(k) == reset' = [reset EXCEPT ![k].state = "used"]

\* By id alone: a deleted user's row is written too.
update_user_password(u, password) == users' = [users EXCEPT ![u].password = password]

-----------------------------------------------------------------------------
(* How a request proceeds *)

Goto(r, o, step, read) ==
    /\ op' = [op EXCEPT ![r] = o]
    /\ pc' = [pc EXCEPT ![r] = step]
    /\ seen' = [seen EXCEPT ![r] = read]
    /\ UNCHANGED workload

Finish(r)         == Goto(r, None, "done", None)
Proceed(r, step)  == Goto(r, op[r], step, seen[r])
At(r, name, step) == pc[r] = step /\ op[r].op = name

\* Request r arrives and asks for o.
Arrives(r, o) ==
    /\ pc[r] = "idle"
    /\ r <= Workloads[workload].requests /\ \A q \in Requests : q < r => pc[q] # "idle"
    /\ o \in Workloads[workload].operations

Operations == UNION {Workloads[w].operations : w \in DOMAIN Workloads}

\* A first step that only reads: the operation goes on to the step if ok.
Begin(r, name, ok(_), step) ==
    /\ \E o \in Operations :
        /\ o.op = name /\ Arrives(r, o)
        /\ IF ok(o) THEN Goto(r, o, step, None) ELSE Finish(r)
    /\ UNCHANGED <<tables, tokens, caches, history>>

\* with_transaction rolls back.
rollback(r) ==
    /\ pc[r] = "commit"
    /\ Finish(r)
    /\ UNCHANGED <<tables, tokens, caches, history>>

\* EmailService::send_email of the token seen[r].  A process that dies after
\* the commit does not send it either.
send_email(r) ==
    /\ pc[r] = "mail"
    /\ \/ inbox' = inbox \cup {seen[r]} /\ UNCHANGED lost
       \/ lost' = lost \cup {seen[r]} /\ UNCHANGED inbox
    /\ Finish(r)
    /\ UNCHANGED <<tables, access, refresh, caches, uses, overlapped>>

-----------------------------------------------------------------------------
(* Registration, login *)

create_user_account(r) ==
    \/ Begin(r, "create_user_account", LAMBDA o : TRUE, "commit")
    \/ /\ At(r, "create_user_account", "commit")
       /\ \E u \in Users :
            /\ create_user(u, op[r])
            /\ create_verification_token(u)
            /\ Goto(r, op[r], "mail", <<"verify", u>>)
       /\ UNCHANGED <<reset, tokens, caches, history>>

\* Seeded defect: the token is used up in a transaction of its own, and the
\* one that verifies the user is lost.
verify_email_Halfway(r) ==
    \/ Begin(r, "verify_email",
             LAMBDA o : <<"verify", o.id>> \in inbox /\ get_valid_verification_token(o.id), "commit")
    \/ /\ At(r, "verify_email", "commit")
       /\ mark_token_used(op[r].id)
       /\ Finish(r)
       /\ UNCHANGED <<users, reset, tokens, caches, history>>

verify_email(r) ==
    \/ Begin(r, "verify_email",
             LAMBDA o : <<"verify", o.id>> \in inbox /\ get_valid_verification_token(o.id), "commit")
    \/ /\ At(r, "verify_email", "commit")
       /\ verify_user_email(op[r].id)
       /\ mark_token_used(op[r].id)
       /\ Finish(r)
       /\ UNCHANGED <<reset, tokens, caches, history>>

generate_access_token(u)   == access' = access \cup {<<u, users[u].role>>}
issue_refresh_token(u)     == refresh' = refresh \cup {u}

login_allowed(u, o) == users[u].verified /\ users[u].password = o.password

login_user(r) ==
    /\ \E o \in Operations :
        /\ o.op = "login_user" /\ Arrives(r, o)
        /\ \/ \E u \in get_user_by_email(o.email) :
                /\ login_allowed(u, o)
                /\ generate_access_token(u)
                /\ issue_refresh_token(u)
           \/ /\ \A u \in get_user_by_email(o.email) : ~login_allowed(u, o)
              /\ UNCHANGED <<access, refresh>>
    /\ Finish(r)
    /\ UNCHANGED <<tables, inbox, caches, history>>

\* A new access token, with the role the row has now.
generate_refresh_token(r) ==
    /\ \E o \in Operations :
        /\ o.op = "generate_refresh_token" /\ Arrives(r, o)
        /\ IF o.id \in refresh /\ get_user_by_id(o.id) THEN generate_access_token(o.id)
           ELSE UNCHANGED access
    /\ Finish(r)
    /\ UNCHANGED <<tables, inbox, refresh, caches, history>>

-----------------------------------------------------------------------------
(* Passwords *)

\* An unknown address is answered like a known one.
forgot_password(r) ==
    \/ /\ \E o \in Operations :
            /\ o.op = "forgot_password" /\ Arrives(r, o)
            /\ \/ \E u \in get_user_by_email(o.email) : Goto(r, o, "commit", u)
               \/ get_user_by_email(o.email) = {} /\ Finish(r)
       /\ UNCHANGED <<tables, tokens, caches, history>>
    \/ /\ At(r, "forgot_password", "commit")
       /\ \E k \in ResetTokens :
            /\ create_password_reset_token(k, seen[r])
            /\ Goto(r, op[r], "mail", <<"reset", k>>)
       /\ UNCHANGED <<users, verification, tokens, caches, history>>

Resetting(r, k) == At(r, "reset_password", "commit") /\ op[r].token = k

reset_password(r) ==
    \/ /\ \E o \in Operations :
            /\ o.op = "reset_password" /\ Arrives(r, o)
            /\ <<"reset", o.token>> \in inbox
            /\ IF get_valid_password_reset_token(o.token) THEN Goto(r, o, "commit", None) ELSE Finish(r)
            /\ overlapped' = IF \E q \in Requests : Resetting(q, o.token)
                             THEN overlapped \cup {o.token} ELSE overlapped
       /\ UNCHANGED <<tables, tokens, caches, lost, uses>>
    \/ /\ At(r, "reset_password", "commit")
       /\ update_user_password(reset[op[r].token].user, op[r].password)
       /\ mark_reset_token_used(op[r].token)
       /\ uses' = [uses EXCEPT ![op[r].token] = @ + 1]
       /\ Finish(r)
       /\ UNCHANGED <<verification, tokens, caches, lost, overlapped>>

-----------------------------------------------------------------------------
(* Protected requests *)

Protected == {"get_user", "update_user_account", "delete_user_account", "change_password"}

\* What get_by_id answers when the cache does not: CurrentUser, or no user.
CurrentRole(u) == IF get_user_by_id(u) THEN users[u].role ELSE None

\* AuthMiddleware::handle and AppState::get_by_id: the access token, the
\* cache, then the row, with which the cache is filled.
authenticate(r) ==
    \/ /\ \E o \in Operations :
            /\ o.op \in Protected /\ Arrives(r, o)
            /\ \/ \E t \in access, role \in get(o.caller) :
                    /\ t[1] = o.caller
                    /\ IF role # None THEN Goto(r, o, "handler", role) ELSE Goto(r, o, "query", None)
               \/ (\A t \in access : t[1] # o.caller) /\ Finish(r)
       /\ UNCHANGED <<tables, tokens, caches, history>>
    \/ /\ pc[r] = "query"
       /\ IF get_user_by_id(op[r].caller) THEN Goto(r, op[r], "fill", CurrentRole(op[r].caller))
          ELSE Finish(r)
       /\ UNCHANGED <<tables, tokens, caches, history>>
    \/ /\ pc[r] = "fill"
       /\ set(op[r].caller, seen[r], CurrentRole(op[r].caller))
       /\ Proceed(r, "handler")
       /\ UNCHANGED <<tables, tokens, history>>

require_access(r) == op[r].id = op[r].caller \/ seen[r] = "Admin"

\* The handler of a protected request, up to its transaction
Handle(r, name, ok, step) ==
    /\ At(r, name, "handler")
    /\ IF ok THEN Proceed(r, step) ELSE Finish(r)
    /\ UNCHANGED <<tables, tokens, caches, history>>

\* Who has access gets the row, who has not an error.
get_user(r) ==
    /\ At(r, "get_user", "handler")
    /\ Finish(r)
    /\ UNCHANGED <<tables, tokens, caches, history>>

update_user_account(r) ==
    \/ Handle(r, "update_user_account", require_access(r), "commit")
    \/ /\ At(r, "update_user_account", "commit")
       /\ update_user(op[r].id, op[r])
       /\ Proceed(r, "evict")
       /\ UNCHANGED <<verification, reset, tokens, caches, history>>

\* Seeded defect: the cache is not told that the user is gone.
delete_user_account_NoEvict(r) ==
    \/ Handle(r, "delete_user_account", require_access(r), "commit")
    \/ /\ At(r, "delete_user_account", "commit")
       /\ delete_user(op[r].id)
       /\ Finish(r)
       /\ UNCHANGED <<verification, reset, tokens, caches, history>>

delete_user_account(r) ==
    \/ Handle(r, "delete_user_account", require_access(r), "commit")
    \/ /\ At(r, "delete_user_account", "commit")
       /\ delete_user(op[r].id)
       /\ Proceed(r, "evict")
       /\ UNCHANGED <<verification, reset, tokens, caches, history>>

change_password(r) ==
    \/ Handle(r, "change_password",
              /\ get_user_by_id(op[r].id) /\ users[op[r].id].password = op[r].current
              /\ op[r].password # op[r].current,
              "commit")
    \/ /\ At(r, "change_password", "commit")
       /\ update_user_password(op[r].id, op[r].password)
       /\ Proceed(r, "evict")
       /\ UNCHANGED <<verification, reset, tokens, caches, history>>

\* The DEL that ends these three
evict_user(r) ==
    /\ pc[r] = "evict"
    /\ evict(op[r].id)
    /\ Finish(r)
    /\ UNCHANGED <<tables, tokens, history>>

-----------------------------------------------------------------------------
(* Time: tokens, JWTs and cache entries run out. *)

ExpireToken ==
    /\ \/ \E u \in Users :
            /\ get_valid_verification_token(u)
            /\ verification' = [verification EXCEPT ![u] = "expired"]
            /\ UNCHANGED reset
       \/ \E k \in ResetTokens :
            /\ get_valid_password_reset_token(k)
            /\ reset' = [reset EXCEPT ![k].state = "expired"]
            /\ UNCHANGED verification
    /\ UNCHANGED <<users, tokens, caches, requests, history>>

ExpireAccess(t) ==
    /\ t \in access
    /\ access' = access \ {t}
    /\ UNCHANGED <<tables, inbox, refresh, caches, requests, history>>

ExpireRefresh(u) ==
    /\ u \in refresh
    /\ refresh' = refresh \ {u}
    /\ UNCHANGED <<tables, inbox, access, caches, requests, history>>

ExpireEntry(u) == expire(u) /\ UNCHANGED <<tables, tokens, requests, history>>

Request(r) ==
    \/ create_user_account(r) \/ verify_email(r) \/ login_user(r) \/ generate_refresh_token(r)
    \/ forgot_password(r) \/ reset_password(r)
    \/ authenticate(r)
    \/ get_user(r) \/ update_user_account(r) \/ delete_user_account(r) \/ change_password(r)
    \/ evict_user(r) \/ send_email(r) \/ rollback(r)

Roles == {"Buyer", "Admin"}

Next ==
    \/ \E r \in Requests : Request(r)
    \/ ExpireToken
    \/ \E t \in Users \X Roles : ExpireAccess(t)
    \/ \E u \in Users : ExpireRefresh(u)
    \/ \E u \in Users : ExpireEntry(u)

\* JWTs and cache entries do run out: exp is checked, set_ex sets a time to
\* live.
Fairness ==
    /\ \A t \in Users \X Roles : WF_vars(ExpireAccess(t))
    /\ \A u \in Users : WF_vars(ExpireEntry(u))

Spec == Init /\ [][Next]_vars /\ Fairness

-----------------------------------------------------------------------------
(* Properties *)

Evicting(u) == \E r \in Requests : pc[r] = "evict" /\ op[r].id = u

\* A cached CurrentUser has the role of the user's row, and no deleted user
\* has an entry, unless the request that changed the row is about to delete
\* the entry or the entry is suspect: its DEL was lost, or get_by_id filled it
\* with what it had read before the change.
CachedUserIsCurrent ==
    \A u \in Users \ suspect : cache[u] \in {None, CurrentRole(u)} \/ Evicting(u)

\* What somebody may still do with rights that the row no longer gives: the
\* cached CurrentUser, and the claims of access tokens, which the other
\* services believe without asking.
StaleRights(u) ==
    \/ cache[u] \notin {None, CurrentRole(u)}
    \/ \E t \in access : t[1] = u /\ t[2] # CurrentRole(u)

\* Rights that the row no longer gives come to an end, whatever evictions are
\* lost and whatever is filled in late: with the time to live of the entry and
\* the expiry of the access token.
StaleRightsEnd == \A u \in Users : StaleRights(u) ~> ~StaleRights(u)

\* An account that is not verified can still become so: its token is valid,
\* and has arrived or is about to be sent.  The two ways to be stranded (with
\* the address taken, since no operation sends another token and the unique
\* keys keep it) are an e-mail that was not sent and a token that ran out.
UnverifiedCanVerify ==
    \A u \in Users :
        (users[u] # None /\ ~users[u].verified) =>
            \/ <<"verify", u>> \in lost \/ verification[u] = "expired"
            \/ /\ get_valid_verification_token(u)
               /\ \/ <<"verify", u>> \in inbox
                  \/ \E r \in Requests : pc[r] = "mail" /\ seen[r] = <<"verify", u>>

\* A reset token sets a password once, unless two requests read it before
\* either had marked it used: the transaction does not look at used_at again.
ResetTokenUsedOnce == \A k \in ResetTokens \ overlapped : uses[k] <= 1

=============================================================================
