------------------------------ MODULE Accounts -------------------------------
(***************************************************************************)
(* Accounts, API keys and dashboard sessions of the relay: the store of    *)
(* src/backend/internal/store and the handlers of src/backend/main.go.     *)
(* The database outlives the relay; requests and tunnels do not.  A        *)
(* handler's SQL statements are steps of their own.                        *)
(*                                                                         *)
(* A relay is hosted (people sign up) or serves a single user, whose       *)
(* credentials are in its environment: an operator's, or, on a local       *)
(* relay, the ones the CLI made up (LocalAccess).                          *)
(***************************************************************************)
EXTENDS Naturals, FiniteSets

CONSTANTS
    Email, Password,
    UserId, NoUser,     \* randomHex(16)
    Key, NoKey,         \* an API key, its hash and the id of its row
    Client,             \* browsers and tunnel workers, one request at a time each
    None                \* no credentials

ASSUME AccountsAssumption ==
    NoUser \notin UserId /\ NoKey \notin Key /\ None \notin Email \X Password

VARIABLES
    kind,       \* "hosted", "single" or "local"
    relay,      \* "down" or "up"
    env,        \* ROXEY_ADMIN_EMAIL and ROXEY_ADMIN_PASSWORD of the running relay
    users,      \* the rows of users
    keys,       \* the rows of api_keys
    spent,      \* keys that were ever handed out
    session,    \* [Client -> the user its session cookie names]
    request,    \* [Client -> the request the relay handles for it]
    tunnels     \* the tunnels of ListActive: key and user

database == <<users, keys, spent>>
accountVars == <<kind, relay, env, database, session, request, tunnels>>

Idle == [at |-> "idle"]

AccountsInit ==
    /\ kind \in {"hosted", "single", "local"}
    /\ relay = "down" /\ env = None
    /\ users = {} /\ keys = {} /\ spent = {}
    /\ session = [c \in Client |-> NoUser]
    /\ request = [c \in Client |-> Idle]
    /\ tunnels = {}

-----------------------------------------------------------------------------
(* The store.                                                              *)

FreshIds == UserId \ {u.id : u \in users}
FreshKeys == Key \ spent

WithEmail(email) == {u \in users : u.email = email}

(* Mutant: nothing keeps two rows from having one address.                 *)
CreateUserAnyway(id, email, password) ==
    users \cup {[id |-> id, email |-> email, password |-> password]}

(* INSERT INTO users: the address is UNIQUE.                               *)
CreateUser(id, email, password) ==
    IF WithEmail(email) = {}
    THEN users \cup {[id |-> id, email |-> email, password |-> password]}
    ELSE users

(* Mutant: the row is replaced by a new one.                               *)
SeedSingleUserReplaces(id, email, password) ==
    (users \ WithEmail(email)) \cup {[id |-> id, email |-> email, password |-> password]}

(* The account of the environment is created, or gets its password.        *)
SeedSingleUser(id, email, password) ==
    IF WithEmail(email) = {}
    THEN CreateUser(id, email, password)
    ELSE {IF u.email = email THEN [u EXCEPT !.password = password] ELSE u : u \in users}

HasAccount(email, password) ==
    \E u \in users : u.email = email /\ u.password = password

(* CreateAPIKey for a user, by a request or by the CLI.                    *)
Issue(k, user) ==
    /\ keys' = keys \cup {[key |-> k, owner |-> user]}
    /\ spent' = spent \cup {k}

-----------------------------------------------------------------------------
(* The process.                                                            *)

(* main: the account is seeded before the relay listens.                   *)
BootSingle(email, password) ==
    /\ relay = "down"
    /\ \E id \in FreshIds : users' = SeedSingleUser(id, email, password)
    /\ env' = <<email, password>>
    /\ relay' = "up"
    /\ UNCHANGED <<kind, keys, spent, session, request, tunnels>>

BootHosted ==
    /\ kind = "hosted"
    /\ relay = "down"
    /\ relay' = "up"
    /\ UNCHANGED <<kind, env, database, session, request, tunnels>>

Crash ==
    /\ relay = "up"
    /\ relay' = "down"
    /\ request' = [c \in Client |-> Idle]
    /\ tunnels' = {}
    /\ UNCHANGED <<kind, env, database, session>>

-----------------------------------------------------------------------------
(* Handlers of the dashboard.                                              *)

Ready(c) == relay = "up" /\ request[c] = Idle

SignupCheck(c, email, password) ==
    /\ kind = "hosted"
    /\ Ready(c)
    /\ WithEmail(email) = {}
    /\ request' = [request EXCEPT ![c] =
                      [at |-> "checked", email |-> email, password |-> password]]
    /\ UNCHANGED <<kind, relay, env, database, session, tunnels>>

(* The password is hashed in between; a second INSERT fails.               *)
SignupCreate(c) ==
    /\ request[c].at = "checked"
    /\ \E id \in FreshIds :
          /\ users' = CreateUser(id, request[c].email, request[c].password)
          /\ session' = IF users' = users THEN session ELSE [session EXCEPT ![c] = id]
    /\ request' = [request EXCEPT ![c] = Idle]
    /\ UNCHANGED <<kind, relay, env, keys, spent, tunnels>>

Login(c, u) ==
    /\ Ready(c)
    /\ u \in users
    /\ session' = [session EXCEPT ![c] = u.id]
    /\ UNCHANGED <<kind, relay, env, database, request, tunnels>>

(* The cookie expires after a week in the browser and on the relay alike.  *)
Logout(c) ==
    /\ session[c] # NoUser
    /\ session' = [session EXCEPT ![c] = NoUser]
    /\ UNCHANGED <<kind, relay, env, database, request, tunnels>>

CreateAPIKey(c) ==
    /\ Ready(c)
    /\ session[c] # NoUser
    /\ \E k \in FreshKeys : Issue(k, session[c])
    /\ UNCHANGED <<kind, relay, env, users, session, request, tunnels>>

RevokeAPIKey(c, row) ==
    /\ Ready(c)
    /\ row \in keys
    /\ row.owner = session[c]
    /\ keys' = keys \ {row}
    /\ UNCHANGED <<kind, relay, env, users, spent, session, request, tunnels>>

-----------------------------------------------------------------------------
(* A tunnel's handshake.  ValidateAPIKey is a SELECT and an UPDATE, which  *)
(* succeeds on no rows as well: a key revoked in between is let in.        *)

ValidateAPIKey(c, row) ==
    /\ Ready(c)
    /\ row \in keys
    /\ request' = [request EXCEPT ![c] =
                      [at |-> "selected", key |-> row.key, owner |-> row.owner]]
    /\ UNCHANGED <<kind, relay, env, database, session, tunnels>>

Admit(c) ==
    /\ request[c].at = "selected"
    /\ tunnels' = tunnels \cup {[key |-> request[c].key, owner |-> request[c].owner]}
    /\ request' = [request EXCEPT ![c] = Idle]
    /\ UNCHANGED <<kind, relay, env, database, session>>

Drop(t) ==
    /\ t \in tunnels
    /\ tunnels' = tunnels \ {t}
    /\ UNCHANGED <<kind, relay, env, database, session, request>>

AccountsNext ==
    \/ BootHosted
    \/ kind = "single" /\ \E e \in Email, p \in Password : BootSingle(e, p)
    \/ Crash
    \/ \E c \in Client :
          \/ \E e \in Email, p \in Password : SignupCheck(c, e, p)
          \/ SignupCreate(c)
          \/ \E u \in users : Login(c, u)
          \/ Logout(c) \/ CreateAPIKey(c) \/ Admit(c)
          \/ \E row \in keys : RevokeAPIKey(c, row) \/ ValidateAPIKey(c, row)
    \/ \E t \in tunnels : Drop(t)

-----------------------------------------------------------------------------
(* However signups for one address interleave, it has one account: both    *)
(* may find it free (main.go:302), the second INSERT fails.                *)
OneAccountPerEmail == \A u, v \in users : u.email = v.email => u = v

(* Whatever restarts and however the account is seeded, a key, a session   *)
(* and a tunnel belong to an account there is: there are no foreign keys   *)
(* in the schema, and no handler but /api/me looks the user up.            *)
EverythingHasAnAccount ==
    LET ids == {u.id : u \in users}
    IN /\ \A row \in keys \cup tunnels : row.owner \in ids
       /\ \A c \in Client : session[c] \in ids \cup {NoUser}
=============================================================================
