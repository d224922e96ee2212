----------------------------- MODULE LocalAccess -----------------------------
(***************************************************************************)
(* How up gets into the local relay.  The entry of config.json for the TLD *)
(* is shared by the daemon, which makes up the relay's credentials and     *)
(* keeps them there (RelayEnv, src/cli/internal/localrelay), and by every  *)
(* up, which logs in with them, keeps an API key there and, once it is     *)
(* through, replaces the entry (src/cli/main.go).  Nobody locks the file.  *)
(***************************************************************************)
EXTENDS Accounts

CONSTANT Up     \* running `up` commands

VARIABLES
    entry,      \* ServerConfig of the TLD: credentials and key
    starter,    \* RelayEnv and the start of the relay, by the daemon
    up          \* [Up -> where it is]

vars == <<accountVars, entry, starter, up>>

Away == [at |-> "away"]

Init ==
    /\ AccountsInit
    /\ entry = [cred |-> None, key |-> NoKey]
    /\ starter = Away
    /\ up = [p \in Up |-> Away]

-----------------------------------------------------------------------------
(* The daemon, one start at a time: its supervisor holds the mutex.        *)

Unused == {e \in Email : WithEmail(e) = {}}

(* Mutant: the address is kept, the password is made up at every start.    *)
RelayEnvNewPassword ==
    /\ kind = "local" /\ relay = "down" /\ starter = Away
    /\ \E p \in Password :
          IF entry.cred # None
          THEN starter' = [at |-> "ready", cred |-> <<entry.cred[1], p>>]
          ELSE \E e \in Unused :
                  starter' = [at |-> "made", cred |-> <<e, p>>, key |-> entry.key]
    /\ UNCHANGED <<accountVars, entry, up>>

RelayEnv ==
    /\ kind = "local" /\ relay = "down" /\ starter = Away
    /\ IF entry.cred # None
       THEN starter' = [at |-> "ready", cred |-> entry.cred]
       ELSE \E e \in Unused, p \in Password :
               starter' = [at |-> "made", cred |-> <<e, p>>, key |-> entry.key]
    /\ UNCHANGED <<accountVars, entry, up>>

(* SetServer, with the key that was read.                                  *)
KeepCredentials ==
    /\ starter.at = "made"
    /\ entry' = [cred |-> starter.cred, key |-> starter.key]
    /\ starter' = [at |-> "ready", cred |-> starter.cred]
    /\ UNCHANGED <<accountVars, up>>

Start ==
    /\ starter.at = "ready"
    /\ BootSingle(starter.cred[1], starter.cred[2])
    /\ starter' = Away
    /\ UNCHANGED <<entry, up>>

(* The daemon dies, or cannot start the relay.                             *)
StartFails ==
    /\ starter # Away
    /\ starter' = Away
    /\ UNCHANGED <<accountVars, entry, up>>

-----------------------------------------------------------------------------
(* up, from ensureLocalRelay on.                                           *)

At(p, s) == up' = [up EXCEPT ![p] = s]

(* HealthOK; the relay may die any time after that.                        *)
RelayIsHealthy(p) ==
    /\ kind = "local" /\ relay = "up" /\ up[p] = Away
    /\ At(p, [at |-> "healthy"])
    /\ UNCHANGED <<accountVars, entry, starter>>

FindKey(p) ==
    /\ up[p].at = "healthy"
    /\ IF entry.key # NoKey
       THEN At(p, [at |-> "through", key |-> entry.key])
       ELSE At(p, [at |-> "needsKey", saw |-> entry])
    /\ UNCHANGED <<accountVars, entry, starter>>

(* LoginAndCreateKey reads the entry again.                                *)
LogIn(p) ==
    /\ up[p].at = "needsKey" /\ relay = "up"
    /\ \E u \in users :
          /\ entry.cred = <<u.email, u.password>>
          /\ At(p, [at |-> "loggedIn", saw |-> up[p].saw, user |-> u.id])
    /\ UNCHANGED <<accountVars, entry, starter>>

MakeKey(p) ==
    /\ up[p].at = "loggedIn" /\ relay = "up"
    /\ \E k \in FreshKeys :
          /\ Issue(k, up[p].user)
          /\ At(p, [at |-> "hasKey", saw |-> up[p].saw, key |-> k])
    /\ UNCHANGED <<kind, relay, env, users, session, request, tunnels, entry, starter>>

KeepKey(p) ==
    /\ up[p].at = "hasKey"
    /\ entry' = [cred |-> up[p].saw.cred, key |-> up[p].key]
    /\ At(p, [at |-> "through", key |-> up[p].key])
    /\ UNCHANGED <<accountVars, starter>>

(* cmdUp writes the entry anew, with the key and without credentials.      *)
ReplaceEntry(p) ==
    /\ up[p].at = "through"
    /\ entry' = [cred |-> None, key |-> up[p].key]
    /\ At(p, Away)
    /\ UNCHANGED <<accountVars, starter>>

(* A call fails, as when there are no credentials, or up is interrupted.   *)
UpFails(p) ==
    /\ up[p] # Away
    /\ At(p, Away)
    /\ UNCHANGED <<accountVars, entry, starter>>

Next ==
    \/ AccountsNext /\ UNCHANGED <<entry, starter, up>>
    \/ RelayEnv \/ KeepCredentials \/ Start \/ StartFails
    \/ \E p \in Up :
          \/ RelayIsHealthy(p) \/ FindKey(p) \/ LogIn(p) \/ MakeKey(p)
          \/ KeepKey(p) \/ ReplaceEntry(p) \/ UpFails(p)

Spec == Init /\ [][Next]_vars

-----------------------------------------------------------------------------
(* Hazard: the daemon and several commands overwrite each other's entry    *)
(* while relays die and start, and a relay is seeded anew at each start.   *)
(* A single-user relay's account opens with the password it was started    *)
(* with and no other ("env wins on restart", README.md:427); on a local    *)
(* one so do the credentials on file, and a key on file opens tunnels, or  *)
(* somebody revoked it.                                                    *)
CredentialsWork ==
    relay = "up" =>
        /\ kind # "hosted" => {u.password : u \in WithEmail(env[1])} = {env[2]}
        /\ kind = "local" =>
              /\ entry.cred # None => HasAccount(entry.cred[1], entry.cred[2])
              /\ entry.key \in {NoKey} \cup spent

(* The CLI's credentials are created "on first use" (ensure.go:192-193)    *)
(* and single-user mode "seeds one account" (README.md:427).               *)
OneAdminAccount == kind = "local" => Cardinality(users) <= 1
=============================================================================
