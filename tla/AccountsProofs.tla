--------------------------- MODULE AccountsProofs ---------------------------
(* Proofs about Accounts and LocalAccess, for any number of clients, ups,  *)
(* accounts and keys.                                                      *)
EXTENDS LocalAccess, TLAPS

Ids == {u.id : u \in users}

Cred == Email \X Password
Entry == [cred : Cred \cup {None}, key : Key \cup {NoKey}]

TypeOK ==
    /\ kind \in {"hosted", "single", "local"}
    /\ relay \in {"down", "up"}
    /\ env \in Cred \cup {None}
    /\ users \subseteq [id : UserId, email : Email, password : Password]
    /\ keys \subseteq [key : Key, owner : UserId]
    /\ spent \subseteq Key
    /\ session \in [Client -> UserId \cup {NoUser}]
    /\ request \in [Client -> {Idle}
            \cup [at : {"checked"}, email : Email, password : Password]
            \cup [at : {"selected"}, key : Key, owner : UserId]]
    /\ tunnels \subseteq [key : Key, owner : UserId]

UpState ==
    {Away} \cup [at : {"healthy"}]
    \cup [at : {"needsKey"}, saw : Entry]
    \cup [at : {"loggedIn"}, saw : Entry, user : UserId]
    \cup [at : {"hasKey"}, saw : Entry, key : Key]
    \cup [at : {"through"}, key : Key]

FileTypeOK ==
    /\ entry \in Entry
    /\ starter \in {Away}
            \cup [at : {"made"}, cred : Cred, key : Key \cup {NoKey}]
            \cup [at : {"ready"}, cred : Cred]
    /\ up \in [Up -> UpState]

-----------------------------------------------------------------------------
(* What a request or an up holds on to has an account as well.             *)
HeldHasAnAccount ==
    /\ \A c \in Client : request[c].at = "selected" => request[c].owner \in Ids
    /\ \A p \in Up : up[p].at = "loggedIn" => up[p].user \in Ids

(* Only a hosted relay has signups; the others have the account of their   *)
(* environment, with its password.                                         *)
EnvironmentWorks ==
    /\ \A c \in Client : request[c].at = "checked" => kind = "hosted"
    /\ relay = "up" /\ kind # "hosted" =>
          {u.password : u \in WithEmail(env[1])} = {env[2]}

(* Nothing but a local relay touches the entry, and it starts one at a     *)
(* time, while it is down.                                                 *)
OnlyLocal ==
    /\ kind # "local" => entry.cred = None /\ starter = Away
    /\ kind # "local" => \A p \in Up : up[p] = Away
    /\ starter # Away => relay = "down"

Opens(cred) == HasAccount(cred[1], cred[2])
Agrees(cred) == \A u \in users : u.email = cred[1] => u.password = cred[2]

(* No credentials that are kept or about to be seeded contradict an        *)
(* account: a seeding changes no password.                                 *)
CredentialsAgree ==
    /\ entry.cred # None => Agrees(entry.cred)
    /\ starter.at = "made" => WithEmail(starter.cred[1]) = {}
    /\ starter.at = "ready" => Agrees(starter.cred)

(* Credentials on file open an account, or are about to.                   *)
EntryOpens ==
    /\ relay = "up" /\ entry.cred # None => Opens(entry.cred)
    /\ starter.at = "ready" /\ entry.cred \notin {None, starter.cred}
          => Opens(entry.cred)

(* Where an up is once it got in.                                          *)
Later == {"loggedIn", "hasKey", "through"}

(* An entry without a key is the first there was, and stays until somebody *)
(* has logged in with it.  So what an up read before it got its key can be *)
(* written back after it.                                                  *)
UpInv(s) ==
    /\ s.at \in Later /\ entry.key = NoKey =>
          entry.cred # None /\ Opens(entry.cred)
    /\ s.at = "needsKey" =>
          /\ s.saw.key = NoKey
          /\ entry = s.saw \/ s.saw.cred = None \/ Opens(s.saw.cred)
    /\ s.at \in {"loggedIn", "hasKey"} =>
          s.saw.cred = None \/ Opens(s.saw.cred)
    /\ s.at \in {"hasKey", "through"} => s.key \in spent

FirstEntry ==
    /\ starter.at = "made" /\ entry.key = NoKey => entry.cred = None
    /\ starter.at = "made" /\ starter.key = NoKey => entry.key = NoKey
    /\ \A p \in Up : UpInv(up[p])

KeysWereIssued ==
    /\ entry.key \in {NoKey} \cup spent
    /\ starter.at = "made" => starter.key \in {NoKey} \cup spent

IInv ==
    /\ TypeOK /\ FileTypeOK
    /\ OneAccountPerEmail /\ EverythingHasAnAccount /\ HeldHasAnAccount
    /\ EnvironmentWorks /\ OnlyLocal
    /\ CredentialsAgree /\ EntryOpens /\ FirstEntry /\ KeysWereIssued

-----------------------------------------------------------------------------
LEMMA InitIInv == Init => IInv
  <1> SUFFICES ASSUME Init PROVE IInv
    OBVIOUS
  <1> USE DEF Init, AccountsInit
  <1>1. TypeOK
    BY DEF TypeOK
  <1>2. FileTypeOK
    BY DEF FileTypeOK, Entry, UpState
  <1>3. OneAccountPerEmail /\ EverythingHasAnAccount
    BY DEF OneAccountPerEmail, EverythingHasAnAccount
  <1>4. HeldHasAnAccount /\ EnvironmentWorks /\ OnlyLocal
    BY DEF HeldHasAnAccount, EnvironmentWorks, OnlyLocal, Idle, Away
  <1>5. CredentialsAgree /\ EntryOpens /\ FirstEntry /\ KeysWereIssued
    BY DEF CredentialsAgree, EntryOpens, FirstEntry, UpInv, KeysWereIssued,
       Later, Away
  <1> QED
    BY <1>1, <1>2, <1>3, <1>4, <1>5 DEF IInv

-----------------------------------------------------------------------------
(* What creating and seeding an account do to the rows.                    *)

LEMMA CreateUserEffect ==
  ASSUME TypeOK, OneAccountPerEmail,
         NEW id \in FreshIds, NEW e \in Email, NEW p \in Password,
         users' = CreateUser(id, e, p)
  PROVE  /\ users' \subseteq [id : UserId, email : Email, password : Password]
         /\ OneAccountPerEmail'
         /\ Ids \subseteq Ids'
         /\ users' # users => id \in Ids'
         /\ users \subseteq users'
  BY DEF TypeOK, OneAccountPerEmail, FreshIds, CreateUser, WithEmail, Ids

LEMMA SeedSingleUserEffect ==
  ASSUME TypeOK, OneAccountPerEmail,
         NEW id \in FreshIds, NEW e \in Email, NEW p \in Password,
         users' = SeedSingleUser(id, e, p)
  PROVE  /\ users' \subseteq [id : UserId, email : Email, password : Password]
         /\ OneAccountPerEmail'
         /\ Ids \subseteq Ids'
         /\ \E u \in users' : u.email = e /\ u.password = p
         /\ \A u \in users' : u.email = e => u.password = p
         /\ \A u \in users : u.email # e => u \in users'
         /\ \A u \in users : u.password = p => u \in users'
         /\ \A u \in users' : u.email # e => u \in users
  <1>1. CASE WithEmail(e) = {}
    <2> DEFINE new == [id |-> id, email |-> e, password |-> p]
    <2>1. users' = users \cup {new}
      BY <1>1 DEF SeedSingleUser, CreateUser
    <2>2. /\ new \in [id : UserId, email : Email, password : Password]
          /\ new.email = e /\ new.password = p
      BY DEF FreshIds
    <2> HIDE DEF new
    <2>3. \A u \in users : u.email # e
      BY <1>1 DEF WithEmail
    <2>4. OneAccountPerEmail' /\ Ids \subseteq Ids'
      BY <2>1, <2>2, <2>3 DEF OneAccountPerEmail, Ids
    <2> QED
      BY <2>1, <2>2, <2>3, <2>4 DEF TypeOK
  <1>2. CASE WithEmail(e) # {}
    <2> DEFINE Renewed(u) ==
                 IF u.email = e THEN [u EXCEPT !.password = p] ELSE u
    <2>1. users' = {Renewed(u) : u \in users}
      BY <1>2 DEF SeedSingleUser
    <2>2. \A u \in users :
            /\ Renewed(u) \in [id : UserId, email : Email, password : Password]
            /\ Renewed(u).id = u.id /\ Renewed(u).email = u.email
            /\ u.email = e => Renewed(u).password = p
            /\ u.email # e => Renewed(u) = u
            /\ u.password = p => Renewed(u) = u
      BY DEF TypeOK
    <2> HIDE DEF Renewed
    <2>3. \E u \in users : u.email = e
      BY <1>2 DEF WithEmail
    <2>4. OneAccountPerEmail'
      BY <2>1, <2>2 DEF OneAccountPerEmail
    <2>5. Ids \subseteq Ids'
      BY <2>1, <2>2 DEF Ids
    <2> QED
      BY <2>1, <2>2, <2>3, <2>4, <2>5
  <1> QED
    BY <1>1, <1>2

-----------------------------------------------------------------------------
(* The part of the invariant that is about accounts, and the part that is  *)
(* about the entry.                                                        *)
AccountsInv ==
    /\ TypeOK /\ OneAccountPerEmail /\ EverythingHasAnAccount
    /\ HeldHasAnAccount /\ EnvironmentWorks

FileInv ==
    /\ FileTypeOK /\ OnlyLocal
    /\ CredentialsAgree /\ EntryOpens /\ FirstEntry /\ KeysWereIssued

(* Steps that touch neither accounts nor the entry, and steps of relays    *)
(* that are not local, leave the entry as good as it was.                  *)
LEMMA FileFrame ==
  ASSUME FileInv,
         UNCHANGED <<kind, users, entry, starter, up>>,
         relay' \in {relay, "down"}, spent \subseteq spent'
  PROVE  FileInv'
  <1> USE DEF FileInv
  <1>1. FileTypeOK' /\ OnlyLocal'
    BY DEF FileTypeOK, OnlyLocal
  <1>2. CredentialsAgree' /\ EntryOpens'
    BY DEF CredentialsAgree, EntryOpens, Agrees, Opens, HasAccount, WithEmail
  <1>3. FirstEntry'
    BY DEF FirstEntry, UpInv, Opens, HasAccount
  <1>4. KeysWereIssued'
    BY DEF KeysWereIssued
  <1> QED
    BY <1>1, <1>2, <1>3, <1>4

LEMMA OtherRelayFrame ==
  ASSUME FileInv, kind # "local",
         UNCHANGED <<kind, entry, starter, up>>,
         spent \subseteq spent'
  PROVE  FileInv'
  <1> USE DEF FileInv
  <1>0. entry.cred = None /\ starter = Away /\ \A p \in Up : up[p] = Away
    BY DEF OnlyLocal
  <1>1. FileTypeOK' /\ OnlyLocal'
    BY <1>0 DEF FileTypeOK, OnlyLocal
  <1>2. CredentialsAgree' /\ EntryOpens'
    BY <1>0 DEF CredentialsAgree, EntryOpens, Away
  <1>3. FirstEntry'
    BY <1>0 DEF FirstEntry, UpInv, Away, Later
  <1>4. KeysWereIssued'
    BY <1>0 DEF KeysWereIssued, Away
  <1> QED
    BY <1>1, <1>2, <1>3, <1>4

-----------------------------------------------------------------------------
(* Steps of the relay that leave users alone.                              *)
LEMMA AccountsFrame ==
  ASSUME AccountsInv, UNCHANGED <<kind, users, up>>,
         TypeOK', EverythingHasAnAccount',
         relay' = "up" => relay = "up" /\ env' = env,
         \A c \in Client :
            \/ request'[c].at \notin {"checked", "selected"}
            \/ request'[c] = request[c]
            \/ request'[c].at = "checked" /\ kind = "hosted"
            \/ request'[c].at = "selected" /\ request'[c].owner \in Ids
  PROVE  AccountsInv'
  <1> USE DEF AccountsInv
  <1>1. OneAccountPerEmail' /\ Ids' = Ids
    BY DEF OneAccountPerEmail, Ids
  <1>2. HeldHasAnAccount'
    BY <1>1 DEF HeldHasAnAccount
  <1>3. EnvironmentWorks'
    BY DEF EnvironmentWorks, WithEmail
  <1> QED
    BY <1>1, <1>2, <1>3

(* A relay that starts to serve a single user, whoever starts it.          *)
LEMMA BootSingleStep ==
  ASSUME AccountsInv, NEW e \in Email, NEW p \in Password,
         BootSingle(e, p), UNCHANGED up
  PROVE  AccountsInv'
  <1> USE DEF AccountsInv
  <1>1. PICK id \in FreshIds : users' = SeedSingleUser(id, e, p)
    BY DEF BootSingle
  <1>2. /\ users' \subseteq [id : UserId, email : Email, password : Password]
        /\ OneAccountPerEmail'
        /\ Ids \subseteq Ids'
        /\ \E u \in users' : u.email = e /\ u.password = p
        /\ \A u \in users' : u.email = e => u.password = p
    BY <1>1, SeedSingleUserEffect
  <1>3. TypeOK'
    BY <1>2 DEF TypeOK, BootSingle, Cred
  <1>4. EverythingHasAnAccount'
    BY <1>2 DEF EverythingHasAnAccount, BootSingle, Ids
  <1>5. HeldHasAnAccount'
    BY <1>2 DEF HeldHasAnAccount, BootSingle
  <1>6. EnvironmentWorks'
    BY <1>2 DEF EnvironmentWorks, BootSingle, WithEmail
  <1> QED
    BY <1>2, <1>3, <1>4, <1>5, <1>6

LEMMA RelayStep ==
  ASSUME IInv, UNCHANGED <<entry, starter, up>>, AccountsNext
  PROVE  IInv'
  <1> USE AccountsAssumption
  <1>0. AccountsInv /\ FileInv
    BY DEF IInv, AccountsInv, FileInv
  <1> SUFFICES AccountsInv' /\ FileInv'
    BY DEF IInv, AccountsInv, FileInv
  <1>1. CASE BootHosted
    <2> USE <1>1 DEF BootHosted, database
    <2>1. FileInv'
      BY <1>0, OtherRelayFrame
    <2>2. AccountsInv'
      BY <1>0 DEF AccountsInv, TypeOK, OneAccountPerEmail,
         EverythingHasAnAccount, HeldHasAnAccount, Ids, EnvironmentWorks
    <2> QED
      BY <2>1, <2>2
  <1>2. ASSUME NEW e \in Email, NEW p \in Password, kind = "single",
               BootSingle(e, p)
        PROVE  AccountsInv' /\ FileInv'
    <2>1. FileInv'
      BY <1>0, <1>2, OtherRelayFrame DEF BootSingle
    <2> QED
      BY <1>0, <1>2, <2>1, BootSingleStep
  <1>3. CASE Crash
    <2> USE <1>3 DEF Crash, database
    <2>1. FileInv'
      BY <1>0, FileFrame
    <2>2. TypeOK'
      BY <1>0 DEF AccountsInv, TypeOK
    <2>3. EverythingHasAnAccount'
      BY <1>0 DEF AccountsInv, EverythingHasAnAccount
    <2> QED
      BY <1>0, <2>1, <2>2, <2>3, AccountsFrame DEF Idle
  <1>4. ASSUME NEW c \in Client, NEW e \in Email, NEW p \in Password,
               SignupCheck(c, e, p)
        PROVE  AccountsInv' /\ FileInv'
    <2> USE <1>4 DEF SignupCheck, database
    <2>1. FileInv'
      BY <1>0, FileFrame
    <2>2. TypeOK'
      BY <1>0 DEF AccountsInv, TypeOK
    <2>3. EverythingHasAnAccount'
      BY <1>0 DEF AccountsInv, EverythingHasAnAccount
    <2> QED
      BY <1>0, <2>1, <2>2, <2>3, AccountsFrame DEF AccountsInv, TypeOK
  <1>5. ASSUME NEW c \in Client, SignupCreate(c)
        PROVE  AccountsInv' /\ FileInv'
    <2> USE <1>5 DEF SignupCreate
    <2>0. request[c] \in [at : {"checked"}, email : Email, password : Password]
      BY <1>0 DEF AccountsInv, TypeOK, Idle
    <2>1. PICK id \in FreshIds :
            /\ users' = CreateUser(id, request[c].email, request[c].password)
            /\ session' = IF users' = users THEN session
                          ELSE [session EXCEPT ![c] = id]
      OBVIOUS
    <2>2. /\ users' \subseteq [id : UserId, email : Email, password : Password]
          /\ OneAccountPerEmail'
          /\ Ids \subseteq Ids'
          /\ users' # users => id \in Ids'
      BY <1>0, <2>0, <2>1, CreateUserEffect DEF AccountsInv
    <2>3. kind = "hosted"
      BY <1>0 DEF AccountsInv, EnvironmentWorks
    <2>4. TypeOK'
      BY <1>0, <2>1, <2>2 DEF AccountsInv, TypeOK, FreshIds
    <2>5. EverythingHasAnAccount'
      BY <1>0, <2>1, <2>2 DEF AccountsInv, EverythingHasAnAccount, Ids, TypeOK
    <2>6. HeldHasAnAccount'
      BY <1>0, <2>2 DEF AccountsInv, HeldHasAnAccount, Idle, TypeOK
    <2>7. EnvironmentWorks'
      BY <1>0, <2>3 DEF AccountsInv, EnvironmentWorks
    <2>8. FileInv'
      BY <1>0, <2>3, OtherRelayFrame
    <2> QED
      BY <2>2, <2>4, <2>5, <2>6, <2>7, <2>8 DEF AccountsInv
  <1>6. ASSUME NEW c \in Client, NEW u \in users, Login(c, u)
        PROVE  AccountsInv' /\ FileInv'
    <2> USE <1>6 DEF Login, database
    <2>1. FileInv'
      BY <1>0, FileFrame
    <2>2. TypeOK'
      BY <1>0 DEF AccountsInv, TypeOK
    <2>3. EverythingHasAnAccount'
      BY <1>0 DEF AccountsInv, EverythingHasAnAccount, TypeOK
    <2> QED
      BY <1>0, <2>1, <2>2, <2>3, AccountsFrame
  <1>7. ASSUME NEW c \in Client, Logout(c)
        PROVE  AccountsInv' /\ FileInv'
    <2> USE <1>7 DEF Logout, database
    <2>1. FileInv'
      BY <1>0, FileFrame
    <2>2. TypeOK'
      BY <1>0 DEF AccountsInv, TypeOK
    <2>3. EverythingHasAnAccount'
      BY <1>0 DEF AccountsInv, EverythingHasAnAccount, TypeOK
    <2> QED
      BY <1>0, <2>1, <2>2, <2>3, AccountsFrame
  <1>8. ASSUME NEW c \in Client, CreateAPIKey(c)
        PROVE  AccountsInv' /\ FileInv'
    <2> USE <1>8 DEF CreateAPIKey, Issue
    <2>0. session[c] \in UserId /\ session[c] \in Ids
      BY <1>0 DEF AccountsInv, TypeOK, EverythingHasAnAccount, Ids
    <2>1. FileInv'
      BY <1>0, FileFrame
    <2>2. TypeOK'
      BY <1>0, <2>0 DEF AccountsInv, TypeOK, FreshKeys
    <2>3. EverythingHasAnAccount'
      BY <1>0, <2>0 DEF AccountsInv, EverythingHasAnAccount, Ids
    <2> QED
      BY <1>0, <2>1, <2>2, <2>3, AccountsFrame
  <1>9. ASSUME NEW c \in Client, Admit(c)
        PROVE  AccountsInv' /\ FileInv'
    <2> USE <1>9 DEF Admit, database
    <2>0. /\ request[c] \in [at : {"selected"}, key : Key, owner : UserId]
          /\ request[c].owner \in Ids
      BY <1>0 DEF AccountsInv, TypeOK, HeldHasAnAccount, Idle
    <2>1. FileInv'
      BY <1>0, FileFrame
    <2>2. TypeOK'
      BY <1>0, <2>0 DEF AccountsInv, TypeOK
    <2>3. EverythingHasAnAccount'
      BY <1>0, <2>0 DEF AccountsInv, EverythingHasAnAccount, Ids
    <2> QED
      BY <1>0, <2>1, <2>2, <2>3, AccountsFrame DEF AccountsInv, TypeOK, Idle
  <1>10. ASSUME NEW c \in Client, NEW row \in keys, RevokeAPIKey(c, row)
         PROVE  AccountsInv' /\ FileInv'
    <2> USE <1>10 DEF RevokeAPIKey
    <2>1. FileInv'
      BY <1>0, FileFrame
    <2>2. TypeOK'
      BY <1>0 DEF AccountsInv, TypeOK
    <2>3. EverythingHasAnAccount'
      BY <1>0 DEF AccountsInv, EverythingHasAnAccount
    <2> QED
      BY <1>0, <2>1, <2>2, <2>3, AccountsFrame
  <1>11. ASSUME NEW c \in Client, NEW row \in keys, ValidateAPIKey(c, row)
         PROVE  AccountsInv' /\ FileInv'
    <2> USE <1>11 DEF ValidateAPIKey, database
    <2>0. row \in [key : Key, owner : UserId] /\ row.owner \in Ids
      BY <1>0 DEF AccountsInv, TypeOK, EverythingHasAnAccount, Ids
    <2>1. FileInv'
      BY <1>0, FileFrame
    <2>2. TypeOK'
      BY <1>0, <2>0 DEF AccountsInv, TypeOK
    <2>3. EverythingHasAnAccount'
      BY <1>0 DEF AccountsInv, EverythingHasAnAccount
    <2> QED
      BY <1>0, <2>0, <2>1, <2>2, <2>3, AccountsFrame DEF AccountsInv, TypeOK
  <1>12. ASSUME NEW t \in tunnels, Drop(t)
         PROVE  AccountsInv' /\ FileInv'
    <2> USE <1>12 DEF Drop, database
    <2>1. FileInv'
      BY <1>0, FileFrame
    <2>2. TypeOK'
      BY <1>0 DEF AccountsInv, TypeOK
    <2>3. EverythingHasAnAccount'
      BY <1>0 DEF AccountsInv, EverythingHasAnAccount
    <2> QED
      BY <1>0, <2>1, <2>2, <2>3, AccountsFrame
  <1> QED
    BY <1>1, <1>2, <1>3, <1>4, <1>5, <1>6, <1>7, <1>8, <1>9, <1>10, <1>11,
       <1>12 DEF AccountsNext

-----------------------------------------------------------------------------
(* Steps of the daemon and of up.  None but Start changes an account.      *)
LEMMA LocalFrame ==
  ASSUME AccountsInv,
         UNCHANGED <<kind, relay, env, users, tunnels, session, request>>,
         keys' \subseteq [key : Key, owner : UserId], spent' \subseteq Key,
         \A row \in keys' : row.owner \in Ids,
         \A p \in Up : \/ up'[p].at # "loggedIn"
                       \/ up'[p] = up[p]
                       \/ up'[p].user \in Ids
  PROVE  AccountsInv'
  <1> USE DEF AccountsInv
  <1>1. TypeOK' /\ OneAccountPerEmail' /\ Ids' = Ids
    BY DEF TypeOK, OneAccountPerEmail, Ids
  <1>2. EverythingHasAnAccount'
    BY DEF EverythingHasAnAccount, Ids
  <1>3. HeldHasAnAccount'
    BY <1>1 DEF HeldHasAnAccount
  <1>4. EnvironmentWorks'
    BY DEF EnvironmentWorks, WithEmail
  <1> QED
    BY <1>1, <1>2, <1>3, <1>4

LEMMA DaemonStep ==
  ASSUME IInv, RelayEnv \/ KeepCredentials \/ Start \/ StartFails
  PROVE  IInv'
  <1> USE AccountsAssumption
  <1>0. AccountsInv /\ FileInv
    BY DEF IInv, AccountsInv, FileInv
  <1>a. FileTypeOK /\ OnlyLocal /\ CredentialsAgree /\ EntryOpens /\ FirstEntry
        /\ KeysWereIssued
    BY <1>0 DEF FileInv
  <1>b. /\ keys \subseteq [key : Key, owner : UserId] /\ spent \subseteq Key
        /\ \A row \in keys : row.owner \in Ids
    BY <1>0 DEF AccountsInv, TypeOK, EverythingHasAnAccount, Ids
  <1> SUFFICES AccountsInv' /\ FileInv'
    BY DEF IInv, AccountsInv, FileInv
  <1>1. CASE RelayEnv
    <2> USE <1>1 DEF RelayEnv, accountVars, database
    <2>1. AccountsInv'
      BY <1>0, <1>b, LocalFrame
    <2>2. FileTypeOK'
      BY <1>a DEF FileTypeOK, Entry, Cred, Unused
    <2>3. OnlyLocal'
      BY <1>a DEF OnlyLocal
    <2>4. CredentialsAgree' /\ EntryOpens'
      BY <1>a DEF CredentialsAgree, EntryOpens, Agrees, Opens, HasAccount,
         WithEmail, Unused, FileTypeOK, Entry, Cred
    <2>5. FirstEntry'
      BY <1>a DEF FirstEntry, UpInv, Opens, HasAccount
    <2>6. KeysWereIssued'
      BY <1>a DEF KeysWereIssued
    <2> QED
      BY <2>1, <2>2, <2>3, <2>4, <2>5, <2>6 DEF FileInv
  <1>2. CASE KeepCredentials
    <2> USE <1>2 DEF KeepCredentials, accountVars, database
    <2>0. /\ starter \in [at : {"made"}, cred : Cred, key : Key \cup {NoKey}]
          /\ kind = "local" /\ relay = "down"
      BY <1>a DEF FileTypeOK, OnlyLocal, Away
    <2>1. AccountsInv'
      BY <1>0, <1>b, LocalFrame
    <2>2. FileTypeOK'
      BY <1>a, <2>0 DEF FileTypeOK, Entry
    <2>3. OnlyLocal'
      BY <2>0 DEF OnlyLocal
    <2>4. CredentialsAgree' /\ EntryOpens'
      BY <1>a, <2>0 DEF CredentialsAgree, EntryOpens, Agrees, WithEmail
    <2>5. FirstEntry'
      BY <1>a, <2>0 DEF FirstEntry, UpInv, Opens, HasAccount, FileTypeOK, Entry
    <2>6. KeysWereIssued'
      BY <1>a, <2>0 DEF KeysWereIssued
    <2> QED
      BY <2>1, <2>2, <2>3, <2>4, <2>5, <2>6 DEF FileInv
  <1>3. CASE Start
    <2> USE <1>3 DEF Start
    <2> DEFINE e == starter.cred[1]
               p == starter.cred[2]
    <2>0. /\ starter \in [at : {"ready"}, cred : Cred] /\ kind = "local"
          /\ e \in Email /\ p \in Password /\ starter.cred = <<e, p>>
      BY <1>a DEF FileTypeOK, OnlyLocal, Away, Cred
    <2>1. AccountsInv'
      BY <1>0, <2>0, BootSingleStep
    <2>2. PICK id \in FreshIds : users' = SeedSingleUser(id, e, p)
      BY DEF BootSingle
    <2>3. /\ \E u \in users' : u.email = e /\ u.password = p
          /\ \A u \in users' : u.email = e => u.password = p
          /\ \A u \in users' : u.email # e => u \in users
          /\ \A u \in users : u.email # e => u \in users'
          /\ \A u \in users : u.password = p => u \in users'
      BY <1>0, <2>0, <2>2, SeedSingleUserEffect DEF AccountsInv
    <2> HIDE DEF e, p
    <2>4. users \subseteq users'
      BY <1>a, <2>0, <2>3 DEF CredentialsAgree, Agrees, e, p
    <2>5. UNCHANGED <<kind, entry, spent, up>> /\ starter' = Away
      BY DEF BootSingle
    <2>6. \A u \in users : u \in users'
      BY <2>4
    <2>7. /\ entry.cred # None => Opens(entry.cred)'
          /\ \A q \in Up : Opens(up[q].saw.cred) => Opens(up[q].saw.cred)'
      BY <1>a, <2>0, <2>3, <2>5, <2>6 DEF EntryOpens, Opens, HasAccount, e, p
    <2>8. FileTypeOK' /\ OnlyLocal' /\ KeysWereIssued'
      BY <1>a, <2>0, <2>5 DEF FileTypeOK, OnlyLocal, KeysWereIssued, Away
    <2>9. CredentialsAgree'
      BY <2>1, <2>5, <2>7 DEF AccountsInv, OneAccountPerEmail,
         CredentialsAgree, Agrees, Opens, HasAccount, Away
    <2>10. EntryOpens'
      BY <2>5, <2>7 DEF EntryOpens, Away
    <2>11. FirstEntry'
      BY <1>a, <2>5, <2>7 DEF FirstEntry, UpInv, Away, Later
    <2> QED
      BY <2>1, <2>8, <2>9, <2>10, <2>11 DEF FileInv
  <1>4. CASE StartFails
    <2> USE <1>4 DEF StartFails, accountVars, database
    <2>1. AccountsInv'
      BY <1>0, <1>b, LocalFrame
    <2>2. FileTypeOK' /\ OnlyLocal'
      BY <1>a DEF FileTypeOK, OnlyLocal
    <2>3. CredentialsAgree' /\ EntryOpens'
      BY <1>a DEF CredentialsAgree, EntryOpens, Agrees, Opens, HasAccount,
         Away, OnlyLocal
    <2>4. FirstEntry' /\ KeysWereIssued'
      BY <1>a DEF FirstEntry, UpInv, KeysWereIssued, Opens, HasAccount, Away
    <2> QED
      BY <2>1, <2>2, <2>3, <2>4 DEF FileInv
  <1> QED
    BY <1>1, <1>2, <1>3, <1>4

(* A step of an up that leaves the entry alone.                            *)
LEMMA UpFrame ==
  ASSUME FileInv, kind = "local", NEW p \in Up, NEW s \in UpState,
         up' = [up EXCEPT ![p] = s], UpInv(s)',
         UNCHANGED <<kind, relay, users, entry, starter>>,
         spent \subseteq spent'
  PROVE  FileInv'
  <1> USE DEF FileInv
  <1>0. /\ up \in [Up -> UpState]
        /\ \A q \in Up : up'[q] = IF q = p THEN s ELSE up[q]
    BY DEF FileTypeOK
  <1>1. FileTypeOK' /\ OnlyLocal'
    BY DEF FileTypeOK, OnlyLocal
  <1>2. CredentialsAgree' /\ EntryOpens' /\ KeysWereIssued'
    BY DEF CredentialsAgree, EntryOpens, KeysWereIssued, Agrees, Opens,
       HasAccount, WithEmail
  <1>3. \A t \in UpState : UpInv(t) => UpInv(t)'
    BY DEF UpInv, Opens, HasAccount
  <1>4. FirstEntry'
    BY <1>0, <1>3 DEF FirstEntry
  <1> QED
    BY <1>1, <1>2, <1>4

(* A step of an up that got in and puts its key into the entry, with       *)
(* credentials that open an account, if any.                               *)
LEMMA ReplaceFrame ==
  ASSUME FileInv, OneAccountPerEmail, kind = "local",
         NEW p \in Up, up[p].at \in {"hasKey", "through"}, up[p].key \in Key,
         NEW s \in UpState, up' = [up EXCEPT ![p] = s],
         s.at = "away" \/ (s.at = "through" /\ s.key = up[p].key),
         entry' \in Entry, entry'.key = up[p].key,
         entry'.cred = None \/ Opens(entry'.cred),
         UNCHANGED <<kind, relay, users, starter, spent>>
  PROVE  FileInv'
  <1> USE AccountsAssumption DEF FileInv
  <1>0. /\ up \in [Up -> UpState]
        /\ \A q \in Up : up'[q] = IF q = p THEN s ELSE up[q]
    BY DEF FileTypeOK
  <1>1. up[p].key \in spent /\ entry'.key # NoKey
    BY DEF FirstEntry, UpInv
  <1>2. entry.key = NoKey => entry.cred # None /\ Opens(entry.cred)
    BY DEF FirstEntry, UpInv, Later
  <1>3. FileTypeOK' /\ OnlyLocal' /\ KeysWereIssued'
    BY <1>1 DEF FileTypeOK, OnlyLocal, KeysWereIssued
  <1>4. CredentialsAgree' /\ EntryOpens'
    BY DEF CredentialsAgree, EntryOpens, OneAccountPerEmail, Agrees, Opens,
       HasAccount, WithEmail
  <1>5. \A t \in UpState : UpInv(t) => UpInv(t)'
    BY <1>1, <1>2 DEF UpInv, Opens, HasAccount
  <1>6. UpInv(s)'
    BY <1>1 DEF UpInv, Later
  <1>7. FirstEntry'
    BY <1>0, <1>1, <1>2, <1>5, <1>6 DEF FirstEntry
  <1> QED
    BY <1>3, <1>4, <1>7

LEMMA UpStep ==
  ASSUME IInv, NEW p \in Up,
         \/ RelayIsHealthy(p) \/ FindKey(p) \/ LogIn(p) \/ MakeKey(p)
         \/ KeepKey(p) \/ ReplaceEntry(p) \/ UpFails(p)
  PROVE  IInv'
  <1> USE AccountsAssumption
  <1>0. AccountsInv /\ FileInv
    BY DEF IInv, AccountsInv, FileInv
  <1>a. FileTypeOK /\ OnlyLocal /\ CredentialsAgree /\ EntryOpens /\ FirstEntry
        /\ KeysWereIssued
    BY <1>0 DEF FileInv
  <1>b. /\ keys \subseteq [key : Key, owner : UserId] /\ spent \subseteq Key
        /\ \A row \in keys : row.owner \in Ids
    BY <1>0 DEF AccountsInv, TypeOK, EverythingHasAnAccount, Ids
  <1> SUFFICES AccountsInv' /\ FileInv'
    BY DEF IInv, AccountsInv, FileInv
  <1>1. ASSUME NEW s \in UpState, up' = [up EXCEPT ![p] = s],
               s.at = "loggedIn" => s.user \in Ids,
               UNCHANGED <<kind, relay, env, users, tunnels, session, request>>,
               keys' \subseteq [key : Key, owner : UserId], spent' \subseteq Key,
               \A row \in keys' : row.owner \in Ids
        PROVE  AccountsInv'
    <2>1. \A q \in Up : up'[q] = IF q = p THEN s ELSE up[q]
      BY <1>a, <1>1 DEF FileTypeOK
    <2> QED
      BY <1>0, <1>1, <2>1, LocalFrame
  <1>2. CASE RelayIsHealthy(p)
    <2> USE <1>2 DEF RelayIsHealthy, accountVars, database, At
    <2>1. PICK s \in UpState : s = [at |-> "healthy"]
      BY DEF UpState
    <2>2. s.at = "healthy" /\ up' = [up EXCEPT ![p] = s]
      BY <2>1
    <2>3. UpInv(s)'
      BY <2>2 DEF UpInv, Later
    <2> QED
      BY <1>0, <1>1, <1>b, <2>2, <2>3, UpFrame
  <1>3. CASE FindKey(p)
    <2> USE <1>3 DEF FindKey, accountVars, database, At
    <2>1. PICK s \in UpState :
            s = IF entry.key # NoKey THEN [at |-> "through", key |-> entry.key]
                ELSE [at |-> "needsKey", saw |-> entry]
      BY <1>a DEF UpState, FileTypeOK, Entry
    <2>2. UpInv(s)' /\ s.at # "loggedIn"
      BY <1>a, <2>1 DEF UpInv, Later, KeysWereIssued
    <2>3. up' = [up EXCEPT ![p] = s] /\ kind = "local"
      BY <1>a, <2>1 DEF OnlyLocal, Away
    <2> QED
      BY <1>0, <1>1, <1>b, <2>1, <2>2, <2>3, UpFrame
  <1>4. CASE LogIn(p)
    <2> USE <1>4 DEF LogIn, accountVars, database, At
    <2>1. PICK u \in users :
            /\ entry.cred = <<u.email, u.password>>
            /\ up' = [up EXCEPT ![p] =
                        [at |-> "loggedIn", saw |-> up[p].saw, user |-> u.id]]
      OBVIOUS
    <2>2. u.id \in Ids /\ u.id \in UserId
      BY <1>0 DEF AccountsInv, TypeOK, Ids
    <2>3. up[p] \in [at : {"needsKey"}, saw : Entry] /\ kind = "local"
      BY <1>a DEF FileTypeOK, UpState, OnlyLocal, Away
    <2>4. entry.cred # None /\ Opens(entry.cred)
      BY <1>0, <2>1 DEF Opens, HasAccount, AccountsInv, TypeOK
    <2>5. up[p].saw.cred = None \/ Opens(up[p].saw.cred)
      BY <1>a, <2>3, <2>4 DEF FirstEntry, UpInv
    <2>6. PICK s \in UpState :
            s = [at |-> "loggedIn", saw |-> up[p].saw, user |-> u.id]
      BY <2>2, <2>3 DEF UpState
    <2>7. /\ up' = [up EXCEPT ![p] = s]
          /\ s.user \in Ids /\ s.at = "loggedIn" /\ s.saw = up[p].saw
      BY <2>1, <2>2, <2>6
    <2>8. UpInv(s)'
      BY <2>4, <2>5, <2>7 DEF UpInv, Opens, HasAccount
    <2> QED
      BY <1>0, <1>1, <1>b, <2>3, <2>7, <2>8, UpFrame
  <1>5. CASE MakeKey(p)
    <2> USE <1>5 DEF MakeKey, Issue, At
    <2>1. PICK k \in FreshKeys :
            /\ keys' = keys \cup {[key |-> k, owner |-> up[p].user]}
            /\ spent' = spent \cup {k}
            /\ up' = [up EXCEPT ![p] =
                        [at |-> "hasKey", saw |-> up[p].saw, key |-> k]]
      OBVIOUS
    <2>2. /\ up[p] \in [at : {"loggedIn"}, saw : Entry, user : UserId]
          /\ kind = "local"
      BY <1>a DEF FileTypeOK, UpState, OnlyLocal, Away
    <2>3. up[p].user \in Ids
      BY <1>0 DEF AccountsInv, HeldHasAnAccount
    <2>4. PICK s \in UpState :
            s = [at |-> "hasKey", saw |-> up[p].saw, key |-> k]
      BY <2>2 DEF UpState, FreshKeys
    <2>5. /\ up' = [up EXCEPT ![p] = s]
          /\ s.at = "hasKey" /\ s.saw = up[p].saw /\ s.key = k
      BY <2>1, <2>4
    <2>6. UpInv(s)'
      BY <1>a, <2>1, <2>2, <2>5 DEF FirstEntry, UpInv, Later, Opens, HasAccount
    <2>7. AccountsInv'
      <3>1. keys' \subseteq [key : Key, owner : UserId] /\ spent' \subseteq Key
        BY <1>b, <2>1, <2>2 DEF FreshKeys
      <3>2. \A row \in keys' : row.owner \in Ids
        BY <1>b, <2>1, <2>3
      <3> QED
        BY <1>1, <2>5, <3>1, <3>2
    <2> QED
      BY <1>0, <2>1, <2>2, <2>5, <2>6, <2>7, UpFrame
  <1>6. CASE KeepKey(p)
    <2> USE <1>6 DEF KeepKey, accountVars, database, At
    <2>1. up[p] \in [at : {"hasKey"}, saw : Entry, key : Key] /\ kind = "local"
      BY <1>a DEF FileTypeOK, UpState, OnlyLocal, Away
    <2>2. PICK s \in UpState : s = [at |-> "through", key |-> up[p].key]
      BY <2>1 DEF UpState
    <2>3. up[p].saw.cred = None \/ Opens(up[p].saw.cred)
      BY <1>a, <2>1 DEF FirstEntry, UpInv
    <2>4. /\ up' = [up EXCEPT ![p] = s] /\ entry' \in Entry
          /\ s.at = "through" /\ s.key = up[p].key
      BY <2>1, <2>2 DEF Entry
    <2>5. /\ entry'.cred = None \/ Opens(entry'.cred)
          /\ entry'.key = up[p].key
      BY <2>3
    <2> QED
      BY <1>0, <1>1, <1>b, <2>1, <2>4, <2>5, ReplaceFrame DEF AccountsInv
  <1>7. CASE ReplaceEntry(p)
    <2> USE <1>7 DEF ReplaceEntry, accountVars, database, At
    <2>1. up[p] \in [at : {"through"}, key : Key] /\ kind = "local"
      BY <1>a DEF FileTypeOK, UpState, OnlyLocal, Away
    <2>2. PICK s \in UpState : s = Away
      BY DEF UpState
    <2>3. up' = [up EXCEPT ![p] = s] /\ s.at = "away"
      BY <2>2 DEF Away
    <2>4. /\ entry' \in Entry /\ entry'.key = up[p].key
          /\ entry'.cred = None \/ Opens(entry'.cred)
      BY <2>1 DEF Entry
    <2>5. AccountsInv'
      BY <1>1, <1>b, <2>3
    <2>6. /\ OneAccountPerEmail
          /\ UNCHANGED <<kind, relay, users, starter, spent>>
          /\ up[p].at \in {"hasKey", "through"} /\ up[p].key \in Key
      BY <1>0, <2>1 DEF AccountsInv
    <2>7. FileInv'
      BY <1>0, <2>1, <2>3, <2>4, <2>6, ReplaceFrame
    <2> QED
      BY <2>5, <2>7
  <1>8. CASE UpFails(p)
    <2> USE <1>8 DEF UpFails, accountVars, database, At
    <2>1. kind = "local"
      BY <1>a DEF OnlyLocal
    <2>2. Away \in UpState /\ Away.at = "away" /\ UpInv(Away)'
      BY DEF UpState, Away, UpInv, Later
    <2>3. AccountsInv'
      BY <1>1, <1>b, <2>2
    <2>4. FileInv'
      BY <1>0, <2>1, <2>2, UpFrame
    <2> QED
      BY <2>3, <2>4
  <1> QED
    BY <1>2, <1>3, <1>4, <1>5, <1>6, <1>7, <1>8

-----------------------------------------------------------------------------
LEMMA StutterStep ==
  ASSUME IInv, UNCHANGED vars
  PROVE  IInv'
  <1> USE DEF vars, accountVars, database
  <1>1. AccountsInv /\ FileInv
    BY DEF IInv, AccountsInv, FileInv
  <1>2. FileInv'
    BY <1>1, FileFrame
  <1>3. TypeOK' /\ EverythingHasAnAccount'
    BY <1>1 DEF AccountsInv, TypeOK, EverythingHasAnAccount
  <1>4. AccountsInv'
    BY <1>1, <1>3, AccountsFrame
  <1> QED
    BY <1>2, <1>4 DEF IInv, AccountsInv, FileInv

(* Every row, session and credential is as the accounts invariant says, in  *)
(* every state the relay, the daemon and the ups can reach.                *)
THEOREM AccountsInvariant == Spec => []IInv
  <1>1. IInv /\ [Next]_vars => IInv'
    BY RelayStep, DaemonStep, UpStep, StutterStep DEF Next
  <1> QED
    BY InitIInv, <1>1, PTL DEF Spec

(* However signups for one address and seedings interleave, no two rows of *)
(* users have one address (store.go:112, main.go:302).                     *)
THEOREM AccountsOnePerEmail == Spec => []OneAccountPerEmail
  <1>1. IInv => OneAccountPerEmail
    BY DEF IInv
  <1> QED
    BY AccountsInvariant, <1>1, PTL

(* A key, a session and a tunnel belong to an account there is, though     *)
(* nothing in the schema ties them together and every start of a           *)
(* single-user relay seeds (store.go:156).                                 *)
THEOREM AccountsNothingOrphaned == Spec => []EverythingHasAnAccount
  <1>1. IInv => EverythingHasAnAccount
    BY DEF IInv
  <1> QED
    BY AccountsInvariant, <1>1, PTL

(* While a relay serves, the credentials of its environment and the ones   *)
(* in the config entry open an account, and a key on file was issued, for  *)
(* any number of ups that overwrite the entry (main.go:616, ensure.go:196).*)
THEOREM AccountsCredentialsWork == Spec => []CredentialsWork
  <1>1. IInv => CredentialsWork
    BY DEF IInv, EnvironmentWorks, EntryOpens, KeysWereIssued, Opens,
       CredentialsWork
  <1> QED
    BY AccountsInvariant, <1>1, PTL
=============================================================================
