----------------------------- MODULE LocalNames -----------------------------
(***************************************************************************)
(* What the commands of the CLI and the helper daemon keep about projects  *)
(* for the whole machine: the registry projects.json, the managed block    *)
(* of /etc/hosts, the names in the leaf certificate and the login agents.  *)
(* Each command loads the registry once and works on its copy; nothing is  *)
(* locked but the helper's own write of the block.  The administrator      *)
(* edits /etc/hosts too, outside the block.                                *)
(***************************************************************************)
EXTENDS HostsFile, FiniteSets

CONSTANTS
    Dir,             \* project directories, all with the same base name
    FQDN,            \* host names under local TLDs
    TLDOf,           \* [FQDN -> its TLD]
    DefaultTLD,
    NativeTLD,       \* TLDs that resolve without /etc/hosts
    Localhost,       \* the one of them that is a name of its own
    BareName,        \* that name, "localhost"
    Manifests,       \* [Dir -> the manifests it may have]
    Command, Idle,   \* commands and daemon starts that run at once
    Nothing,
    NoEntry,
    MaxNames,        \* bound on the -2, -3 .. suffixes
    MaxAgents,       \* bound on the agents there are at once
    AdminLine,       \* lines the administrator may have added
    FirstHosts       \* what /etc/hosts may be at first

TLD == {TLDOf[n] : n \in FQDN}
NeedsHosts(tld) == tld \notin NativeTLD

(* names are the FQDNs of the environments and of roxey.<tld>.             *)
Manifest ==
    [names : {S \in SUBSET FQDN : IsFiniteSet(S)}, tld : TLD, local : BOOLEAN]

(* The lines of /etc/hosts.  Those of the administrator never look like    *)
(* the block's.                                                            *)
Line == FQDN \cup AdminLine \cup {BeginLine, EndLine, Blank}

ASSUME NamesAssumption ==
    /\ Manifests \in [Dir -> SUBSET Manifest]
    /\ {MaxNames, MaxAgents} \subseteq Nat
    /\ Localhost \in NativeTLD /\ BareName \in FQDN
    /\ FQDN \cap AdminLine = {}
    /\ (FQDN \cup AdminLine) \cap {BeginLine, EndLine, Blank} = {}

(* A file whose markers were left alone: every block is ended, and no line *)
(* of the administrator is inside one.                                     *)
WellFormed(file) ==
    /\ file \in Seq(Line) /\ file # <<>>
    /\ \A i \in 1..Len(file) :
          InBlock(file, i) => i # Len(file) /\ file[i] \notin AdminLine

ASSUME FirstHostsAssumption == \A file \in FirstHosts : WellFormed(file)

VARIABLES
    projects,        \* projects.json: [Name -> Entry or NoEntry]
    hosts,           \* /etc/hosts
    leaf,            \* names in the leaf certificate
    agents,          \* projects with a login agent
    gone,            \* directories that were removed
    cli,             \* [Command -> its state, Idle before it starts]
    last             \* how the last command ended, until the next, if it
                     \* wrote the block or was a down (history)

vars == <<projects, hosts, leaf, agents, gone, cli, last>>

Name == 1..MaxNames      \* the base name, with suffix -2, -3 ..
Entry == [dir : Dir, manifest : Manifest, auto : BOOLEAN]
Registry == [Name -> Entry \cup {NoEntry}]
Empty == [n \in Name |-> NoEntry]

Ops == {"up", "down", "setup", "reconcile", "forget", "list", "autostart", "uninstall"}
CommandState ==
    [op : Ops, dir : Dir \cup {Nothing}, manifest : Manifest \cup {Nothing},
     pc : {"register", "forget", "issue", "publish", "update"},
     reg : Registry]            \* its copy of the registry

Init ==
    /\ projects = Empty
    /\ hosts \in FirstHosts
    /\ leaf = {} /\ agents = {} /\ gone = {}
    /\ cli = [c \in Command |-> Idle]
    /\ last = Nothing

-----------------------------------------------------------------------------
(* The registry.                                                           *)

Entries(reg) == {reg[n] : n \in Name} \ {NoEntry}
LocalEntries(reg) == {e \in Entries(reg) : e.manifest.local}
NamesOfDir(reg, d) == {n \in Name : reg[n] # NoEntry /\ reg[n].dir = d}

(* AllLocalHostFQDNs                                                       *)
LocalFQDNs(reg) == UNION {e.manifest.names : e \in LocalEntries(reg)}

(* PrimaryLocalTLD: the default one, or that of the first local project.   *)
PrimaryLocalTLD(reg) ==
    IF \E e \in LocalEntries(reg) : e.manifest.tld = DefaultTLD THEN DefaultTLD
    ELSE LET local == {n \in Name : reg[n] \in LocalEntries(reg)}
         IN  reg[CHOOSE n \in local : \A k \in local : n <= k].manifest.tld

(* reconcile adds the bare name where the TLD localhost is the primary one *)
(* (its two loads of the registry are one), an up where it is its own.     *)
Reconciled(reg) ==
    LocalFQDNs(reg) \cup IF PrimaryLocalTLD(reg) = Localhost THEN {BareName} ELSE {}

HostNames(st) ==
    CASE st.op = "reconcile" -> Reconciled(st.reg)
      [] st.op = "up" /\ st.manifest.tld = Localhost -> LocalFQDNs(st.reg) \cup {BareName}
      [] OTHER -> LocalFQDNs(st.reg)

(* The first name that is free or this directory's own.                    *)
Admissible(reg, d) == {n \in Name : reg[n] = NoEntry \/ reg[n].dir = d}
NameFor(reg, d) == CHOOSE n \in Admissible(reg, d) : \A k \in Admissible(reg, d) : n <= k

Registered(reg, d, m) ==
    [reg EXCEPT ![NameFor(reg, d)] = [dir |-> d, manifest |-> m, auto |-> FALSE]]
Without(reg, S) == [n \in Name |-> IF n \in S THEN NoEntry ELSE reg[n]]

-----------------------------------------------------------------------------
Saves(reg) == projects' = reg

At(c, op, pc) == cli[c] # Idle /\ cli[c].op = op /\ cli[c].pc = pc
Goes(c, pc, reg) ==
    /\ cli' = [cli EXCEPT ![c].pc = pc, ![c].reg = reg]
    /\ UNCHANGED last
Ends(c, wrote, ok) ==
    /\ cli' = [cli EXCEPT ![c] = Idle]
    /\ last' = IF wrote \/ (cli[c].op = "down" /\ ok)
               THEN [op |-> cli[c].op, dir |-> cli[c].dir, wrote |-> wrote]
               ELSE Nothing
Done(c) == Ends(c, FALSE, TRUE)
Fails(c) == Ends(c, FALSE, FALSE)

(* What a command does with the copy of the registry it loads.             *)
AfterLoad(op) ==
    CASE op = "up" -> "register"
      [] op = "down" -> "forget"
      [] op \in {"setup", "reconcile"} -> "issue"
      [] OTHER -> "update"

Loads(c, op, d, m) ==
    /\ cli[c] = Idle
    /\ cli' = [cli EXCEPT ![c] = [op |-> op, dir |-> d, manifest |-> m,
                                  pc |-> AfterLoad(op), reg |-> projects]]
    /\ last' = Nothing
    /\ UNCHANGED <<projects, hosts, leaf, agents, gone>>

(* Only up and down have a directory and its manifest.                     *)
Begin(c) ==
    \E op \in {"up", "down"}, d \in Dir \ gone :
        \E m \in Manifests[d] : Loads(c, op, d, m)

(* setup and the daemon's reconcile end at once without local projects.    *)
BeginGlobal(c) ==
    \E op \in Ops \ {"up", "down"} :
        /\ op \in {"setup", "reconcile"} => LocalFQDNs(projects) # {}
        /\ Loads(c, op, Nothing, Nothing)

(* reg.Register, which saves; a remote relay needs none of the rest.       *)
Register(c) ==
    /\ At(c, "up", "register")
    /\ Admissible(cli[c].reg, cli[c].dir) # {}
    /\ LET reg == Registered(cli[c].reg, cli[c].dir, cli[c].manifest)
       IN  /\ Saves(reg)
           /\ IF cli[c].manifest.local
              THEN Goes(c, "issue", reg)
              ELSE Done(c)
    /\ UNCHANGED <<hosts, leaf, agents, gone>>

(* Mutant: the leaf is issued for this project alone.                      *)
IssueOwn(c) ==
    /\ cli[c] # Idle /\ cli[c].pc = "issue"
    /\ leaf' = IF cli[c].op = "up" THEN cli[c].manifest.names ELSE HostNames(cli[c])
    /\ Goes(c, "publish", cli[c].reg)
    /\ UNCHANGED <<projects, hosts, agents, gone>>

(* localca.Ensure: the leaf is kept if it covers the names.                *)
Issue(c) ==
    /\ cli[c] # Idle /\ cli[c].pc = "issue"
    /\ leaf' = IF HostNames(cli[c]) \subseteq leaf THEN leaf ELSE HostNames(cli[c])
    /\ Goes(c, "publish", cli[c].reg)
    /\ UNCHANGED <<projects, hosts, agents, gone>>

(* Mutant: only the entry under the name the directory would get now.      *)
ForgetFirst(c) ==
    /\ At(c, "down", "forget")
    /\ Admissible(cli[c].reg, cli[c].dir) # {}
    /\ LET reg == Without(cli[c].reg, {NameFor(cli[c].reg, cli[c].dir)})
       IN  /\ Saves(reg)
           /\ IF cli[c].manifest.local /\ NeedsHosts(cli[c].manifest.tld)
              THEN Goes(c, "publish", reg)
              ELSE Done(c)
    /\ UNCHANGED <<hosts, leaf, agents, gone>>

(* cmdDown forgets every entry of the directory; without one it saves      *)
(* nothing.                                                                *)
Forget(c) ==
    /\ At(c, "down", "forget")
    /\ LET mine == NamesOfDir(cli[c].reg, cli[c].dir)
           reg == Without(cli[c].reg, mine)
       IN  /\ IF mine = {} THEN UNCHANGED projects ELSE Saves(reg)
           /\ IF cli[c].manifest.local /\ NeedsHosts(cli[c].manifest.tld)
              THEN Goes(c, "publish", reg)
              ELSE Done(c)
    /\ UNCHANGED <<hosts, leaf, agents, gone>>

-----------------------------------------------------------------------------
(* The block.                                                              *)

(* ValidateHosts, against the registry as it is now.                       *)
Allowed(names) ==
    {TLDOf[n] : n \in names} \subseteq {TLDOf[n] : n \in LocalFQDNs(projects)}

(* An up whose TLD resolves natively leaves the block alone, and so does   *)
(* setup if the primary one does.                                          *)
WritesBlock(c) ==
    CASE cli[c].op = "up" -> NeedsHosts(cli[c].manifest.tld)
      [] cli[c].op = "setup" -> NeedsHosts(PrimaryLocalTLD(cli[c].reg))
      [] OTHER -> TRUE

Skip(c) ==
    /\ cli[c] # Idle /\ cli[c].pc = "publish" /\ ~WritesBlock(c)
    /\ Done(c)
    /\ UNCHANGED <<projects, hosts, leaf, agents, gone>>

(* Mutant: an up publishes its own names.                                  *)
PublishOwn(c) ==
    /\ cli[c] # Idle /\ cli[c].pc = "publish" /\ WritesBlock(c)
    /\ hosts' = WriteHosts(hosts, IF cli[c].op = "up" THEN cli[c].manifest.names
                                  ELSE HostNames(cli[c]))
    /\ Ends(c, TRUE, TRUE)
    /\ UNCHANGED <<projects, leaf, agents, gone>>

(* helper.SyncHosts, or the daemon itself: the whole block is replaced.    *)
Publish(c) ==
    /\ cli[c] # Idle /\ cli[c].pc = "publish" /\ WritesBlock(c)
    /\ cli[c].op = "reconcile" \/ Allowed(HostNames(cli[c]))
    /\ hosts' = WriteHosts(hosts, HostNames(cli[c]))
    /\ Ends(c, TRUE, TRUE)
    /\ UNCHANGED <<projects, leaf, agents, gone>>

(* Without a helper: localrelay.SyncHosts, which does nothing for an empty *)
(* list.                                                                   *)
PublishSudo(c) ==
    /\ cli[c] # Idle /\ cli[c].pc = "publish" /\ WritesBlock(c)
    /\ cli[c].op \in {"up", "down"}
    /\ IF HostNames(cli[c]) = {}
       THEN Done(c) /\ UNCHANGED hosts
       ELSE Ends(c, TRUE, TRUE) /\ hosts' = WriteHosts(hosts, HostNames(cli[c]))
    /\ UNCHANGED <<projects, leaf, agents, gone>>

(* The helper refuses the list, or the write fails: down only warns.       *)
PublishFails(c) ==
    /\ cli[c] # Idle /\ cli[c].pc = "publish" /\ WritesBlock(c)
    /\ Ends(c, FALSE, cli[c].op = "down")
    /\ UNCHANGED <<projects, hosts, leaf, agents, gone>>

-----------------------------------------------------------------------------
(* roxey projects and roxey service.                                       *)

ForgetName(c) ==
    /\ At(c, "forget", "update")
    /\ \E n \in Name : cli[c].reg[n] # NoEntry /\ Saves(Without(cli[c].reg, {n}))
    /\ Done(c)
    /\ UNCHANGED <<hosts, leaf, agents, gone>>

(* Listing the projects drops those whose directory is gone.               *)
Prune(c) ==
    /\ At(c, "list", "update")
    /\ LET dead == {n \in Name : cli[c].reg[n] # NoEntry /\ cli[c].reg[n].dir \in gone}
       IN  IF dead = {} THEN UNCHANGED projects ELSE Saves(Without(cli[c].reg, dead))
    /\ Done(c)
    /\ UNCHANGED <<hosts, leaf, agents, gone>>

Autostart(c) ==
    /\ At(c, "autostart", "update")
    /\ \E n \in Name, on \in BOOLEAN :
          /\ cli[c].reg[n] # NoEntry
          /\ on => Cardinality(agents \cup {n}) <= MaxAgents
          /\ Saves([cli[c].reg EXCEPT ![n].auto = on])
          /\ agents' = IF on THEN agents \cup {n} ELSE agents \ {n}
    /\ Done(c)
    /\ UNCHANGED <<hosts, leaf, gone>>

(* service uninstall removes the agents of the projects marked autostart.  *)
Uninstall(c) ==
    /\ At(c, "uninstall", "update")
    /\ agents' = {n \in agents : cli[c].reg[n] = NoEntry \/ ~cli[c].reg[n].auto}
    /\ Done(c)
    /\ UNCHANGED <<projects, hosts, leaf, gone>>

(* An unknown name.                                                        *)
UpdateFails(c) ==
    /\ At(c, "forget", "update") \/ At(c, "autostart", "update")
    /\ Fails(c)
    /\ UNCHANGED <<projects, hosts, leaf, agents, gone>>

-----------------------------------------------------------------------------
(* A command may be cut short between any two steps.                       *)
Kill(c) ==
    /\ cli[c] # Idle
    /\ Fails(c)
    /\ UNCHANGED <<projects, hosts, leaf, agents, gone>>

RemoveDir(d) ==
    /\ d \notin gone /\ \A c \in Command : cli[c] # Idle => cli[c].dir # d
    /\ gone' = gone \cup {d}
    /\ UNCHANGED <<projects, hosts, leaf, agents, cli, last>>

(* While no command runs the administrator adds a line below all others.   *)
Edit(l) ==
    /\ ~Contains(hosts, l) /\ \A c \in Command : cli[c] = Idle
    /\ hosts' = (IF Last(hosts) = Blank THEN Front(hosts) ELSE hosts) \o <<l, Blank>>
    /\ UNCHANGED <<projects, leaf, agents, gone, cli, last>>

CommandStep(c) ==
    \/ Register(c) \/ Issue(c) \/ Forget(c)
    \/ Skip(c) \/ Publish(c) \/ PublishSudo(c) \/ PublishFails(c)
    \/ ForgetName(c) \/ Prune(c) \/ Autostart(c) \/ Uninstall(c) \/ UpdateFails(c)

Next ==
    \/ \E c \in Command : Begin(c) \/ BeginGlobal(c) \/ CommandStep(c) \/ Kill(c)
    \/ \E d \in Dir : RemoveDir(d)
    \/ \E l \in AdminLine : Edit(l)

Spec == Init /\ [][Next]_vars

-----------------------------------------------------------------------------
(* Properties                                                              *)

OneAtATime == \A c, d \in Command : c = d
LastDid(op) == last # Nothing /\ last.op = op

(* Hazard: an up or down that failed or was killed half-way leaves names   *)
(* registered but not mapped or certified, or mapped but not registered.   *)
(* One at a time, a command that wrote the block leaves in it the names of *)
(* the registered local projects ("cumulative across projects",            *)
(* README.md:196) and nothing else, but for the bare localhost that a      *)
(* reconcile adds where that TLD is the primary one (daemon.go:70-72); and *)
(* an up leaves a leaf that covers the names.                              *)
BlockIsRegistry ==
    OneAtATime /\ last # Nothing /\ last.wrote =>
        /\ Managed(hosts) = IF LastDid("reconcile") THEN Reconciled(projects)
                                                    ELSE LocalFQDNs(projects)
        /\ LastDid("up") => LocalFQDNs(projects) \subseteq leaf

(* Hazard: a sequence of up, forget and up gives a directory a second name *)
(* (the base name came free), and down then leaves one behind, whose hosts *)
(* are published for ever.  One at a time, after down no entry of the      *)
(* directory is left ("covers previews too", main.go:1187).                *)
DownForgetsEverything ==
    OneAtATime /\ LastDid("down") => NamesOfDir(projects, last.dir) = {}

(* The mapped names of registered local projects in other directories.     *)
OthersMapped(c) ==
    Managed(hosts) \cap UNION {e.manifest.names :
                        e \in {x \in LocalEntries(projects) : x.dir # cli[c].dir}}

(* Hazard: each command rebuilds the whole block from its own copy of the  *)
(* registry.  "bringing one project up never breaks another's URLs"        *)
(* (main.go:914-915), "down removes only that project's names"             *)
(* (README.md:196): no command unmaps a name of another registered         *)
(* project.  It holds one at a time; a command that loaded the registry    *)
(* before another one registered publishes its old copy.                   *)
OthersKeepTheirNames ==
    [][\A c \in Command :
          cli[c] # Idle /\ cli'[c] # cli[c] =>
              OthersMapped(c) \subseteq Managed(hosts')]_vars

(* Hazard: the block is cut out of a file that the administrator, too,     *)
(* adds lines to, above it and below, and is appended again thousands of   *)
(* times.  No command loses or reorders a line outside the block, leaves a *)
(* second block or lets the file grow: what is written again is written    *)
(* the same (mergeHostsBlock).                                             *)
AdminsLines(file) == Subsequence(file, {i \in DOMAIN file : file[i] \in AdminLine})
Count(l, file) == Cardinality({i \in 1..Len(file) : file[i] = l})

AdminsLinesStay ==
    [][\A c \in Command : cli[c] # Idle /\ cli'[c] # cli[c] =>
          /\ AdminsLines(hosts') = AdminsLines(hosts)
          /\ hosts' # hosts =>
                /\ Count(BeginLine, hosts') = Count(EndLine, hosts')
                /\ Count(BeginLine, hosts') <= 1
                /\ WriteHosts(hosts', Managed(hosts')) = hosts']_vars
=============================================================================
