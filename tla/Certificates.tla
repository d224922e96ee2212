----------------------------- MODULE Certificates -----------------------------
(***************************************************************************)
(* The certificates of the local relay: localca.Ensure, which makes a CA   *)
(* and a leaf that covers the hosts of the registered projects, the OS     *)
(* trust store, and the relay that serves the leaf (CertLoader).  Ensure   *)
(* is run without a lock by every up and setup, as the user, and by the    *)
(* helper daemon when it starts, as root; each may be killed between any   *)
(* two steps, and os.WriteFile truncates a file before it fills it.        *)
(***************************************************************************)
EXTENDS CertLoader

CONSTANTS
    Proc,        \* processes that run at once
    Wanted,      \* the host lists they read from the registry
    Admin        \* roxey.<tld>, the name HealthOK asks for

VARIABLES
    rooted,      \* files the daemon created and has not chowned yet
    store,       \* CAs in the OS trust store
    proc,        \* [Proc -> where its Ensure is, None if there is none]
    disturbed,   \* two processes at once, or the daemon died (history)
    last         \* how the last one ended, until the next (history)

vars == <<file, loader, rooted, store, proc, disturbed, last>>
untouched == <<rooted, store>>

Process ==
    [op : {"up", "reconcile"}, hosts : Wanted,
     pc : File \cup {"ca", "leaf", "check", "chown", "trust", "wait"},
     cut : BOOLEAN,               \* the file it writes is truncated
     ca : CA \cup {None},         \* the CA it loaded or made
     leaf : Leaf \cup {None},     \* the leaf it issued
     alone : BOOLEAN]             \* and nobody else since it began (history)

(* Every up asks for the relay's own name, and no process is nil.          *)
ASSUME CertificatesAssumption ==
    /\ \A hosts \in Wanted : hosts \subseteq Name /\ Admin \in hosts
    /\ None \notin Process

Active == {p \in Proc : proc[p] # None}
At(p, pc) == proc[p] # None /\ proc[p].pc = pc

Init ==
    /\ file = [f \in File |-> Absent]
    /\ loader = NewLoader
    /\ rooted = {} /\ store = {}
    /\ proc = [p \in Proc |-> None]
    /\ disturbed = FALSE
    /\ last = None

Goes(p, pc) ==
    /\ proc' = [proc EXCEPT ![p].pc = pc]
    /\ UNCHANGED <<disturbed, last>>

Ends(p, how) ==
    /\ proc' = [proc EXCEPT ![p] = None]
    /\ last' = how
    /\ UNCHANGED disturbed

Fails(p) == Ends(p, "failed")

-----------------------------------------------------------------------------
(* An up or a setup begins, or the one daemon.                             *)
Begin(p) ==
    /\ proc[p] = None
    /\ \E op \in {"up", "reconcile"}, hosts \in Wanted :
          /\ op = "reconcile" => \A q \in Active : proc[q].op = "up"
          /\ proc' = [q \in Proc |->
                IF q = p
                THEN [op |-> op, hosts |-> hosts, pc |-> "ca", cut |-> FALSE,
                      ca |-> None, leaf |-> None, alone |-> Active = {}]
                ELSE IF q \in Active THEN [proc[q] EXCEPT !.alone = FALSE]
                                     ELSE None]
    /\ disturbed' = (disturbed \/ Active # {})
    /\ last' = None
    /\ UNCHANGED <<file, loader, untouched>>

(* Ctrl-C, a reboot.                                                       *)
Kill(p) ==
    /\ proc[p] # None
    /\ proc' = [proc EXCEPT ![p] = None]
    /\ disturbed' = (disturbed \/ proc[p].op = "reconcile")
    /\ last' = None
    /\ UNCHANGED <<file, loader, untouched>>

-----------------------------------------------------------------------------
(* Permissions: keys are 0600, certificates 0644.                          *)
Opens(p, f) == proc[p].op = "reconcile" \/ f \notin rooted

(* loadOrCreateCA takes the pair that is there.  LoadX509KeyPair reads two *)
(* files: with one rival that writes them, what it finds is what both held *)
(* at some moment in between.                                              *)
CAUsable(p) ==
    /\ file["ca.crt"] \in CA
    /\ file["ca.key"] = file["ca.crt"]
    /\ Opens(p, "ca.key")

UsedCAs ==
    {file["ca.crt"], file["ca.key"]} \cup store
    \cup {proc[p].ca : p \in Active}
    \cup {l.issuer : l \in
              Leaf \cap {file["leaf.crt"], loader.cached, loader.crt}}

(* loadOrCreateCA: the CA on disk, or a new one.                           *)
LoadCA(p) ==
    /\ At(p, "ca")
    /\ \/ /\ CAUsable(p)
          /\ proc' = [proc EXCEPT ![p] =
                         [@ EXCEPT !.pc = "leaf", !.ca = file["ca.crt"]]]
       \/ /\ ~CAUsable(p)
          /\ \E c \in CA \ UsedCAs :
                proc' = [proc EXCEPT ![p] = [@ EXCEPT !.pc = "ca.crt", !.ca = c]]
    /\ UNCHANGED <<file, loader, untouched, disturbed, last>>

UsedPairs ==
    {file["leaf.key"]}
    \cup {l.pair : l \in
              Leaf \cap ({file["leaf.crt"], loader.cached, loader.crt}
                         \cup {proc[p].leaf : p \in Active})}

(* Mutant: the certificate alone decides.                                  *)
KeptByName(p) ==
    file["leaf.crt"] \in Leaf /\ proc[p].hosts \subseteq file["leaf.crt"].names

(* The leaf is kept while its pair loads and it has the names.             *)
Kept(p) ==
    /\ PairOnDisk /\ Opens(p, "leaf.key")
    /\ proc[p].hosts \subseteq file["leaf.crt"].names

(* Ensure returns.                                                         *)
Returns(p) ==
    /\ LET next == IF proc[p].op = "reconcile" THEN "chown" ELSE "trust"
       IN proc' = [proc EXCEPT ![p] =
                     [@ EXCEPT !.pc = next, !.ca = None, !.leaf = None]]
    /\ UNCHANGED <<disturbed, last>>

(* Ensure: the leaf on disk, or a new one.                                 *)
CheckLeaf(p) ==
    /\ At(p, "leaf")
    /\ \/ Kept(p) /\ Returns(p)
       \/ /\ ~Kept(p)
          /\ \E k \in Pair \ UsedPairs :
                LET leaf == [pair |-> k, issuer |-> proc[p].ca,
                             names |-> proc[p].hosts]
                IN proc' = [proc EXCEPT ![p] =
                              [@ EXCEPT !.pc = "leaf.crt", !.leaf = leaf]]
          /\ UNCHANGED <<disturbed, last>>
    /\ UNCHANGED <<file, loader, untouched>>

(* Mutant: the CA's key is written last of all.                            *)
KeyLast(f) ==
    CASE f = "ca.crt" -> "leaf" [] f = "leaf.crt" -> "leaf.key"
      [] f = "leaf.key" -> "ca.key" [] f = "ca.key" -> "check"

(* The order in which Ensure writes.                                       *)
After(f) ==
    CASE f = "ca.crt" -> "ca.key" [] f = "ca.key" -> "leaf"
      [] f = "leaf.crt" -> "leaf.key" [] f = "leaf.key" -> "check"

Written(p, f) ==
    CASE f \in {"ca.crt", "ca.key"} -> proc[p].ca
      [] f = "leaf.crt" -> proc[p].leaf
      [] f = "leaf.key" -> proc[p].leaf.pair

(* os.WriteFile opens and truncates; what it creates is its own.           *)
Truncate(p, f) ==
    /\ At(p, f) /\ ~proc[p].cut /\ Opens(p, f)
    /\ Writes(f, Torn)
    /\ rooted' = IF file[f] = Absent /\ proc[p].op = "reconcile"
                 THEN rooted \cup {f} ELSE rooted
    /\ proc' = [proc EXCEPT ![p].cut = TRUE]
    /\ UNCHANGED <<store, disturbed, last>>

OpenFails(p, f) ==
    /\ At(p, f) /\ ~proc[p].cut /\ ~Opens(p, f)
    /\ Fails(p)
    /\ UNCHANGED <<file, loader, untouched>>

(* os.WriteFile fills the file.                                            *)
Fill(p, f) ==
    /\ At(p, f) /\ proc[p].cut
    /\ Writes(f, Written(p, f))
    /\ proc' = [proc EXCEPT ![p] = [@ EXCEPT !.cut = FALSE, !.pc = After(f)]]
    /\ UNCHANGED <<untouched, disturbed, last>>

(* Ensure loads what it wrote.                                             *)
LoadLeaf(p) ==
    /\ At(p, "check")
    /\ IF PairOnDisk THEN Returns(p) ELSE Fails(p)
    /\ UNCHANGED <<file, loader, untouched>>

(* chownCerts gives every file to the owner of the state directory.        *)
ChownCerts(p) ==
    /\ At(p, "chown")
    /\ rooted' = {}
    /\ Goes(p, "trust")
    /\ UNCHANGED <<file, loader, store>>

-----------------------------------------------------------------------------
(* Trusted: the leaf on disk verifies against the OS pool.                 *)
Verifies(l, roots) ==
    l \in Leaf /\ l.issuer \in roots

AfterTrust(p) ==
    IF proc[p].op = "up" THEN Goes(p, "wait") ELSE Ends(p, "done")

(* TrustCA, by the process or the helper: on Linux the file of the store   *)
(* is replaced, on macOS a certificate is added.                           *)
Trust(p) ==
    /\ At(p, "trust")
    /\ \/ Verifies(file["leaf.crt"], store) /\ UNCHANGED store
       \/ /\ ~Verifies(file["leaf.crt"], store)
          /\ \E kept \in {{}, store} :
                store' = kept \cup (CA \cap {file["ca.crt"]})
    /\ AfterTrust(p)
    /\ UNCHANGED <<file, loader, rooted>>

(* No admin rights: an up fails, the daemon only reports it.               *)
TrustFails(p) ==
    /\ At(p, "trust")
    /\ ~Verifies(file["leaf.crt"], store)
    /\ Ends(p, IF proc[p].op = "up" THEN "untrusted" ELSE "done")
    /\ UNCHANGED <<file, loader, untouched>>

(* HealthOK: the relay's certificate verifies against ca.crt for Admin.    *)
Healthy ==
    Verifies(Serves, {file["ca.crt"]}) /\ Admin \in Serves.names

(* waitRelay polls until it has an answer it trusts, or gives up.          *)
WaitRelay(p) ==
    /\ At(p, "wait")
    /\ Ends(p, IF Healthy THEN "ok" ELSE "unhealthy")
    /\ UNCHANGED <<file, loader, untouched>>

ProcStep(p) ==
    \/ Begin(p) \/ Kill(p) \/ LoadCA(p) \/ CheckLeaf(p)
    \/ \E f \in File : Truncate(p, f) \/ OpenFails(p, f) \/ Fill(p, f)
    \/ LoadLeaf(p) \/ ChownCerts(p)
    \/ Trust(p) \/ TrustFails(p) \/ WaitRelay(p)

Next ==
    \/ \E p \in Proc : ProcStep(p)
    \/ LoaderStep /\ UNCHANGED <<untouched, proc, disturbed, last>>

Spec == Init /\ [][Next]_vars

-----------------------------------------------------------------------------
(* Properties                                                              *)

CertificatesTypeOK ==
    /\ file \in [File -> CA \cup Pair \cup Leaf \cup {Absent, Torn}]
    /\ \A f \in File : file[f] \in Content(f)
    /\ loader \in Handshake
    /\ rooted \subseteq File /\ store \subseteq CA
    /\ proc \in [Proc -> Process \cup {None}]
    /\ disturbed \in BOOLEAN
    /\ last \in {None, "ok", "done", "failed", "untrusted", "unhealthy"}

(* Hazard: whatever earlier processes left behind -- files cut short, a    *)
(* leaf with another one's key, a CA without its key -- the next Ensure    *)
(* has to notice and make up for it.  One that nobody interfered with and  *)
(* that came through leaves a pair on disk that covers its hosts           *)
(* ("Ensure returns a TLS leaf certificate covering hosts",                *)
(* localca.go:54).                                                         *)
AloneCovers ==
    \A p \in Active :
        proc[p].alone /\ proc[p].pc \in {"chown", "trust", "wait"} =>
            PairOnDisk /\ proc[p].hosts \subseteq file["leaf.crt"].names

(* Hazard: an up is killed between the files it writes, and the next one   *)
(* makes another CA, keeps a leaf of the old one, or finds files it may    *)
(* not open, and fails ever after.  As long as processes came one at a     *)
(* time, and none of the daemon was cut short, an up that is not killed or *)
(* refused the admin rights succeeds, and leaves a pair that verifies      *)
(* against the CA on disk and is trusted by the OS ("so browsers and the   *)
(* CLI itself trust https://<host>.<tld>", localca.go:1-4).                *)
UndisturbedUpsWork ==
    ~disturbed /\ last # None =>
        /\ last \in {"ok", "done", "untrusted"}
        /\ last = "ok" =>
              /\ PairOnDisk
              /\ Verifies(file["leaf.crt"], {file["ca.crt"]})
              /\ Verifies(file["leaf.crt"], store)
=============================================================================
