-------------------------- MODULE CertificatesProofs --------------------------
(***************************************************************************)
(* Proofs about Certificates, for any processes, CAs, key pairs and hosts: *)
(* the relay serves what is on disk, an Ensure that was alone covers its   *)
(* hosts, and without overlaps every up works.                             *)
(***************************************************************************)
EXTENDS Certificates, TLAPS

(* The files and the handshake.  A time that is current is that of the     *)
(* pair it is kept with, and what a quiet handshake has read is there.     *)
DiskInv ==
    /\ file \in [File -> CA \cup Pair \cup Leaf \cup {Absent, Torn}]
    /\ \A f \in File : file[f] \in Content(f)
    /\ loader \in Handshake
    /\ loader.modTime = "current" =>
          loader.cached # None /\ loader.cached = file["leaf.crt"]
    /\ loader.pc = "key" /\ loader.stat = "current" =>
          loader.crt = file["leaf.crt"]
    /\ loader.pc # "idle" /\ loader.quiet =>
          /\ loader.stat # "old"
          /\ loader.stat = "none" => file["leaf.crt"] = Absent
          /\ loader.pc = "key" => loader.crt = file["leaf.crt"]
    /\ ServesTheDisk

(* A process has what it is about to write.                                *)
ProcInv ==
    /\ rooted \subseteq File /\ store \subseteq CA
    /\ proc \in [Proc -> Process \cup {None}]
    /\ disturbed \in BOOLEAN
    /\ last \in {None, "ok", "done", "failed", "untrusted", "unhealthy"}
    /\ \A p \in Active :
          /\ proc[p].pc \in {"ca.crt", "ca.key", "leaf"} => proc[p].ca \in CA
          /\ proc[p].pc \in {"leaf.crt", "leaf.key", "check"} =>
                proc[p].leaf \in Leaf
          /\ proc[p].pc = "chown" => proc[p].op = "reconcile"
          /\ proc[p].pc = "wait" => proc[p].op = "up"

(* A process that was alone finds what it wrote.                           *)
AloneInv ==
    \A p \in Active : proc[p].alone =>
        /\ \A q \in Active : q = p
        /\ proc[p].pc \in {"leaf.crt", "leaf.key", "check"} =>
              proc[p].leaf.names = proc[p].hosts
        /\ proc[p].pc \in {"leaf.key", "check"} =>
              file["leaf.crt"] = proc[p].leaf
        /\ proc[p].pc = "check" => file["leaf.key"] = proc[p].leaf.pair
        /\ proc[p].pc \in {"chown", "trust", "wait"} =>
              PairOnDisk /\ proc[p].hosts \subseteq file["leaf.crt"].names

(* Processes that come one at a time: a leaf is never without its CA.      *)
OneAtATime ==
    /\ \A p \in Active : proc[p].alone
    /\ rooted # {} => \E p \in Active : /\ proc[p].op = "reconcile"
                                        /\ proc[p].pc \notin {"trust", "wait"}
    /\ last # None => Active = {}

SameCA(c) == file["ca.crt"] = c /\ file["ca.key"] = c

LeafHasCA ==
    /\ file["leaf.crt"] \in Leaf => SameCA(file["leaf.crt"].issuer)
    /\ \A p \in Active :
          /\ proc[p].pc \in {"ca.crt", "ca.key"} => file["leaf.crt"] \notin Leaf
          /\ proc[p].pc = "ca.key" => file["ca.crt"] = proc[p].ca
          /\ proc[p].pc = "leaf" => SameCA(proc[p].ca)
          /\ proc[p].pc \in {"leaf.crt", "leaf.key", "check"} =>
                SameCA(proc[p].leaf.issuer)
          /\ proc[p].pc = "wait" => Verifies(file["leaf.crt"], store)

UndisturbedInv == ~disturbed => OneAtATime /\ LeafHasCA

IInv == DiskInv /\ ProcInv /\ AloneInv /\ UndisturbedInv /\ UndisturbedUpsWork

-----------------------------------------------------------------------------
(* The files and the handshake                                             *)

LEMMA WritesDisk ==
    ASSUME DiskInv, NEW f \in File, NEW x \in Content(f), Writes(f, x)
    PROVE  DiskInv'
<1>1. /\ file' \in [File -> CA \cup Pair \cup Leaf \cup {Absent, Torn}]
      /\ \A g \in File : file'[g] \in Content(g)
      /\ \A g \in File : file'[g] = IF g = f THEN x ELSE file[g]
  BY DEF DiskInv, Writes, Content, File
<1>2. CASE f = "leaf.crt"
  <2>1. loader' = [loader EXCEPT !.modTime = "old", !.stat = Outdated(@),
                                 !.quiet = FALSE]
    BY <1>2 DEF Writes, Touched
  <2> QED BY <1>1, <2>1 DEF DiskInv, Handshake, Outdated, ServesTheDisk
<1>3. CASE f = "leaf.key"
  <2>1. loader' = [loader EXCEPT !.quiet = FALSE]
    BY <1>3 DEF Writes, Touched
  <2>2. file'["leaf.crt"] = file["leaf.crt"] BY <1>1, <1>3 DEF File
  <2> QED BY <1>1, <2>1, <2>2 DEF DiskInv, Handshake, ServesTheDisk
<1>4. CASE f \notin {"leaf.crt", "leaf.key"}
  <2>1. loader' = loader BY <1>4 DEF Writes, Touched
  <2>2. /\ file'["leaf.crt"] = file["leaf.crt"]
        /\ file'["leaf.key"] = file["leaf.key"]
    BY <1>1, <1>4 DEF File
  <2> QED BY <1>1, <2>1, <2>2 DEF DiskInv, ServesTheDisk, PairOnDisk
<1> QED BY <1>2, <1>3, <1>4

LEMMA LoaderDisk == ASSUME DiskInv, LoaderStep PROVE DiskInv'
<1>1. UNCHANGED file BY DEF LoaderStep, Stat, ReadCrt, ReadKey, RelayRestarts
<1>2. PairOnDisk' <=> PairOnDisk BY <1>1 DEF PairOnDisk
<1>3. CASE Stat
  BY <1>1, <1>2, <1>3 DEF Stat, DiskInv, Handshake, ServesTheDisk
<1>4. CASE ReadCrt
  BY <1>1, <1>2, <1>4 DEF ReadCrt, DiskInv, Handshake, ServesTheDisk, Content, File
<1>5. CASE ReadKey
  <2>1. CASE PairRead /\ loader.stat # "none"
    <3>1. loader' = [loader EXCEPT !.pc = "idle", !.stat = "none", !.crt = Absent,
                        !.cached = loader.crt, !.modTime = loader.stat]
      BY <1>5, <2>1 DEF ReadKey, HandshakeEnds
    <3>2. loader.crt \in Leaf BY <2>1 DEF PairRead
    <3>3. Absent \in Content("leaf.crt") BY DEF Content
    <3> QED BY <1>1, <1>2, <1>5, <2>1, <3>1, <3>2, <3>3, LoaderAssumption
            DEF ReadKey, DiskInv, Handshake, ServesTheDisk
  <2>2. CASE ~(PairRead /\ loader.stat # "none")
    <3>1. loader' = [loader EXCEPT !.pc = "idle", !.stat = "none", !.crt = Absent,
                        !.cached = loader.cached, !.modTime = loader.modTime]
      BY <1>5, <2>2 DEF ReadKey, HandshakeEnds
    <3>2. loader.quiet => ~PairOnDisk
      BY <1>5, <2>2, LoaderAssumption DEF ReadKey, PairRead, PairOnDisk, DiskInv
    <3>3. Absent \in Content("leaf.crt") BY DEF Content
    <3> QED BY <1>1, <1>2, <3>1, <3>2, <3>3 DEF DiskInv, Handshake, ServesTheDisk
  <2> QED BY <2>1, <2>2
<1>6. CASE RelayRestarts
  BY <1>1, <1>6 DEF RelayRestarts, NewLoader, DiskInv, Handshake, ServesTheDisk, Content
<1> QED BY <1>3, <1>4, <1>5, <1>6 DEF LoaderStep

(* Of a process, only its writes touch them.                               *)
LEMMA ProcStepDisk ==
    ASSUME DiskInv, ProcInv, NEW p \in Proc, ProcStep(p) PROVE DiskInv'
<1>1. CASE UNCHANGED <<file, loader>>
  BY <1>1 DEF DiskInv, ServesTheDisk, PairOnDisk
<1>2. ASSUME NEW f \in File, Truncate(p, f) PROVE DiskInv'
  BY <1>2, WritesDisk DEF Truncate, Content
<1>3. ASSUME NEW f \in File, Fill(p, f) PROVE DiskInv'
  <2>1. p \in Active BY <1>3 DEF Fill, At, Active
  <2>2. Written(p, f) \in Content(f)
    BY <1>3, <2>1 DEF Fill, At, Written, Content, ProcInv, File, Leaf
  <2> QED BY <1>3, <2>2, WritesDisk DEF Fill
<1> QED
  BY <1>1, <1>2, <1>3
  DEF ProcStep, Begin, Kill, LoadCA, CheckLeaf, OpenFails, LoadLeaf, ChownCerts,
      Trust, TrustFails, WaitRelay

-----------------------------------------------------------------------------
(* The processes                                                           *)

Inv == ProcInv /\ AloneInv /\ UndisturbedInv /\ UndisturbedUpsWork

Becomes(p, r) == proc' = [proc EXCEPT ![p] = r]

LEMMA Moves ==
    ASSUME ProcInv, NEW p \in Active, NEW r \in Process, Becomes(p, r)
    PROVE  /\ proc' \in [Proc -> Process \cup {None}]
           /\ Active' = Active
           /\ \A q \in Active : proc'[q] = IF q = p THEN r ELSE proc[q]
BY CertificatesAssumption DEF ProcInv, Active, Becomes

(* What p has in hand after a step, and what a step leaves as it was.      *)
Turns(p, r, pc, ca, leaf) ==
    /\ r.op = proc[p].op /\ r.hosts = proc[p].hosts /\ r.alone = proc[p].alone
    /\ r.pc = pc /\ r.ca = ca /\ r.leaf = leaf

(* The provers see the fields of a process record one edit at a time.      *)
LEMMA EditedProcess ==
    ASSUME NEW s \in Process,
           NEW pc \in File \cup {"ca", "leaf", "check", "chown", "trust", "wait"},
           NEW ca \in CA \cup {None}, NEW leaf \in Leaf \cup {None}
    PROVE  /\ [s EXCEPT !.pc = pc] \in Process
           /\ [s EXCEPT !.pc = pc, !.ca = ca] \in Process
           /\ [s EXCEPT !.pc = pc, !.leaf = leaf] \in Process
           /\ [s EXCEPT !.pc = pc, !.ca = ca, !.leaf = leaf] \in Process
           /\ [s EXCEPT !.cut = TRUE] \in Process
           /\ [s EXCEPT !.cut = FALSE, !.pc = pc] \in Process
<1>1. [s EXCEPT !.pc = pc] \in Process BY DEF Process
<1>2. [s EXCEPT !.pc = pc, !.ca = ca] \in Process BY DEF Process
<1>3. [s EXCEPT !.pc = pc, !.leaf = leaf] \in Process BY DEF Process
<1>4. [s EXCEPT !.pc = pc, !.ca = ca, !.leaf = leaf] \in Process BY DEF Process
<1>5. [s EXCEPT !.cut = TRUE] \in Process BY DEF Process
<1>6. [s EXCEPT !.cut = FALSE, !.pc = pc] \in Process BY DEF Process
<1> QED BY <1>1, <1>2, <1>3, <1>4, <1>5, <1>6

LEMMA Leaves ==
    ASSUME ProcInv, NEW p \in Active, proc' = [proc EXCEPT ![p] = None]
    PROVE  /\ proc' \in [Proc -> Process \cup {None}]
           /\ Active' = Active \ {p}
           /\ \A q \in Active' : proc'[q] = proc[q]
BY DEF ProcInv, Active

(* Who is active is a process; without overlaps, nobody else is.           *)
LEMMA Acts ==
    ASSUME IInv, NEW p \in Active
    PROVE  /\ proc[p] \in Process
           /\ ~disturbed => /\ \A q \in Active : q = p
                            /\ last = None
                            /\ proc[p].op = "up" => rooted = {}
                            /\ proc[p].pc \in {"trust", "wait"} => rooted = {}
BY DEF IInv, ProcInv, Active, AloneInv, UndisturbedInv, OneAtATime, Process

LEMMA BeginInv == ASSUME IInv, NEW p \in Proc, Begin(p) PROVE Inv'
<1>1. PICK op \in {"up", "reconcile"}, hosts \in Wanted :
        proc' = [q \in Proc |->
           IF q = p
           THEN [op |-> op, hosts |-> hosts, pc |-> "ca", cut |-> FALSE,
                 ca |-> None, leaf |-> None, alone |-> Active = {}]
           ELSE IF q \in Active THEN [proc[q] EXCEPT !.alone = FALSE] ELSE None]
  BY DEF Begin
<1>2. PICK new \in Process :
        /\ new.pc = "ca"
        /\ new.alone => Active = {}
        /\ Active = {} => new.alone
        /\ proc' = [q \in Proc |->
              IF q = p THEN new
              ELSE IF q \in Active THEN [proc[q] EXCEPT !.alone = FALSE] ELSE None]
  <2> DEFINE Alone(b) == [op |-> op, hosts |-> hosts, pc |-> "ca", cut |-> FALSE,
                          ca |-> None, leaf |-> None, alone |-> b]
  <2>1. Alone(TRUE) \in Process /\ Alone(FALSE) \in Process BY DEF Process
  <2>2. CASE Active = {}
    <3>1. (Active = {}) = TRUE BY <2>2
    <3> QED BY <1>1, <2>1, <2>2, <3>1
  <2>3. CASE Active # {}
    <3>1. (Active = {}) = FALSE BY <2>3
    <3> QED BY <1>1, <2>1, <2>3, <3>1
  <2> QED BY <2>2, <2>3
<1>3. p \notin Active BY DEF Begin, Active
<1>4. ASSUME NEW q \in Active
      PROVE  /\ proc[q] \in Process /\ proc'[q] \in Process
             /\ proc'[q].alone = FALSE
             /\ proc'[q].op = proc[q].op /\ proc'[q].pc = proc[q].pc
             /\ proc'[q].ca = proc[q].ca /\ proc'[q].leaf = proc[q].leaf
  <2>1. proc[q] \in Process BY DEF Active, IInv, ProcInv
  <2>2. proc'[q] = [proc[q] EXCEPT !.alone = FALSE] BY <1>2, <1>3 DEF Active
  <2> QED BY <2>1, <2>2 DEF Process
<1>5. proc'[p] = new BY <1>2
<1>6. Active' = Active \cup {p}
  BY <1>2, <1>4, <1>5, CertificatesAssumption DEF Active
<1>7. proc' \in [Proc -> Process \cup {None}] BY <1>2, <1>4, <1>5
<1>8. /\ UNCHANGED <<file, rooted, store>> /\ last' = None
      /\ disturbed' \in BOOLEAN
      /\ ~disturbed' => ~disturbed /\ Active = {}
  BY DEF Begin, untouched, IInv, ProcInv
<1>9. ProcInv'
  <2>1. \A q \in Active' : q = p \/ q \in Active BY <1>6
  <2>2. rooted' \subseteq File /\ store' \subseteq CA BY <1>8 DEF IInv, ProcInv
  <2>3. ASSUME NEW q \in Active'
        PROVE  /\ proc'[q].pc \in {"ca.crt", "ca.key", "leaf"} => proc'[q].ca \in CA
               /\ proc'[q].pc \in {"leaf.crt", "leaf.key", "check"} =>
                     proc'[q].leaf \in Leaf
               /\ proc'[q].pc = "chown" => proc'[q].op = "reconcile"
               /\ proc'[q].pc = "wait" => proc'[q].op = "up"
    <3>1. CASE q = p BY <1>2, <1>5, <3>1
    <3>2. CASE q \in Active BY <1>4, <3>2 DEF IInv, ProcInv
    <3> QED BY <2>1, <3>1, <3>2
  <2> QED BY <1>7, <1>8, <2>2, <2>3 DEF ProcInv
<1>10. AloneInv'
  <2>1. \A q \in Active' : proc'[q].alone => q = p /\ Active' = {p}
    BY <1>2, <1>4, <1>5, <1>6
  <2> QED BY <1>2, <1>5, <2>1 DEF AloneInv
<1>11. UndisturbedInv' /\ UndisturbedUpsWork'
  BY <1>2, <1>5, <1>6, <1>8
  DEF IInv, UndisturbedInv, OneAtATime, LeafHasCA, SameCA, UndisturbedUpsWork
<1> QED BY <1>9, <1>10, <1>11 DEF Inv

LEMMA KillInv == ASSUME IInv, NEW p \in Proc, Kill(p) PROVE Inv'
<1>1. p \in Active BY DEF Kill, Active
<1>2. ProcInv /\ proc' = [proc EXCEPT ![p] = None] BY DEF Kill, IInv
<1>3. /\ UNCHANGED <<file, rooted, store>> /\ last' = None
      /\ disturbed' \in BOOLEAN
      /\ ~disturbed' => ~disturbed /\ proc[p].op # "reconcile"
  BY DEF Kill, untouched, IInv, ProcInv
<1>0. /\ proc' \in [Proc -> Process \cup {None}]
      /\ Active' = Active \ {p}
      /\ \A q \in Active' : proc'[q] = proc[q]
  BY <1>1, <1>2, Leaves
<1>4. ProcInv' BY <1>0, <1>3 DEF IInv, ProcInv
<1>5. AloneInv' BY <1>0, <1>3 DEF IInv, AloneInv, PairOnDisk
<1>6. ASSUME ~disturbed' PROVE OneAtATime' /\ LeafHasCA'
  <2>1. proc[p].op = "up" /\ ~disturbed BY <1>1, <1>3, <1>6, Acts DEF Process
  <2>2. rooted = {} /\ Active' = {} BY <1>0, <1>1, <2>1, Acts
  <2> QED
    BY <1>3, <2>1, <2>2 DEF IInv, UndisturbedInv, OneAtATime, LeafHasCA, SameCA
<1>7. UndisturbedInv' /\ UndisturbedUpsWork'
  BY <1>3, <1>6 DEF UndisturbedInv, UndisturbedUpsWork
<1> QED BY <1>4, <1>5, <1>7 DEF Inv

(* An end that leaves files, owners and store alone keeps the invariant    *)
(* when what it says of them is true.                                      *)
LEMMA EndsInv ==
    ASSUME IInv, NEW p \in Active,
           NEW how \in {"ok", "done", "failed", "untrusted", "unhealthy"},
           Ends(p, how), UNCHANGED <<file, rooted>>, store' \subseteq CA,
           ~disturbed => /\ rooted = {}
                         /\ how \in {"ok", "done", "untrusted"}
                         /\ how = "ok" =>
                              /\ store' = store /\ PairOnDisk
                              /\ Verifies(file["leaf.crt"], {file["ca.crt"]})
                              /\ Verifies(file["leaf.crt"], store)
    PROVE  Inv'
<1>1. ProcInv /\ proc' = [proc EXCEPT ![p] = None] /\ last' = how
      /\ disturbed' = disturbed
  BY DEF Ends, IInv
<1>0. /\ proc' \in [Proc -> Process \cup {None}]
      /\ Active' = Active \ {p}
      /\ \A q \in Active' : proc'[q] = proc[q]
  BY <1>1, Leaves
<1>2. ProcInv' /\ AloneInv'
  <2>1. ProcInv' BY <1>0, <1>1 DEF IInv, ProcInv
  <2>2. AloneInv' BY <1>0 DEF IInv, AloneInv, PairOnDisk
  <2> QED BY <2>1, <2>2
<1>3. ~disturbed => Active' = {} BY <1>0, Acts
<1>4. UndisturbedInv'
  BY <1>1, <1>3 DEF IInv, UndisturbedInv, OneAtATime, LeafHasCA, SameCA
<1>5. UndisturbedUpsWork'
  BY <1>1 DEF UndisturbedUpsWork, PairOnDisk, Verifies
<1> QED BY <1>2, <1>4, <1>5 DEF Inv

LEMMA LoadCAInv == ASSUME IInv, NEW p \in Proc, LoadCA(p) PROVE Inv'
<1>1. p \in Active /\ proc[p].pc = "ca" BY DEF LoadCA, At, Active
<1>2. UNCHANGED <<file, rooted, store, disturbed, last>>
  BY DEF LoadCA, untouched
<1>3. CASE /\ CAUsable(p)
           /\ proc' = [proc EXCEPT ![p] =
                         [@ EXCEPT !.pc = "leaf", !.ca = file["ca.crt"]]]
  <2>1. PICK r \in Process : /\ r = [proc[p] EXCEPT !.pc = "leaf", !.ca = file["ca.crt"]]
                             /\ Becomes(p, r)
    <3>1. [proc[p] EXCEPT !.pc = "leaf", !.ca = file["ca.crt"]] \in Process
      BY <1>1, <1>3, Acts, EditedProcess DEF CAUsable
    <3>2. Becomes(p, [proc[p] EXCEPT !.pc = "leaf", !.ca = file["ca.crt"]])
      BY <1>3 DEF Becomes
    <3> QED BY <3>1, <3>2
  <2>2. SameCA(file["ca.crt"]) /\ file["ca.crt"] \in CA BY <1>3 DEF CAUsable, SameCA
  <2>3. /\ Active' = Active /\ proc' \in [Proc -> Process \cup {None}]
        /\ \A q \in Active : proc'[q] = IF q = p THEN r ELSE proc[q]
    BY <1>1, <2>1, Moves DEF IInv
  <2>4. Turns(p, r, "leaf", file["ca.crt"], proc[p].leaf)
    BY <1>1, <2>1, Acts DEF Process, Turns
  <2>5. ProcInv' /\ AloneInv'
    BY <1>1, <1>2, <2>2, <2>3, <2>4 DEF IInv, ProcInv, AloneInv, PairOnDisk, Turns
  <2>6. UndisturbedInv' /\ UndisturbedUpsWork'
    BY <1>1, <1>2, <2>2, <2>3, <2>4, Acts
    DEF IInv, UndisturbedInv, OneAtATime, LeafHasCA, SameCA, UndisturbedUpsWork, Turns
  <2> QED BY <2>5, <2>6 DEF Inv
<1>4. CASE /\ ~CAUsable(p)
           /\ \E c \in CA \ UsedCAs :
                 proc' = [proc EXCEPT ![p] = [@ EXCEPT !.pc = "ca.crt", !.ca = c]]
  <2>0. PICK c \in CA :
          proc' = [proc EXCEPT ![p] = [@ EXCEPT !.pc = "ca.crt", !.ca = c]]
    BY <1>4
  <2>1. PICK r \in Process : /\ r = [proc[p] EXCEPT !.pc = "ca.crt", !.ca = c]
                             /\ Becomes(p, r)
    <3>1. [proc[p] EXCEPT !.pc = "ca.crt", !.ca = c] \in Process
      BY <1>1, <2>0, Acts, EditedProcess DEF File
    <3>2. Becomes(p, [proc[p] EXCEPT !.pc = "ca.crt", !.ca = c])
      BY <2>0 DEF Becomes
    <3> QED BY <3>1, <3>2
  <2>2. ~disturbed => file["leaf.crt"] \notin Leaf
    BY <1>1, <1>4, Acts DEF CAUsable, Opens, IInv, UndisturbedInv, LeafHasCA, SameCA,
       Process, Leaf
  <2>3. /\ Active' = Active /\ proc' \in [Proc -> Process \cup {None}]
        /\ \A q \in Active : proc'[q] = IF q = p THEN r ELSE proc[q]
    BY <1>1, <2>1, Moves DEF IInv
  <2>4. Turns(p, r, "ca.crt", c, proc[p].leaf)
    BY <1>1, <2>1, Acts DEF Process, Turns
  <2>5. ProcInv' /\ AloneInv'
    BY <1>1, <1>2, <2>0, <2>3, <2>4 DEF IInv, ProcInv, AloneInv, PairOnDisk, Turns
  <2>6. UndisturbedInv' /\ UndisturbedUpsWork'
    BY <1>1, <1>2, <2>2, <2>3, <2>4, Acts
    DEF IInv, UndisturbedInv, OneAtATime, LeafHasCA, SameCA, UndisturbedUpsWork, Turns
  <2> QED BY <2>5, <2>6 DEF Inv
<1> QED BY <1>3, <1>4 DEF LoadCA

LEMMA ReturnsInv ==
    ASSUME IInv, NEW p \in Active, Returns(p), UNCHANGED <<file, untouched>>,
           proc[p].alone =>
              PairOnDisk /\ proc[p].hosts \subseteq file["leaf.crt"].names
    PROVE  Inv'
<1>1. PICK next \in {"chown", "trust"} :
        /\ next = IF proc[p].op = "reconcile" THEN "chown" ELSE "trust"
        /\ proc' = [proc EXCEPT ![p] =
                      [@ EXCEPT !.pc = next, !.ca = None, !.leaf = None]]
  BY DEF Returns
<1>2. UNCHANGED <<file, rooted, store, disturbed, last>>
  BY DEF Returns, untouched
<1>3. PICK r \in Process :
        /\ r = [proc[p] EXCEPT !.pc = next, !.ca = None, !.leaf = None]
        /\ Becomes(p, r)
  <2>1. [proc[p] EXCEPT !.pc = next, !.ca = None, !.leaf = None] \in Process
    BY <1>1, Acts, EditedProcess
  <2>2. Becomes(p, [proc[p] EXCEPT !.pc = next, !.ca = None, !.leaf = None])
    BY <1>1 DEF Becomes
  <2> QED BY <2>1, <2>2
<1>4. /\ Active' = Active /\ proc' \in [Proc -> Process \cup {None}]
      /\ \A q \in Active : proc'[q] = IF q = p THEN r ELSE proc[q]
  BY <1>3, Moves DEF IInv
<1>5. Turns(p, r, next, None, None)
  BY <1>3, Acts DEF Process, Turns
<1>6. ProcInv' /\ AloneInv'
  BY <1>1, <1>2, <1>4, <1>5 DEF IInv, ProcInv, AloneInv, PairOnDisk, Turns
<1>7. UndisturbedInv' /\ UndisturbedUpsWork'
  BY <1>1, <1>2, <1>4, <1>5, Acts
  DEF IInv, UndisturbedInv, OneAtATime, LeafHasCA, SameCA, UndisturbedUpsWork, Turns
<1> QED BY <1>6, <1>7 DEF Inv

LEMMA CheckLeafInv == ASSUME IInv, NEW p \in Proc, CheckLeaf(p) PROVE Inv'
<1>1. p \in Active /\ proc[p].pc = "leaf" BY DEF CheckLeaf, At, Active
<1>2. CASE Kept(p) /\ Returns(p)
  BY <1>1, <1>2, ReturnsInv DEF CheckLeaf, Kept
<1>3. CASE ~(Kept(p) /\ Returns(p))
  <2>1. PICK k \in Pair :
          proc' = [proc EXCEPT ![p] =
                     [@ EXCEPT !.pc = "leaf.crt",
                               !.leaf = [pair |-> k, issuer |-> proc[p].ca,
                                         names |-> proc[p].hosts]]]
    BY <1>3 DEF CheckLeaf
  <2>2. UNCHANGED <<file, rooted, store, disturbed, last>>
    BY <1>3 DEF CheckLeaf, untouched
  <2>3. PICK leaf \in Leaf :
          /\ leaf = [pair |-> k, issuer |-> proc[p].ca, names |-> proc[p].hosts]
          /\ leaf.issuer = proc[p].ca /\ leaf.names = proc[p].hosts
    <3>1. proc[p].ca \in CA BY <1>1 DEF IInv, ProcInv
    <3>2. proc[p].hosts \in Wanted BY <1>1, Acts DEF Process
    <3>3. proc[p].hosts \in SUBSET Name BY <3>2, CertificatesAssumption
    <3>4. PICK names \in SUBSET Name, issuer \in CA :
            names = proc[p].hosts /\ issuer = proc[p].ca
      BY <3>1, <3>3
    <3>5. [pair |-> k, issuer |-> issuer, names |-> names] \in Leaf
      BY <2>1, <3>4 DEF Leaf
    <3> QED BY <3>4, <3>5
  <2>4. PICK r \in Process : /\ r = [proc[p] EXCEPT !.pc = "leaf.crt", !.leaf = leaf]
                             /\ Becomes(p, r)
    <3>1. proc' = [proc EXCEPT ![p] = [@ EXCEPT !.pc = "leaf.crt", !.leaf = leaf]]
      BY <2>1, <2>3
    <3>2. [proc[p] EXCEPT !.pc = "leaf.crt", !.leaf = leaf] \in Process
      BY <1>1, <2>3, Acts, EditedProcess DEF File
    <3> QED BY <3>1, <3>2 DEF Becomes
  <2>5. /\ Active' = Active /\ proc' \in [Proc -> Process \cup {None}]
        /\ \A q \in Active : proc'[q] = IF q = p THEN r ELSE proc[q]
    BY <1>1, <2>4, Moves DEF IInv
  <2>6. Turns(p, r, "leaf.crt", proc[p].ca, leaf)
    BY <1>1, <2>4, Acts DEF Process, Turns
  <2>7. ProcInv' /\ AloneInv'
    BY <1>1, <2>2, <2>3, <2>5, <2>6 DEF IInv, ProcInv, AloneInv, PairOnDisk, Turns
  <2>8. UndisturbedInv' /\ UndisturbedUpsWork'
    BY <1>1, <2>2, <2>3, <2>5, <2>6, Acts
    DEF IInv, UndisturbedInv, OneAtATime, LeafHasCA, SameCA, UndisturbedUpsWork, Turns
  <2> QED BY <2>7, <2>8 DEF Inv
<1> QED BY <1>2, <1>3

LEMMA TruncateInv ==
    ASSUME IInv, NEW p \in Proc, NEW f \in File, Truncate(p, f) PROVE Inv'
<1>1. p \in Active /\ proc[p].pc = f BY DEF Truncate, At, Active
<1>2. PICK r \in Process : /\ r = [proc[p] EXCEPT !.cut = TRUE]
                           /\ Becomes(p, r)
  <2>1. [proc[p] EXCEPT !.cut = TRUE] \in Process
    BY <1>1, Acts, EditedProcess
  <2>2. Becomes(p, [proc[p] EXCEPT !.cut = TRUE])
    BY DEF Truncate, Becomes
  <2> QED BY <2>1, <2>2
<1>3. /\ Active' = Active /\ proc' \in [Proc -> Process \cup {None}]
      /\ \A q \in Active : proc'[q] = IF q = p THEN r ELSE proc[q]
  BY <1>1, <1>2, Moves DEF IInv
<1>4. /\ UNCHANGED <<store, disturbed, last>>
      /\ rooted' \in SUBSET File
      /\ rooted' # rooted => proc[p].op = "reconcile"
  BY DEF Truncate, IInv, ProcInv
<1>5. \A g \in File : file'[g] = IF g = f THEN Torn ELSE file[g]
  BY DEF Truncate, Writes, IInv, DiskInv
<1>6. /\ r.pc = f /\ r.op = proc[p].op /\ r.ca = proc[p].ca /\ r.hosts = proc[p].hosts
      /\ r.leaf = proc[p].leaf /\ r.alone = proc[p].alone
  BY <1>1, <1>2, Acts DEF Process
<1>7. ProcInv'
  BY <1>1, <1>3, <1>4, <1>6 DEF IInv, ProcInv
<1>8. AloneInv'
  BY <1>1, <1>3, <1>5, <1>6 DEF IInv, AloneInv, PairOnDisk, File
<1>9. UndisturbedInv'
  <2> SUFFICES ASSUME ~disturbed PROVE OneAtATime' /\ LeafHasCA'
    BY <1>4 DEF UndisturbedInv
  <2>1. OneAtATime /\ LeafHasCA /\ \A q \in Active : q = p
    BY <1>1, Acts DEF IInv, UndisturbedInv
  <2>2. OneAtATime'
    BY <1>1, <1>3, <1>4, <1>6, <2>1 DEF OneAtATime, File
  <2>3. LeafHasCA'
    BY <1>1, <1>3, <1>5, <1>6, <2>1, LoaderAssumption DEF LeafHasCA, SameCA, File
  <2> QED BY <2>2, <2>3
<1>10. UndisturbedUpsWork'
  BY <1>1, <1>4, Acts DEF UndisturbedUpsWork
<1> QED BY <1>7, <1>8, <1>9, <1>10 DEF Inv

LEMMA FillInv ==
    ASSUME IInv, NEW p \in Proc, NEW f \in File, Fill(p, f) PROVE Inv'
<1>1. p \in Active /\ proc[p].pc = f BY DEF Fill, At, Active
<1>2. PICK r \in Process : /\ r = [proc[p] EXCEPT !.cut = FALSE, !.pc = After(f)]
                           /\ Becomes(p, r)
  <2>1. [proc[p] EXCEPT !.cut = FALSE, !.pc = After(f)] \in Process
    BY <1>1, Acts, EditedProcess DEF File, After
  <2>2. Becomes(p, [proc[p] EXCEPT !.cut = FALSE, !.pc = After(f)])
    BY DEF Fill, Becomes
  <2> QED BY <2>1, <2>2
<1>3. /\ Active' = Active /\ proc' \in [Proc -> Process \cup {None}]
      /\ \A q \in Active : proc'[q] = IF q = p THEN r ELSE proc[q]
  BY <1>1, <1>2, Moves DEF IInv
<1>4. UNCHANGED <<store, rooted, disturbed, last>> BY DEF Fill, untouched
<1>5. \A g \in File : file'[g] = IF g = f THEN Written(p, f) ELSE file[g]
  BY DEF Fill, Writes, IInv, DiskInv
<1>6. /\ r.pc = After(f) /\ r.op = proc[p].op /\ r.ca = proc[p].ca
      /\ r.hosts = proc[p].hosts /\ r.leaf = proc[p].leaf /\ r.alone = proc[p].alone
  BY <1>1, <1>2, Acts DEF Process
<1>7. ProcInv'
  <2>1. /\ r.pc \in {"ca.crt", "ca.key", "leaf"} => r.ca \in CA
        /\ r.pc \in {"leaf.crt", "leaf.key", "check"} => r.leaf \in Leaf
        /\ r.pc \notin {"chown", "wait"}
    BY <1>1, <1>6 DEF IInv, ProcInv, After, File
  <2> QED BY <1>3, <1>4, <2>1 DEF IInv, ProcInv
<1>8. AloneInv'
  BY <1>1, <1>3, <1>5, <1>6 DEF IInv, ProcInv, AloneInv, PairOnDisk, File, After, Written
<1>9. UndisturbedInv'
  <2> SUFFICES ASSUME ~disturbed PROVE OneAtATime' /\ LeafHasCA'
    BY <1>4 DEF UndisturbedInv
  <2>1. OneAtATime /\ LeafHasCA /\ \A q \in Active : q = p
    BY <1>1, Acts DEF IInv, UndisturbedInv
  <2>2. OneAtATime'
    BY <1>1, <1>3, <1>4, <1>6, <2>1 DEF OneAtATime, File, After
  <2>3. LeafHasCA'
    BY <1>1, <1>3, <1>5, <1>6, <2>1 DEF LeafHasCA, SameCA, File, After, Written
  <2> QED BY <2>2, <2>3
<1>10. UndisturbedUpsWork'
  BY <1>1, <1>4, Acts DEF UndisturbedUpsWork
<1> QED BY <1>7, <1>8, <1>9, <1>10 DEF Inv

LEMMA LoadLeafInv == ASSUME IInv, NEW p \in Proc, LoadLeaf(p) PROVE Inv'
<1>1. p \in Active /\ proc[p].pc = "check" BY DEF LoadLeaf, At, Active
<1>2. UNCHANGED <<file, untouched>> BY DEF LoadLeaf
<1>3. proc[p].alone =>
        PairOnDisk /\ proc[p].hosts \subseteq file["leaf.crt"].names
  BY <1>1 DEF IInv, ProcInv, AloneInv, PairOnDisk
<1>4. CASE PairOnDisk BY <1>1, <1>2, <1>3, <1>4, ReturnsInv DEF LoadLeaf
<1>5. CASE ~PairOnDisk
  <2>1. disturbed BY <1>1, <1>3, <1>5 DEF IInv, UndisturbedInv, OneAtATime
  <2>2. Ends(p, "failed") BY <1>5 DEF LoadLeaf, Fails
  <2>3. store' \subseteq CA BY <1>2 DEF untouched, IInv, ProcInv
  <2> QED BY <1>1, <1>2, <2>1, <2>2, <2>3, EndsInv DEF untouched
<1> QED BY <1>4, <1>5

LEMMA OpenFailsInv ==
    ASSUME IInv, NEW p \in Proc, NEW f \in File, OpenFails(p, f) PROVE Inv'
<1>1. p \in Active BY DEF OpenFails, At, Active
<1>2. disturbed BY <1>1, Acts DEF OpenFails, Opens, Process
<1>3. Ends(p, "failed") /\ UNCHANGED <<file, rooted, store>>
  BY DEF OpenFails, Fails, untouched
<1>4. store' \subseteq CA BY <1>3 DEF IInv, ProcInv
<1> QED BY <1>1, <1>2, <1>3, <1>4, EndsInv

LEMMA ChownCertsInv == ASSUME IInv, NEW p \in Proc, ChownCerts(p) PROVE Inv'
<1>1. p \in Active /\ proc[p].pc = "chown" BY DEF ChownCerts, At, Active
<1>2. PICK r \in Process : /\ r = [proc[p] EXCEPT !.pc = "trust"]
                           /\ Becomes(p, r)
  <2>1. [proc[p] EXCEPT !.pc = "trust"] \in Process
    BY <1>1, Acts, EditedProcess
  <2>2. Becomes(p, [proc[p] EXCEPT !.pc = "trust"])
    BY DEF ChownCerts, Goes, Becomes
  <2> QED BY <2>1, <2>2
<1>3. /\ Active' = Active /\ proc' \in [Proc -> Process \cup {None}]
      /\ \A q \in Active : proc'[q] = IF q = p THEN r ELSE proc[q]
  BY <1>1, <1>2, Moves DEF IInv
<1>4. rooted' = {} /\ UNCHANGED <<file, store, disturbed, last>>
  BY DEF ChownCerts, Goes
<1>5. Turns(p, r, "trust", proc[p].ca, proc[p].leaf)
  BY <1>1, <1>2, Acts DEF Process, Turns
<1>6. ProcInv' /\ AloneInv'
  BY <1>1, <1>3, <1>4, <1>5 DEF IInv, ProcInv, AloneInv, PairOnDisk, Turns
<1>7. UndisturbedInv' /\ UndisturbedUpsWork'
  BY <1>1, <1>3, <1>4, <1>5, Acts
  DEF IInv, UndisturbedInv, OneAtATime, LeafHasCA, SameCA, UndisturbedUpsWork, Turns
<1> QED BY <1>6, <1>7 DEF Inv

(* Trusted or made so: the leaf verifies against the store.                *)
LEMMA TrustVerifies ==
    ASSUME IInv, NEW p \in Proc, Trust(p)
    PROVE  /\ store' \subseteq CA
           /\ ~disturbed => Verifies(file["leaf.crt"], store')
<1>1. p \in Active /\ proc[p].pc = "trust" BY DEF Trust, At, Active
<1>2. ~disturbed => file["leaf.crt"] \in Leaf /\ SameCA(file["leaf.crt"].issuer)
  BY <1>1 DEF IInv, UndisturbedInv, OneAtATime, LeafHasCA, AloneInv, PairOnDisk
<1> QED BY <1>2 DEF Trust, Verifies, IInv, ProcInv, SameCA, Leaf

LEMMA TrustInv == ASSUME IInv, NEW p \in Proc, Trust(p) PROVE Inv'
<1>1. p \in Active /\ proc[p].pc = "trust" BY DEF Trust, At, Active
<1>2. UNCHANGED <<file, rooted>> BY DEF Trust
<1>3. CASE proc[p].op = "up"
  <2>1. PICK r \in Process : /\ r = [proc[p] EXCEPT !.pc = "wait"]
                             /\ Becomes(p, r)
    <3>1. [proc[p] EXCEPT !.pc = "wait"] \in Process
      BY <1>1, Acts, EditedProcess
    <3>2. Becomes(p, [proc[p] EXCEPT !.pc = "wait"])
      BY <1>3 DEF Trust, AfterTrust, Goes, Becomes
    <3> QED BY <3>1, <3>2
  <2>2. /\ Active' = Active /\ proc' \in [Proc -> Process \cup {None}]
        /\ \A q \in Active : proc'[q] = IF q = p THEN r ELSE proc[q]
    BY <1>1, <2>1, Moves DEF IInv
  <2>3. UNCHANGED <<disturbed, last>> BY <1>3 DEF Trust, AfterTrust, Goes
  <2>4. Turns(p, r, "wait", proc[p].ca, proc[p].leaf)
    BY <1>1, <2>1, Acts DEF Process, Turns
  <2>5. ProcInv' /\ AloneInv'
    BY <1>1, <1>2, <1>3, <2>2, <2>3, <2>4, TrustVerifies
    DEF IInv, ProcInv, AloneInv, PairOnDisk, Turns
  <2>6. UndisturbedInv' /\ UndisturbedUpsWork'
    BY <1>1, <1>2, <2>2, <2>3, <2>4, TrustVerifies, Acts
    DEF IInv, UndisturbedInv, OneAtATime, LeafHasCA, SameCA, UndisturbedUpsWork, Turns
  <2> QED BY <2>5, <2>6 DEF Inv
<1>4. CASE proc[p].op # "up"
  <2>1. Ends(p, "done") BY <1>4 DEF Trust, AfterTrust
  <2>2. store' \subseteq CA BY TrustVerifies
  <2> QED BY <1>1, <1>2, <2>1, <2>2, Acts, EndsInv
<1> QED BY <1>3, <1>4

LEMMA TrustFailsInv == ASSUME IInv, NEW p \in Proc, TrustFails(p) PROVE Inv'
<1>1. p \in Active /\ proc[p].pc = "trust" BY DEF TrustFails, At, Active
<1>2. PICK how \in {"untrusted", "done"} : Ends(p, how) BY DEF TrustFails
<1>3. UNCHANGED <<file, rooted, store>> /\ store' \subseteq CA
  BY DEF TrustFails, untouched, IInv, ProcInv
<1> QED BY <1>1, <1>2, <1>3, Acts, EndsInv

(* The relay has the leaf on disk, or will read it: HealthOK says yes.     *)
LEMMA WaitRelayInv == ASSUME IInv, NEW p \in Proc, WaitRelay(p) PROVE Inv'
<1>1. p \in Active /\ proc[p].pc = "wait" BY DEF WaitRelay, At, Active
<1>2. UNCHANGED <<file, rooted, store>> /\ store' \subseteq CA
  BY DEF WaitRelay, untouched, IInv, ProcInv
<1>3. PICK how \in {"ok", "unhealthy"} :
        Ends(p, how) /\ how = IF Healthy THEN "ok" ELSE "unhealthy"
  BY DEF WaitRelay
<1>4. ASSUME ~disturbed
      PROVE  /\ PairOnDisk
             /\ Verifies(file["leaf.crt"], {file["ca.crt"]})
             /\ Verifies(file["leaf.crt"], store)
             /\ Healthy
  <2>1. /\ PairOnDisk /\ proc[p].hosts \subseteq file["leaf.crt"].names
        /\ SameCA(file["leaf.crt"].issuer) /\ Verifies(file["leaf.crt"], store)
    BY <1>1, <1>4 DEF IInv, UndisturbedInv, OneAtATime, LeafHasCA, AloneInv, PairOnDisk
  <2>2. Verifies(file["leaf.crt"], {file["ca.crt"]})
    BY <2>1 DEF Verifies, PairOnDisk, SameCA
  <2>3. Serves = file["leaf.crt"]
    BY <2>1 DEF Serves, IInv, DiskInv, Handshake
  <2>4. Admin \in file["leaf.crt"].names
    BY <1>1, <2>1, Acts, CertificatesAssumption DEF Process
  <2> QED BY <2>1, <2>2, <2>3, <2>4 DEF Healthy
<1> QED BY <1>1, <1>2, <1>3, <1>4, Acts, EndsInv

-----------------------------------------------------------------------------
(* The theorems                                                            *)

LEMMA InitIInv == Init => IInv
<1> SUFFICES ASSUME Init PROVE IInv OBVIOUS
<1>1. Active = {} BY DEF Init, Active
<1>2. file["leaf.crt"] \notin Leaf BY LoaderAssumption DEF Init, File
<1>3. DiskInv
  BY DEF Init, DiskInv, ServesTheDisk, PairOnDisk, NewLoader, Handshake, Content, File
<1>4. ProcInv /\ AloneInv BY <1>1 DEF Init, ProcInv, AloneInv
<1>5. UndisturbedInv /\ UndisturbedUpsWork
  BY <1>1, <1>2
  DEF Init, UndisturbedInv, OneAtATime, LeafHasCA, UndisturbedUpsWork
<1> QED BY <1>3, <1>4, <1>5 DEF IInv

LEMMA NextIInv == IInv /\ [Next]_vars => IInv'
<1> SUFFICES ASSUME IInv, [Next]_vars PROVE IInv' OBVIOUS
<1>1. ASSUME NEW p \in Proc, ProcStep(p) PROVE IInv'
  <2>1. DiskInv' BY <1>1, ProcStepDisk DEF IInv
  <2>2. Inv'
    BY <1>1, BeginInv, KillInv, LoadCAInv, CheckLeafInv, TruncateInv, OpenFailsInv,
       FillInv, LoadLeafInv, ChownCertsInv, TrustInv, TrustFailsInv, WaitRelayInv
    DEF ProcStep
  <2> QED BY <2>1, <2>2 DEF IInv, Inv
<1>2. CASE LoaderStep /\ UNCHANGED <<untouched, proc, disturbed, last>>
  <2>1. DiskInv' BY <1>2, LoaderDisk DEF IInv
  <2>2. UNCHANGED <<file, rooted, store, proc, disturbed, last>>
    BY <1>2 DEF LoaderStep, Stat, ReadCrt, ReadKey, RelayRestarts, untouched
  <2>3. ProcInv' /\ AloneInv' BY <2>2 DEF IInv, ProcInv, AloneInv, Active, PairOnDisk
  <2>4. UndisturbedInv' /\ UndisturbedUpsWork'
    BY <2>2 DEF IInv, UndisturbedInv, OneAtATime, LeafHasCA, SameCA, Active,
       UndisturbedUpsWork, Verifies, PairOnDisk
  <2> QED BY <2>1, <2>3, <2>4 DEF IInv
<1>3. CASE UNCHANGED vars
  <2>1. UNCHANGED <<file, loader, rooted, store, proc, disturbed, last>>
    BY <1>3 DEF vars
  <2>2. DiskInv' BY <2>1 DEF IInv, DiskInv, ServesTheDisk, PairOnDisk
  <2>3. ProcInv' /\ AloneInv' BY <2>1 DEF IInv, ProcInv, AloneInv, Active, PairOnDisk
  <2>4. UndisturbedInv' /\ UndisturbedUpsWork'
    BY <2>1 DEF IInv, UndisturbedInv, OneAtATime, LeafHasCA, SameCA, Active,
       UndisturbedUpsWork, Verifies, PairOnDisk
  <2> QED BY <2>2, <2>3, <2>4 DEF IInv
<1> QED BY <1>1, <1>2, <1>3 DEF Next

LEMMA CertificatesInvariant == Spec => []IInv
BY InitIInv, NextIInv, PTL DEF Spec

(* The variables stay what they were declared to be.                       *)
THEOREM CertificatesTypes == Spec => []CertificatesTypeOK
<1>1. IInv => CertificatesTypeOK
  BY DEF IInv, DiskInv, ProcInv, CertificatesTypeOK
<1> QED BY <1>1, CertificatesInvariant, PTL

(* Whatever the processes write, and however a handshake interleaves with  *)
(* it, the relay serves the pair on disk (certLoader.GetCertificate).      *)
THEOREM RelayServesTheDisk == Spec => []ServesTheDisk
<1>1. IInv => ServesTheDisk BY DEF IInv, DiskInv
<1> QED BY <1>1, CertificatesInvariant, PTL

(* An Ensure that was alone leaves a pair that covers its hosts, whatever  *)
(* those before it left behind.                                            *)
THEOREM AnEnsureCovers == Spec => []AloneCovers
<1>1. IInv => AloneCovers BY DEF IInv, AloneInv, AloneCovers
<1> QED BY <1>1, CertificatesInvariant, PTL

(* As long as processes come one at a time and no daemon is cut short, no  *)
(* up fails but for want of admin rights, wherever others were killed.     *)
THEOREM UpsWork == Spec => []UndisturbedUpsWork
<1>1. IInv => UndisturbedUpsWork BY DEF IInv
<1> QED BY <1>1, CertificatesInvariant, PTL
=============================================================================
