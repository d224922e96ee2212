------------------------------ MODULE CertLoader ------------------------------
(***************************************************************************)
(* The certificate files of the local relay and certLoader, through which  *)
(* the relay serves them (src/backend/main.go).  Every handshake compares  *)
(* the modification time of leaf.crt with that of the pair it has cached,  *)
(* and reads leaf.crt and then leaf.key when they differ; writers take no  *)
(* notice of it.  The module has no specification of its own: Certificates *)
(* writes the files, with Writes.                                          *)
(*                                                                         *)
(* A modification time is compared with that of leaf.crt only, so all that *)
(* is kept of one is whether it is still current: no two writes of the     *)
(* file have the same time.                                                *)
(***************************************************************************)
EXTENDS FiniteSets

CONSTANTS
    Name,        \* host names a certificate may cover
    CA, Pair,    \* identities of CA key pairs and of leaf key pairs
    Absent,      \* a file that does not exist
    Torn,        \* a file that os.WriteFile has truncated and not yet filled
    None         \* nil

VARIABLES
    file,        \* [File -> what it holds]
    loader       \* certLoader, and the handshake it is in

File == {"ca.crt", "ca.key", "leaf.crt", "leaf.key"}
Leaf == [pair : Pair, issuer : CA, names : SUBSET Name]

Content(f) ==
    {Absent, Torn} \cup (IF f \in {"ca.crt", "ca.key"} THEN CA
                         ELSE IF f = "leaf.crt" THEN Leaf ELSE Pair)

(* No certificate is one of the marks.                                     *)
ASSUME LoaderAssumption ==
    /\ None \notin Leaf
    /\ Absent \notin Leaf \cup Pair /\ Torn \notin Leaf \cup Pair

(* tls.LoadX509KeyPair takes the pair: both parse and belong together.     *)
PairOnDisk ==
    file["leaf.crt"] \in Leaf /\ file["leaf.key"] = file["leaf.crt"].pair

Handshake ==
    [cached : Leaf \cup {None},        \* c.cached
     modTime : {"current", "old"},     \* c.modTime
     pc : {"idle", "crt", "key"},
     stat : {"none", "current", "old"},  \* what os.Stat said
     crt : Content("leaf.crt"),        \* what it has read of leaf.crt
     quiet : BOOLEAN]                  \* no write since Stat (history)

NewLoader ==
    [cached |-> None, modTime |-> "old", pc |-> "idle", stat |-> "none",
     crt |-> Absent, quiet |-> FALSE]

-----------------------------------------------------------------------------
(* Writers.                                                                *)

(* A write of leaf.crt outdates every modification time of it.             *)
Outdated(t) == IF t = "current" THEN "old" ELSE t

Touched(f) ==
    CASE f = "leaf.crt" -> [loader EXCEPT !.modTime = "old",
                               !.stat = Outdated(@), !.quiet = FALSE]
      [] f = "leaf.key" -> [loader EXCEPT !.quiet = FALSE]
      [] OTHER -> loader

Writes(f, x) ==
    /\ file' = [file EXCEPT ![f] = x]
    /\ loader' = Touched(f)

-----------------------------------------------------------------------------
(* GetCertificate, under c.mu.                                             *)

(* os.Stat; the cached pair answers while the time is that of the file.    *)
Stat ==
    /\ loader.pc = "idle"
    /\ LET there == file["leaf.crt"] # Absent
       IN loader' =
             IF loader.cached # None /\ loader.modTime = "current" /\ there
             THEN [loader EXCEPT !.quiet = TRUE]
             ELSE [loader EXCEPT !.pc = "crt", !.quiet = TRUE,
                      !.stat = IF there THEN "current" ELSE "none"]
    /\ UNCHANGED file

ReadCrt ==
    /\ loader.pc = "crt"
    /\ loader' = [loader EXCEPT !.pc = "key", !.crt = file["leaf.crt"]]
    /\ UNCHANGED file

PairRead == loader.crt \in Leaf /\ file["leaf.key"] = loader.crt.pair

HandshakeEnds(cached, modTime) ==
    loader' = [loader EXCEPT !.pc = "idle", !.stat = "none", !.crt = Absent,
                             !.cached = cached, !.modTime = modTime]

(* Mutant: the pair is stamped with the time of the file as it is now.     *)
ReadKeyStatsLate ==
    /\ loader.pc = "key"
    /\ IF PairRead THEN HandshakeEnds(loader.crt, "current")
                   ELSE HandshakeEnds(loader.cached, loader.modTime)
    /\ UNCHANGED file

(* The pair is cached under the time os.Stat gave; where it gave none, but *)
(* the file has come meanwhile, fi.ModTime() panics and net/http ends the  *)
(* handshake.  What cannot be loaded leaves the previous pair in place.    *)
ReadKey ==
    /\ loader.pc = "key"
    /\ IF PairRead /\ loader.stat # "none"
       THEN HandshakeEnds(loader.crt, loader.stat)
       ELSE HandshakeEnds(loader.cached, loader.modTime)
    /\ UNCHANGED file

(* A new relay process has nothing cached.                                 *)
RelayRestarts ==
    /\ loader # NewLoader
    /\ loader' = NewLoader
    /\ UNCHANGED file

LoaderStep == Stat \/ ReadCrt \/ ReadKey \/ RelayRestarts

(* What a handshake without an interruption is answered with, None being   *)
(* an error.                                                               *)
Serves ==
    IF PairOnDisk /\ (loader.cached = None \/ loader.modTime = "old")
    THEN file["leaf.crt"] ELSE loader.cached

-----------------------------------------------------------------------------
(* Hazard: a handshake interleaves with the four writes of a reissue, and  *)
(* caches half of an old pair and half of a new one, or a pair under a     *)
(* time that is not its own, which is then served for good.  Every         *)
(* handshake is answered with c.cached, and where nothing was written      *)
(* since it began, and the disk holds a pair, that is the pair on disk     *)
(* ("the running relay should pick that up without a restart",             *)
(* main.go:130-132).                                                       *)
ServesTheDisk ==
    loader.pc = "idle" /\ loader.quiet /\ PairOnDisk =>
        loader.cached = file["leaf.crt"]
=============================================================================
