------------------------------ MODULE HostsFile ------------------------------
(***************************************************************************)
(* The block that roxey manages in /etc/hosts (localrelay/hosts.go).  A    *)
(* file is the sequence of its lines as strings.Split gives them: one that *)
(* ends in a newline has an empty last line.  A line of the block is the   *)
(* name it maps, any other line is the administrator's.                    *)
(***************************************************************************)
EXTENDS SequencesExt, Subsequences

CONSTANTS
    BeginLine, EndLine,      \* the marker lines
    Blank                    \* the empty line

ASSUME HostsAssumption == Cardinality({BeginLine, EndLine, Blank}) = 3

(* RenderBlock: no names, no block.  The order is the caller's, and fixed. *)
RenderBlock(names) ==
    IF names = {} THEN <<>> ELSE <<BeginLine>> \o SetToSeq(names) \o <<EndLine>>

-----------------------------------------------------------------------------
(* The lines outside blocks.  A block without an end goes to the end.      *)
InBlock(file, i) ==
    \E b \in 1..i : file[b] = BeginLine /\ \A j \in b..i : file[j] # EndLine

(* Mutant: everything from the first marker on is the block.               *)
KeptAbove(file) ==
    SubSeq(file, 1, CHOOSE n \in 0..Len(file) :
                        /\ n = Len(file) \/ file[n + 1] = BeginLine
                        /\ \A i \in 1..n : file[i] # BeginLine)

Kept(file) ==
    Subsequence(file, {i \in DOMAIN file : file[i] # EndLine /\ ~InBlock(file, i)})

(* The names the block maps.                                               *)
Managed(file) == {file[i] : i \in {k \in 1..Len(file) : InBlock(file, k)}} \ {BeginLine}

-----------------------------------------------------------------------------
(* Trailing newlines are trimmed to the empty line before the block, if    *)
(* there is anything to set it off from and it is not there already.       *)
Trimmed(file) ==
    SubSeq(file, 1, CHOOSE n \in 1..Len(file) :
                        /\ n = 1 \/ file[n] # Blank
                        /\ \A i \in n+1..Len(file) : file[i] = Blank)

EndsBlank(file) ==
    Len(file) > 2 /\ file[Len(file)] = Blank /\ file[Len(file) - 1] = Blank

SetOff(file) ==
    CASE file \in {<<>>, <<Blank>>} -> <<Blank>>
      [] EndsBlank(file) -> file
      [] OTHER -> Trimmed(file) \o <<Blank, Blank>>

MergeHostsBlock(file, newBlock) ==
    LET content == SetOff(Kept(file))
    IN  IF newBlock = <<>> THEN content
        ELSE Front(content) \o newBlock \o <<Blank>>

(* writeHosts, as one step: the file is read, and replaced if it differs.  *)
WriteHosts(file, names) == MergeHostsBlock(file, RenderBlock(names))
=============================================================================
