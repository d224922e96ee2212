------------------------------ MODULE Registry ------------------------------
(***************************************************************************)
(* relay.Registry alone, under callers that respect its protocol: each     *)
(* Register makes a fresh *Entry, and only an entry that was returned is   *)
(* unregistered, once, under the host and prefix it was registered for     *)
(* (the two call sites of src/backend/main.go, handleWSUpgrade).  The      *)
(* sorted lists are shown to implement RouteDirectory.  The names of the   *)
(* specification are Registry's own: Relay's proofs use its theorems.      *)
(***************************************************************************)
EXTENDS RouteTable

CONSTANTS Fresh, Spent     \* an entry not made yet; one given up or refused

ASSUME RegistryAssumption ==
    Fresh \notin Host \X Route /\ Spent \notin Host \X Route

VARIABLE route     \* [Entry -> the route it was registered for, or a marker]

registryVars == <<table, route>>

RegistryInit ==
    /\ table = [h \in {} |-> EmptyTable]
    /\ route = [e \in Entry |-> Fresh]

(* A handler asks for <<h, p>> with a new entry, and gets it or an error.  *)
CallRegister(e, h, p) ==
    /\ route[e] = Fresh
    /\ \/ /\ Register(h, p, e)
          /\ route' = [route EXCEPT ![e] = <<h, p>>]
       \/ /\ RegisterFails(h, p)
          /\ route' = [route EXCEPT ![e] = Spent]

(* The handler of e ends.                                                  *)
CallUnregister(e) ==
    /\ route[e] \in Host \X Route
    /\ Unregister(route[e][1], route[e][2], e)
    /\ route' = [route EXCEPT ![e] = Spent]

RegistryNext ==
    \E e \in Entry :
        \/ \E h \in Host, p \in Route : CallRegister(e, h, p)
        \/ CallUnregister(e)

RegistrySpec == RegistryInit /\ [][RegistryNext]_registryVars

-----------------------------------------------------------------------------
RegistryTypeOK ==
    /\ TableTypeOK
    /\ route \in [Entry -> (Host \X Route) \cup {Fresh, Spent}]

(* Hazard: the table loses an entry that was not unregistered, keeps one   *)
(* that was, or files it under another route.  The entries of the table    *)
(* are exactly those registered and not yet unregistered, each under its   *)
(* own route (Register, Unregister).                                       *)
HeldExactly ==
    \A e \in Entry, h \in Host, p \in Route :
        Holds(h, p, e) <=> route[e] = <<h, p>>

(* The table implements the directory: a route is claimed only when it is  *)
(* free, and released only by its owner, whatever the order of calls.      *)
RegistryImplements == Directory!Spec

(* Hazard: the list is left in an order in which the first match is not    *)
(* the longest, after some sequence of Register and Unregister.  Resolve   *)
(* answers with the owner of the longest prefix the path is under, with    *)
(* the root entry when there is none (Resolve's doc comment).              *)
ResolvesLongest ==
    \A h \in Host, q \in Path : Directory!Answers(h, q, Resolve(h, q))
=============================================================================
