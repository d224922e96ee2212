---------------------------- MODULE MCLocalAccess ----------------------------
(* LocalAccess with interchangeable names, processes and clients.          *)
EXTENDS LocalAccess, TLC

Symmetry ==
    Permutations(Email) \cup Permutations(Password) \cup Permutations(UserId)
    \cup Permutations(Key) \cup Permutations(Client) \cup Permutations(Up)
=============================================================================
