------------------------- MODULE AllocatorContract -------------------------
(***************************************************************************)
(* What malloc and free promise their callers, whatever the heap looks     *)
(* like inside: a successful malloc(n) returns n units of memory that no   *)
(* allocation still in use overlaps, and free(p) gives up exactly the      *)
(* allocation at p.  A failing malloc returns NULL and changes nothing the *)
(* callers can see: it is a stuttering step.                               *)
(***************************************************************************)
EXTENDS Integers

CONSTANTS
  Addresses,  \* the addresses a pointer may have; NULL is not one of them
  Requests    \* the sizes callers ask for

VARIABLE live   \* the allocations in use: pointer |-> size asked for

\* The n units from p on and the m units from q on have no unit in common.
Apart(p, n, q, m) == p + n <= q \/ q + m <= p

ContractInit == live = [p \in {} |-> 0]

ContractMalloc(p, n) ==
  /\ p \notin DOMAIN live
  /\ \A q \in DOMAIN live : Apart(p, n, q, live[q])
  /\ live' = [q \in DOMAIN live \cup {p} |-> IF q = p THEN n ELSE live[q]]

ContractFree(p) ==
  /\ p \in DOMAIN live
  /\ live' = [q \in DOMAIN live \ {p} |-> live[q]]

ContractNext ==
  \/ \E p \in Addresses, n \in Requests : ContractMalloc(p, n)
  \/ \E p \in DOMAIN live : ContractFree(p)

ContractSpec == ContractInit /\ [][ContractNext]_live

=============================================================================
