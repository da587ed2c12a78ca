------------------------------- MODULE MCPmm --------------------------------
(***************************************************************************)
(* Every bitmap of 3 bytes of 3 bits that reserves page 0.                 *)
(***************************************************************************)
EXTENDS Pmm

MCByteBits == 3
MCBytes == 3
=============================================================================
