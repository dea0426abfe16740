------------------------------- MODULE MCPool -------------------------------
(***************************************************************************)
(* Two blocks of two chunks and a client that allocates, frees and         *)
(* overwrites in any order: the list mixes chunks of both blocks, and      *)
(* runs empty before and after the second block.                           *)
(***************************************************************************)
EXTENDS PoolAllocator
=============================================================================
