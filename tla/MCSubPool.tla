------------------------------ MODULE MCSubPool ------------------------------
(* SubPool with blocks of 2048 bytes and a bitmap of 6 bits: sub-blocks of *)
(* 512, 1024 and 2048 bytes.                                               *)
EXTENDS SubPool

Sizes == <<4, 2, 1>>
=============================================================================
