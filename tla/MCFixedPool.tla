---------------------------- MODULE MCFixedPool ----------------------------
(* FixedPool with integers of 8 bits: pools of two, three and five blocks, a *)
(* size that is not a power of two, products that become negative and that *)
(* wrap to a smaller pool, and arguments resize refuses.                   *)
EXTENDS FixedPool

Calls == {<<3, 4>>, <<2, 6>>, <<3, 64>>, <<5, 64>>, <<0, 4>>, <<3, -1>>}
=============================================================================
