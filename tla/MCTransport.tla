------------------------------ MODULE MCTransport ------------------------------
(***************************************************************************)
(* The format scaled down, keeping its proportions: the smallest encrypted *)
(* packet is one block, a padding of one block more fits its byte, the     *)
(* largest size is a multiple of the small block and not of the large.     *)
(* Of the payloads one fills a block exactly, one is a byte longer, and    *)
(* one is too long.                                                        *)
(***************************************************************************)
EXTENDS Transport

MCNewkeys == <<9>>

MCPayloads == {MCNewkeys, <<1, 2>>, <<1, 2, 3>>, [i \in 1..16 |-> 1]}

===============================================================================
