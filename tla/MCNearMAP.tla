----------------------------- MODULE MCNearMAP -----------------------------
(* NearMAP with pages of two bytes, asked for as three, and operands of    *)
(* one page and of two.                                                    *)
EXTENDS NearMAP

MCOperands == {<<0, 1>>, <<1, 2>>, <<2, 2>>}
=============================================================================
