------------------------------ MODULE MCBakery ------------------------------
(* Small instances of Bakery for TLC. *)
EXTENDS BakeryProps
=============================================================================
