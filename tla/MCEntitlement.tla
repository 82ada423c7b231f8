--------------------------- MODULE MCEntitlement ----------------------------
(* Entitlement with the products as model values; "other" stands for any    *)
(* product the switch does not know.                                        *)
EXTENDS Entitlement
=============================================================================
