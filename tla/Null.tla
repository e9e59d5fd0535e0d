--------------------------------- MODULE Null ---------------------------------
(* null, in a nullable column or variable. *)
CONSTANT None
=============================================================================
