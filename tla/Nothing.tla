------------------------------- MODULE Nothing -------------------------------
(* One value for what is absent: no row, SQL's NULL, a nil pointer. *)
CONSTANT None
=============================================================================
