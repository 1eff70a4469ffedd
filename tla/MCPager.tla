------------------------------ MODULE MCPager ------------------------------
(* Pager on small instances: two pages, a history of two events. *)
EXTENDS Pager
=============================================================================
