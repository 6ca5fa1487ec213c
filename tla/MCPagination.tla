---------------------------- MODULE MCPagination ----------------------------
(* Pagination over two tokens and pages of up to two items.                 *)
EXTENDS Pagination
=============================================================================
