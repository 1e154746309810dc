------------------------------ MODULE MCPaging ------------------------------
(* Five frames beside the kernel's one, a heap of four pages, three pages to  *)
(* a table, ranges of one and two pages: the frames run out in a page, in its *)
(* table and half way through a range, and a range can span two tables.       *)
EXTENDS Paging
=============================================================================
