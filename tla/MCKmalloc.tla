----------------------------- MODULE MCKmalloc -----------------------------
(* Kmalloc for TLC: two adjacent pages, a gap, and a third page.            *)
EXTENDS Kmalloc

MCPageBases == <<0, 96, 288>>
=============================================================================
