--------------------------- MODULE MCAddressSpace --------------------------
(* AddressSpace for TLC: a window of 16 pages.  13 and 14 are pages inside  *)
(* the window that images use, 16 lies above it; one image maps it twice.   *)
EXTENDS AddressSpace, TLC

MCImages == {<<13>>, <<16, 14>>, <<16, 16>>}
ProcSymmetry == Permutations(Procs)
=============================================================================
