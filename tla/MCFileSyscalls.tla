--------------------------- MODULE MCFileSyscalls --------------------------
(* FileSyscalls for TLC: files of two and zero bytes.                        *)
EXTENDS FileSyscalls, TLC

MCContent(name) == IF name = "test.elf" THEN <<127, 69>> ELSE <<>>
PcbSymmetry == Permutations(Pcbs)
=============================================================================
