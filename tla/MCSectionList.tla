--------------------------- MODULE MCSectionList ---------------------------
(* Four sections of the kernel for arrays of three, two of a process.      *)
EXTENDS SectionList, TLC

CONSTANTS k1, k2, k3, k4, p1, p2

MCSymmetry == Permutations(KernelItems) \cup Permutations(ProcessItems)
=============================================================================
