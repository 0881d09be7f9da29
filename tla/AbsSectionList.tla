--------------------------- MODULE AbsSectionList ---------------------------
(***************************************************************************)
(* What the kernel's section list promises its callers: two sequences of   *)
(* sections, one of the kernel, one of the process, that calls change one  *)
(* element at a time, and answers that agree with the kernel's sequence.   *)
(* A sequence that is kept in an array takes Capacity sections and ignores *)
(* the others.                                                             *)
(***************************************************************************)
EXTENDS Integers, Sequences

Seqs == INSTANCE SequencesExt

CONSTANTS KernelItems, ProcessItems, Capacity

VARIABLES
    kernel, process,
    bounded,          \* the sequences are kept in arrays
    call              \* the last call and its answer

vars == <<kernel, process, bounded, call>>

Added(s, x) == IF bounded /\ Len(s) >= Capacity THEN s ELSE Append(s, x)

Inserted(s, x, index) ==
    IF bounded /\ (Len(s) >= Capacity \/ index > Len(s)) THEN s
    ELSE IF index > Len(s) THEN Append(s, x) ELSE Seqs!InsertAt(s, index + 1, x)

(* s when x is taken out of it.                                            *)
Without(s, x) ==
    LET at == {i \in DOMAIN s : s[i] = x}
    IN  {t \in {s} \cup {Seqs!RemoveAt(s, i) : i \in at} : \A j \in DOMAIN t : t[j] # x}

Init == kernel = <<>> /\ process = <<>> /\ bounded = TRUE /\ call = <<"none">>

Add(x) ==
    /\ call' = <<"Add", x>>
    /\ \/ x \in KernelItems /\ kernel' = Added(kernel, x) /\ UNCHANGED process
       \/ x \in ProcessItems /\ process' = Added(process, x) /\ UNCHANGED kernel
    /\ UNCHANGED bounded

Insert(x, index) ==
    /\ call' = <<"Insert", x, index>>
    /\ kernel' = Inserted(kernel, x, index)
    /\ UNCHANGED <<process, bounded>>

Remove(x) ==
    /\ call' = <<"Remove", x>>
    /\ \/ x \in KernelItems /\ kernel' \in Without(kernel, x) /\ UNCHANGED process
       \/ x \in ProcessItems /\ process' \in Without(process, x) /\ UNCHANGED kernel
    /\ UNCHANGED bounded

RemoveIndex(index) ==
    /\ call' = <<"RemoveAt", index>>
    /\ kernel' = Seqs!RemoveAt(kernel, index + 1)
    /\ UNCHANGED <<process, bounded>>

(* A linked list copies the contents into the section it has.              *)
SetItem(index, x) ==
    /\ call' = <<"SetItem", index, x>>
    /\ \/ kernel' = [kernel EXCEPT ![index + 1] = x]
       \/ UNCHANGED kernel /\ ~ bounded
    /\ UNCHANGED <<process, bounded>>

Clear ==
    /\ call' = <<"Clear">>
    /\ kernel' = <<>> /\ process' = <<>>
    /\ UNCHANGED bounded

Convert ==
    /\ call' = <<"ConvertToLinkedList">>
    /\ bounded /\ bounded' = FALSE
    /\ UNCHANGED <<kernel, process>>

GetItem(index) ==
    /\ call' = <<"GetItem", index, kernel[index + 1]>>
    /\ UNCHANGED <<kernel, process, bounded>>

Contains(x) ==
    /\ call' = <<"Contains", x, \E i \in DOMAIN (kernel \o process) : (kernel \o process)[i] = x>>
    /\ UNCHANGED <<kernel, process, bounded>>

(* The place of a section of the process is told within its own sequence.  *)
IndexOf(x) ==
    /\ \E i \in -1 .. Len(kernel) + Len(process) - 1 :
          /\ \/ \E s \in {kernel, process} : i + 1 \in DOMAIN s /\ s[i + 1] = x
             \/ i = -1 /\ \A s \in {kernel, process} : \A j \in DOMAIN s : s[j] # x
          /\ call' = <<"IndexOf", x, i>>
    /\ UNCHANGED <<kernel, process, bounded>>

Count ==
    /\ call' = <<"Count", Len(kernel) + Len(process)>>
    /\ UNCHANGED <<kernel, process, bounded>>

Next ==
    \/ Clear \/ Convert \/ Count
    \/ \E x \in KernelItems \cup ProcessItems :
          \/ Add(x) \/ Remove(x) \/ Contains(x) \/ IndexOf(x)
          \/ \E index \in 0 .. Len(kernel) + 1 : x \in KernelItems /\ Insert(x, index)
          \/ \E index \in 0 .. Len(kernel) - 1 : SetItem(index, x)
    \/ \E index \in 0 .. Len(kernel) - 1 : RemoveIndex(index) \/ GetItem(index)

Spec == Init /\ [][Next]_vars
=============================================================================
