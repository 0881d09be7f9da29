--------------------------- MODULE MCAddressSpace ---------------------------
(***************************************************************************)
(* A kernel space of 24 pages of two bytes.  The kernel's image is three   *)
(* sections, one of them starting inside a page; the headers lie below the *)
(* space.  The space free in one piece takes the heap at the second        *)
(* attempt and leaves just enough for a stack behind it.                   *)
(***************************************************************************)
EXTENDS AddressSpace

MCBootSections == <<Loaded(3, 1), Loaded(4, 2), Loaded(7, 1), Loaded(36, 2)>>

MCIncrements == {-3, 2, 7}
=============================================================================
