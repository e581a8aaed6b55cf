---------------------------- MODULE MCAllocator -----------------------------
(* Instance of Allocator for TLC: blocks of one to three headers, and one that *)
(* is longer than NALLOC.                                                      *)
EXTENDS Allocator

FewBytes == {0, 1, 3, 5}
=============================================================================
