----------------------------- MODULE MCPageHeap -----------------------------
(* Two size classes, with spans of one and of two pages.                   *)
EXTENDS PageHeap

ClassToPages == <<1, 2>>

=============================================================================
