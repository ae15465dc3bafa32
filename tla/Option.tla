------------------------------- MODULE Option -------------------------------
(***************************************************************************)
(* Rust's None, for modules that are put together by EXTENDS.              *)
(***************************************************************************)
CONSTANT None

=============================================================================
