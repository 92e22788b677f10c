--------------------------- MODULE MCRedirectTrace ---------------------------
(***************************************************************************)
(* TLC instance of RedirectTrace: two web addresses, so that they can      *)
(* redirect to each other and to themselves, and one that is not http.     *)
(***************************************************************************)
EXTENDS RedirectTrace
=============================================================================
