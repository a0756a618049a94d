----------------------------- MODULE MCKfsRequest ----------------------------
(***************************************************************************)
(* KfsRequest for TLC: three transfers are one that leaves something, one  *)
(* that fails or answers with less, and one after that.                    *)
(***************************************************************************)
EXTENDS KfsRequest

=============================================================================
