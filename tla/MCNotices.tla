----------------------------- MODULE MCNotices -----------------------------
(* An instance of PaymentNotices for TLC.                                  *)
EXTENDS PaymentNotices

\* The job two refusals may come to share.
SecondRefusal == {<<"rejected", 1>>}
=============================================================================
