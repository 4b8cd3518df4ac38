--------------------------- MODULE MCQuotaManager ---------------------------
(* QuotaManager on a small instance for TLC. *)
EXTENDS QuotaManager
=============================================================================
