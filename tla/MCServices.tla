----------------------------- MODULE MCServices -----------------------------
(* Two actors, and one service at a time.                                  *)
EXTENDS Services
=============================================================================
