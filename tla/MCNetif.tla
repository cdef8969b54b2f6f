------------------------------- MODULE MCNetif -------------------------------
(* Instance of Netif for TLC. *)
EXTENDS Netif
=============================================================================
