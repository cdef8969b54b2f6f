-------------------------------- MODULE Flows --------------------------------
(* The names that the gateway's components share. *)

CONSTANTS
  FlowKey,   \* client -> VIP five-tuples
  Endpoint,  \* upstream ip and port pairs
  nullptr
=============================================================================
