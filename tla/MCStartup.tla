------------------------------ MODULE MCStartup ------------------------------
(* Instances of Startup for TLC. *)
EXTENDS Startup

(* A plain argument, "--", a flag of ours without a value, one with its    *)
(* value and one whose value follows.                                      *)
Arg ==
  {[dashes |-> FALSE, vgw_flag |-> FALSE, requires_value |-> FALSE, has_value |-> FALSE],
   [dashes |-> TRUE, vgw_flag |-> FALSE, requires_value |-> FALSE, has_value |-> FALSE],
   [dashes |-> FALSE, vgw_flag |-> TRUE, requires_value |-> FALSE, has_value |-> FALSE],
   [dashes |-> FALSE, vgw_flag |-> TRUE, requires_value |-> TRUE, has_value |-> TRUE],
   [dashes |-> FALSE, vgw_flag |-> TRUE, requires_value |-> TRUE, has_value |-> FALSE]}

Plain == CHOOSE a \in Arg : ~a.dashes /\ ~a.vgw_flag

MCCommandLine == {<<Plain>> \o s : s \in UNION {[1 .. n -> Arg] : n \in 0 .. 4}}
MCProgramOnly == {<<Plain>>}

(* Values below, at and above the limits of the fields, and bad words. *)
MCFlagValues ==
  [mode : {"pipeline", "rtc", "bad"},
   port_mask : {0, 1, Span32 - 1, Span32 + 1},
   worker_port : {0, 1, Span16 - 1, Span16},
   ring_size : {0, 2, 3, Span16},
   rx : BOOLEAN, tx : BOOLEAN, sleep : {-1, 10},
   steer : {"auto", "hw_rss", "bad"},
   workers : {0, 2, Span16 + 1}, dist_ring_size : {0, Span16}]

MCDefaultFlags ==
  [mode : {"pipeline"}, port_mask : {3}, worker_port : {0}, ring_size : {0},
   rx : {TRUE}, tx : {TRUE}, sleep : {10}, steer : {"auto"}, workers : {1},
   dist_ring_size : {0}]
=============================================================================
