------------------------------- MODULE Startup -------------------------------
(***************************************************************************)
(* The way from main (src/main.cpp) to the worker loop: the command line   *)
(* is divided between the gateway and DPDK, the flags become a             *)
(* configuration (src/dpdk/datapath_flags.cpp, datapath_config.cpp), the   *)
(* ports and the netifs are set up (src/dpdk/netif.cpp) and the services   *)
(* are created (VioletGW::init, src/vgw.cpp).  Any of it may end the       *)
(* process.                                                                *)
(*                                                                         *)
(* A command-line argument is a record of what the splitter asks of it; it *)
(* is passed on as its index in argv.  A mask is a number, as in the code, *)
(* and integer types keep a width, with narrower types to check.           *)
(***************************************************************************)
EXTENDS Integers, Sequences, FiniteSets

CONSTANTS
  CommandLine,    \* argument vectors, program name first
  FlagValues,     \* values of the flags after ParseCommandLineFlags
  Span16,         \* number of values of a uint16_t
  PortBits,       \* bits of the port mask (32)
  DefaultMask,    \* DPDK_vaild_port_marks
  PortsPerPair,   \* IO_PORTS_PER_RXTX_LCORE_PAIR
  MaxLcores,      \* bound of the model: lcores the EAL may be given
  LinkAttempts    \* kLinkCheckAttempts

Span32 == 2 ^ PortBits
Port == 0 .. (PortBits - 1)
Bits(mask) == {p \in Port : (mask \div 2 ^ p) % 2 = 1}

(* What parse_vgw_command_line_flags asks of an argument: whether it is    *)
(* "--", is_vgw_flag, flag_requires_value, and whether it contains a "=".  *)
Argument ==
  [dashes : BOOLEAN, vgw_flag : BOOLEAN, requires_value : BOOLEAN, has_value : BOOLEAN]

(* The flags.  Each may have more values than the field it is stored in. *)
Flags ==
  [mode : STRING, port_mask : Nat, worker_port : Nat, ring_size : Nat,
   rx : BOOLEAN, tx : BOOLEAN, sleep : Int,
   steer : STRING, workers : Nat, dist_ring_size : Nat]

ASSUME StartupAssumption ==
  /\ {PortBits, PortsPerPair, LinkAttempts} \subseteq Nat \ {0}
  /\ Span16 \in Nat \ {0, 1}
  /\ Span32 \in Nat
  /\ MaxLcores \in Nat
  /\ DefaultMask \in 1 .. (Span32 - 1)
  /\ CommandLine \subseteq Seq(Argument) \ {<<>>}
  /\ FlagValues \subseteq Flags

VARIABLES
  at,                   \* what main is doing
  argv, i,              \* the command line and the next argument
  vgw_argv, eal_argv,   \* what each side gets
  flags, cfg,           \* FLAGS_*, and the configuration
  devices, lcores,      \* ports that exist, lcores beside the main one
  started,              \* ports that port_init started
  attempt, link_up,     \* link checks made, and what the last one saw
  netifs_,              \* ports that have a netif
  cnt, rx_id, tx_id,    \* locals of DpdkNetifManager::init
  loop,                 \* what was launched on each lcore
  gateway_mac           \* where the MAC address of the gateway comes from

argVars == <<argv, i, vgw_argv, eal_argv>>
flagVars == <<flags, cfg>>
portVars == <<devices, lcores, started, attempt, link_up>>
managerVars == <<netifs_, cnt, rx_id, tx_id, loop, gateway_mac>>
startVars == <<at, argVars, flagVars, portVars, managerVars>>

Lcore == 1 .. MaxLcores
Idle == [run |-> "idle", port |-> 0]
NoFlags == [mode |-> "none"]

(* datapath_config_defaults. *)
Defaults ==
  [mode |-> "pipeline", mask |-> DefaultMask, worker_port |-> 0,
   ring_size |-> 0, rx |-> TRUE, tx |-> TRUE, sleep |-> 10,
   steer |-> "auto", workers |-> 1]

StartTypeOK ==
  /\ at \in {"args", "flags", "config", "eal", "link", "manager", "netif", "run", "exit"}
  /\ i \in 1 .. (Len(argv) + 1)
  /\ {vgw_argv, eal_argv} \subseteq Seq(1 .. Len(argv))
  /\ cfg.mask \in 1 .. (Span32 - 1)
  /\ {cfg.worker_port, cfg.ring_size} \subseteq 0 .. (Span16 - 1)
  /\ cfg.workers \in 1 .. (Span16 - 1)
  /\ started \subseteq devices /\ devices \subseteq Port
  /\ attempt \in 0 .. LinkAttempts
  /\ netifs_ \subseteq Port
  /\ lcores \in 0 .. MaxLcores
  /\ loop \in [Lcore -> [run : {"run_recv", "run_send"}, port : Port] \cup {Idle}]
  /\ gateway_mac \in {"config", "nic", "zero"}

StartInit ==
  /\ at = "args"
  /\ argv \in CommandLine
  /\ i = 2 /\ vgw_argv = <<1>> /\ eal_argv = <<1>>
  /\ flags = NoFlags /\ cfg = Defaults
  /\ devices = {} /\ lcores = 0 /\ started = {} /\ attempt = 0 /\ link_up = FALSE
  /\ netifs_ = {} /\ cnt = 0 /\ rx_id = 1 /\ tx_id = 2
  /\ loop = [l \in Lcore |-> Idle]
  /\ gateway_mac = "config"

(* rte_exit, or an error code returned to main. *)
Exit == at' = "exit"

-----------------------------------------------------------------------------
(* parse_vgw_command_line_flags *)

ValueAlwaysFollows(a) == a.requires_value

(* flag_requires_value(arg) and the value is not part of the argument. *)
ValueFollows(a) == a.requires_value /\ ~a.has_value

Indices(from) == [n \in 1 .. (Len(argv) - from + 1) |-> from + n - 1]

(* One iteration of the loop over argv. *)
ParseArg ==
  /\ at = "args" /\ i <= Len(argv)
  /\ \/ /\ argv[i].dashes
        /\ eal_argv' = eal_argv \o Indices(i) /\ i' = Len(argv) + 1
        /\ UNCHANGED vgw_argv
     \/ /\ ~argv[i].dashes /\ ~argv[i].vgw_flag
        /\ eal_argv' = Append(eal_argv, i) /\ i' = i + 1
        /\ UNCHANGED vgw_argv
     \/ /\ ~argv[i].dashes /\ argv[i].vgw_flag
        /\ IF ValueFollows(argv[i]) /\ i < Len(argv)
             THEN vgw_argv' = vgw_argv \o <<i, i + 1>> /\ i' = i + 2
             ELSE vgw_argv' = Append(vgw_argv, i) /\ i' = i + 1
        /\ UNCHANGED eal_argv
  /\ UNCHANGED <<at, argv, flagVars, portVars, managerVars>>

(* Both sides have parsed their part, which nothing looks at again. *)
ArgsDone ==
  /\ at = "args" /\ i > Len(argv)
  /\ at' = "flags"
  /\ argv' = <<argv[1]>> /\ i' = 2 /\ vgw_argv' = <<1>> /\ eal_argv' = <<1>>
  /\ UNCHANGED <<flagVars, portVars, managerVars>>

(* ParseCommandLineFlags gives the flags their values, or ends the process *)
(* (a value it cannot read, or --help).                                    *)
ParseFlags ==
  /\ at = "flags"
  /\ \/ flags' \in FlagValues /\ at' = "config"
     \/ Exit /\ UNCHANGED flags
  /\ UNCHANGED <<argVars, cfg, portVars, managerVars>>

-----------------------------------------------------------------------------
(* datapath_config_from_flags *)

CheckUint16Anything(value) == TRUE

(* check_uint16_flag does not exit. *)
CheckUint16Flag(value) == value < Span16

ParseDatapathMode(s) == s \in {"pipeline", "rtc"}
ParseRtcSteer(s) == s \in {"auto", "hw_rss", "soft_rr"}

FlagsAccepted ==
  /\ ParseDatapathMode(flags.mode)
  /\ flags.port_mask < Span32
  /\ CheckUint16Flag(flags.worker_port)
  /\ CheckUint16Flag(flags.ring_size)
  /\ CheckUint16Flag(flags.dist_ring_size)
  /\ flags.sleep >= 0
  /\ flags.mode = "rtc" => ParseRtcSteer(flags.steer) /\ CheckUint16Flag(flags.workers)

WorkersAsGiven(workers) == workers
RtcWorkers(workers) == IF workers = 0 THEN 1 ELSE workers

(* What it returns; pipeline and rtc share a union, so the other mode's    *)
(* part is left at its default.                                            *)
ConfigFromFlags ==
  LET c == [Defaults EXCEPT
              !.mode = flags.mode,
              !.mask = IF flags.port_mask # 0 THEN flags.port_mask % Span32 ELSE @,
              !.worker_port = flags.worker_port % Span16]
  IN IF flags.mode = "pipeline"
       THEN [c EXCEPT !.ring_size = flags.ring_size % Span16,
                      !.rx = flags.rx, !.tx = flags.tx, !.sleep = flags.sleep]
       ELSE [c EXCEPT !.steer = flags.steer,
                      !.workers = RtcWorkers(flags.workers % Span16)]

Configure ==
  /\ at = "config"
  /\ IF FlagsAccepted
       THEN cfg' = ConfigFromFlags /\ at' = "eal"
       ELSE Exit /\ UNCHANGED cfg
  /\ UNCHANGED <<argVars, flags, portVars, managerVars>>

-----------------------------------------------------------------------------
(* dpdk::init *)

(* rte_eal_init, the mempool, a call of port_init or of init_rx_queue or   *)
(* init_tx_queue fails, or there is no device.                             *)
DpdkInitFails ==
  /\ at = "eal"
  /\ Exit
  /\ UNCHANGED <<argVars, flagVars, portVars, managerVars>>

(* rte_eal_init finds lcores and devices; port_init starts those of the    *)
(* devices that are in the mask.                                           *)
PortInit ==
  /\ at = "eal"
  /\ lcores' \in 0 .. MaxLcores
  /\ devices' \in SUBSET Port \ {{}}
  /\ started' = devices' \cap Bits(cfg.mask)
  /\ at' = "link"
  /\ UNCHANGED <<argVars, flagVars, attempt, link_up, managerVars>>

RetryForever(up) ==
  /\ at' = IF up THEN "manager" ELSE "link"
  /\ attempt' = IF attempt < LinkAttempts THEN attempt + 1 ELSE attempt

(* What init does with the result of a link check. *)
RetryLink(up) ==
  /\ attempt' = attempt + 1
  /\ at' = IF up THEN "manager" ELSE IF attempt' = LinkAttempts THEN "exit" ELSE "link"

(* check_link_status: some started port may have its link up. *)
CheckLinkStatus ==
  /\ at = "link"
  /\ \E up \in IF started = {} THEN {FALSE} ELSE BOOLEAN :
       link_up' = up /\ RetryLink(up)
  /\ UNCHANGED <<argVars, flagVars, devices, lcores, started, managerVars>>

-----------------------------------------------------------------------------
(* DpdkNetifManager::init and the rest of VioletGW::init *)

ResolveAllDirect(steer, workers, hw_rss_usable) == "Direct"

ResolveRtcPath(steer, workers, hw_rss_usable) ==
  IF workers <= 1 THEN "Direct"
  ELSE IF steer = "hw_rss" \/ (steer = "auto" /\ hw_rss_usable) THEN "HwRss"
  ELSE "SoftRr"

(* The check at its start. *)
ManagerBegin ==
  /\ at = "manager"
  /\ IF cfg.mode = "rtc" /\ ResolveRtcPath(cfg.steer, cfg.workers, FALSE) # "Direct"
       THEN Exit
       ELSE at' = "netif"
  /\ UNCHANGED <<argVars, flagVars, portVars, managerVars>>

(* rte_eal_remote_launch fails on a lcore that is busy or does not exist;  *)
(* the result is not looked at.                                            *)
RemoteLaunch(loops, run, p, lcore) ==
  IF lcore <= lcores /\ loops[lcore] = Idle
    THEN [loops EXCEPT ![lcore] = [run |-> run, port |-> p]]
    ELSE loops

(* rte_ring_create takes powers of two; 0 stands for IO_RING_SIZE. *)
RingSizeOk(n) == n = 0 \/ \E b \in 0 .. Span16 : n = 2 ^ b

(* DpdkNetif::init cannot make its rings: make_ring exits. *)
MakeRingFails ==
  /\ at = "netif"
  /\ cfg.mode = "pipeline" /\ netifs_ # Bits(cfg.mask)
  /\ Exit
  /\ UNCHANGED <<argVars, flagVars, portVars, managerVars>>

(* One iteration of its loop: the netif of the next port of the mask. *)
InitNetif ==
  /\ at = "netif"
  /\ cfg.mode = "pipeline" => RingSizeOk(cfg.ring_size)
  /\ \E p \in Bits(cfg.mask) \ netifs_ :
       /\ \A q \in Bits(cfg.mask) \ netifs_ : p <= q
       /\ netifs_' = netifs_ \cup {p}
       /\ LET pipeline == cfg.mode = "pipeline"
              withRx == IF pipeline /\ cfg.rx
                          THEN RemoteLaunch(loop, "run_recv", p, rx_id) ELSE loop
          IN /\ loop' = IF pipeline /\ cfg.tx
                          THEN RemoteLaunch(withRx, "run_send", p, tx_id) ELSE withRx
             /\ IF ~pipeline THEN UNCHANGED <<cnt, rx_id, tx_id>>
                ELSE IF cnt + 1 = PortsPerPair
                  THEN cnt' = 0 /\ rx_id' = tx_id + 1 /\ tx_id' = tx_id + 2
                  ELSE cnt' = cnt + 1 /\ UNCHANGED <<rx_id, tx_id>>
  /\ UNCHANGED <<at, argVars, flagVars, portVars, gateway_mac>>

(* get_netif finds the worker's netif, init_services succeeds, the gateway *)
(* takes the MAC address of the NIC (zero if port_init never read it) and  *)
(* run starts; or there is no such netif or the control block cannot be    *)
(* opened, and main returns.                                               *)
InitServices ==
  /\ at = "netif"
  /\ netifs_ = Bits(cfg.mask)
  /\ \/ /\ cfg.worker_port \in netifs_
        /\ gateway_mac' = IF cfg.worker_port \in started THEN "nic" ELSE "zero"
        /\ at' = "run"
     \/ Exit /\ UNCHANGED gateway_mac
  /\ UNCHANGED <<argVars, flagVars, portVars, netifs_, cnt, rx_id, tx_id, loop>>

(* The worker loop, or a process that has ended: see Netif and Gateway. *)
Started == at \in {"run", "exit"} /\ UNCHANGED startVars

StartStep ==
  \/ ParseArg \/ ArgsDone \/ ParseFlags \/ Configure
  \/ DpdkInitFails \/ PortInit \/ CheckLinkStatus
  \/ ManagerBegin \/ MakeRingFails \/ InitNetif \/ InitServices

StartNext == StartStep \/ Started

(* main runs until the worker loop has started or the process has ended. *)
StartSpec == StartInit /\ [][StartNext]_startVars /\ WF_startVars(StartStep)

-----------------------------------------------------------------------------
(* Properties *)

Listed(s) == {s[n] : n \in 1 .. Len(s)}
Increasing(s) == \A m, n \in 1 .. Len(s) : m < n => s[m] < s[n]

(* The command line is divided without loss: the program name goes to both *)
(* sides and every other argument to exactly one, in order.  The gateway   *)
(* gets its flags and the values that follow them, DPDK gets the rest, and *)
(* everything from a "--" on.                                              *)
ArgsSplit ==
  at = "args" /\ i > Len(argv) =>
    LET ours == Listed(vgw_argv)
        theirs == Listed(eal_argv)
    IN /\ Increasing(vgw_argv) /\ Increasing(eal_argv)
       /\ ours \cup theirs = 1 .. Len(argv)
       /\ ours \cap theirs = {1}
       /\ \A n \in ours \ {1} :
            \/ argv[n].vgw_flag
            \/ n - 1 \in ours /\ argv[n - 1].requires_value /\ ~argv[n - 1].has_value
       /\ \A n \in theirs \ {1} :
            argv[n].vgw_flag => \E m \in theirs \ {1} : m <= n /\ argv[m].dashes
       /\ \A m \in theirs \ {1}, n \in ours : argv[m].dashes => n < m

(* No flag is cut to the width of the field it is stored in: a gateway     *)
(* that gets past datapath_config_from_flags runs with the numbers that it *)
(* was given, 0 meaning the default.                                       *)
ConfigFaithful ==
  at \notin {"args", "flags", "config", "exit"} =>
    /\ cfg.worker_port = flags.worker_port
    /\ cfg.mask = IF flags.port_mask = 0 THEN DefaultMask ELSE flags.port_mask
    /\ flags.mode = "pipeline" => cfg.ring_size = flags.ring_size
    /\ flags.mode = "rtc" => cfg.workers \in {flags.workers, 1} /\
         (cfg.workers # flags.workers => flags.workers = 0)

RunsOn(run, p) == \E l \in Lcore : loop[l] = [run |-> run, port |-> p]

(* The state in which the worker loop starts, whatever was on the command  *)
(* line: some enabled port has its link up, the worker's port has a netif  *)
(* and, if it was started, the gateway has that NIC's MAC address,         *)
(* run-to-completion mode has one worker and no loop on any lcore, and in  *)
(* pipeline mode with one port and two lcores exactly the loops that were  *)
(* asked for run, both for that port.                                      *)
RunReady ==
  at = "run" =>
    /\ link_up /\ started \cap Bits(cfg.mask) # {}
    /\ cfg.worker_port \in netifs_
    /\ cfg.worker_port \in started => gateway_mac = "nic"
    /\ cfg.mode = "rtc" => cfg.workers = 1 /\ \A l \in Lcore : loop[l] = Idle
    /\ cfg.mode = "pipeline" /\ lcores >= 2 /\ Cardinality(netifs_) = 1 =>
         /\ RunsOn("run_recv", cfg.worker_port) <=> cfg.rx
         /\ RunsOn("run_send", cfg.worker_port) <=> cfg.tx

(* main reaches the worker loop or ends, also when no link ever comes up. *)
StartEnds == <>(at \in {"run", "exit"})

(* "How many ports share one RX+TX lcore pair before allocating the next"  *)
(* (dpdk/config.hpp:52): in pipeline mode both loops of every port run     *)
(* once init is done, if there are lcores enough.                          *)
PortsServed ==
  at = "run" /\ lcores >= 2 * Cardinality(netifs_) /\ cfg.mode = "pipeline" /\ cfg.rx /\ cfg.tx =>
    \A p \in netifs_ : RunsOn("run_recv", p) /\ RunsOn("run_send", p)
=============================================================================
