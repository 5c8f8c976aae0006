----------------------------- MODULE MCVlcbNode -----------------------------
(* Small worlds for VlcbNode: what the other nodes may send.               *)
EXTENDS VlcbNode

Msg(opc, nn, arg) == [opc |-> opc, nn |-> nn, arg |-> arg, short |-> FALSE]

(* With Radix = 2, number 1 is the bytes 0 1 and number 2 the bytes 1 0:   *)
(* going from one to the other changes both.                               *)
SetupFrames ==
  {Msg("SNN", n, "NONE") : n \in {1, 2}}
    \cup {Msg("MODE", n, m) : n \in {1, 2}, m \in {UNINITIALISED, SETUP}}
    \cup {Msg("RQNN", 1, "NONE")}

Short(opc, nn) == [opc |-> opc, nn |-> nn, arg |-> "NONE", short |-> TRUE]

(* Every op-code and, for those that look at their argument, every branch. *)
AllFrames ==
  {Msg(opc, 1, "NONE") : opc \in {"SNN", "RQNN", "QNN", "RQNP", "RQMN",
                                  "RQNPN", "NNRSM", "NNRST", "NVSET"}}
    \cup {Msg("MODE", 1, m) : m \in ModeArg \ {"ALL", "NONE"}}
    \cup {Msg("MODE", 0, m) : m \in {UNINITIALISED, "OTHER"}}
    \cup {Short(opc, 1) : opc \in {"SNN", "MODE", "RQNPN", "NVSET"}}
    \cup {Msg(opc, 1, "OTHER") : opc \in {"RQNPN", "NVSET"}}
    \cup {Msg("NVSET", 0, "NONE"), Msg("SNN", 2, "NONE"), Msg("RQNPN", 1, "ALL")}

(* What erases, sets and numbers a node.                                   *)
LifeFrames ==
  {Msg("SNN", n, "NONE") : n \in {1, 2}}
    \cup {Msg("MODE", n, UNINITIALISED) : n \in {1, 2}}
    \cup {Msg("NVSET", n, "NONE") : n \in {0, 1}}
    \cup {Msg("NNRSM", 1, "NONE"), Msg("MODE", 1, "HEARTBEAT_ON")}

FaultFrames == AllFrames \cup LifeFrames
=============================================================================
