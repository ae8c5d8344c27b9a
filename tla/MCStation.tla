------------------------------ MODULE MCStation ------------------------------
(***************************************************************************)
(* The instance of Station that TLC checks. The parts that are not looked  *)
(* at start in one state only, which the others cannot tell.               *)
(***************************************************************************)
EXTENDS Station

TPG362Relays == << "SP1", "SP2", "SP3", "SP4" >>
RelayLevels == {<< 1, 2 >>, << 2, 1 >>, << 2, 2 >>}

MCInit ==
  /\ Init
  /\ focus # "MKS910" => mksUnit = "BAR" /\ mksRelays[1].setpoint = 2 /\ mksRelays[1].hysteresis = 2
  /\ focus # "LowVoltage" => lvActive = 1 /\ lvOutput = 0
  /\ focus # "Panel" => panelKind = "TPG362" /\ ~panel.conn
  /\ focus # "TraceList" => traceInterval = 1

MCSpec == MCInit /\ [][Next]_vars /\ Fairness
=============================================================================
