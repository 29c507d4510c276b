------------------------------ MODULE MCDevices -----------------------------
(* Devices and processors for TLC: the AHCI driver with the search for       *)
(* volumes (Ahci), the start of the application processors (Boot), the       *)
(* terminal (Tty), interrupt routing (IoApic) and the search for PCI Express *)
(* functions (Pcie).  One of them moves in each behaviour.                   *)
EXTENDS Ahci, Boot, Tty, IoApic, Pcie

VARIABLE part

MCIoApics == {<<[base |-> 0, pins |-> 6]>>, <<[base |-> 6, pins |-> 8], [base |-> 0, pins |-> 6]>>,
              <<[base |-> 0, pins |-> 6], [base |-> 6, pins |-> 2]>>}
MCOverrides == BoundedSeq([src : {0, 1, 2}, gsi : {1, 2, 4}], 2)
MCNmis == {<<>>, <<0>>}

MCMcfg == {<<[first |-> 0, last |-> 2]>>, <<[first |-> 0, last |-> 1], [first |-> 2, last |-> 2]>>,
           <<[first |-> 0, last |-> 1]>>}
MCBridges == {<<>>, <<0, 0, 1>> :> 1, (<<0, 0, 1>> :> 1) @@ (<<1, 0, 1>> :> 2), <<0, 1, 0>> :> 2, <<0, 1, 0>> :> 0}
MCTopologies ==
  {[exists |-> {<<0, 0, 0>>} \cup fs, multi |-> ms, secondary |-> br, enabled |-> {<<0, 0, 1>>, <<1, 0, 0>>}] :
     fs \in SUBSET {<<0, 0, 1>>, <<0, 1, 0>>, <<1, 0, 0>>, <<1, 0, 1>>, <<2, 1, 0>>},
     ms \in SUBSET {<<0, 0>>, <<1, 0>>}, br \in MCBridges}

\* a component that does not move has one initial state
Only(p, S, T) == IF part = p THEN S ELSE T

DevicesInit ==
  /\ part \in {"disk", "boot", "tty", "irq", "pcie"}
  /\ AhciInit /\ (part = "disk" \/ (plugged = Port /\ volumes[1] = <<"root">>))
  /\ BootInit /\ (part = "boot" \/ madt = [k \in 1 .. Cardinality(Cpu) |-> k - 1])
  /\ Init
  /\ ioapics \in Only("irq", IoApicLists, {<<[base |-> 0, pins |-> 6]>>}) /\ overrides \in Only("irq", OverrideLists, {<<>>})
  /\ IrqInit /\ (part = "irq" \/ (nmis = <<>> /\ sci = 2))
  /\ hw \in Only("pcie", Topologies, {[exists |-> {<<0, 0, 0>>}, multi |-> {}, secondary |-> <<>>, enabled |-> {<<0, 0, 1>>, <<1, 0, 0>>}]})
  /\ PcieInit /\ (part = "pcie" \/ mcfg = <<[first |-> 0, last |-> 1]>>)

DevicesNext ==
  /\ UNCHANGED part
  /\ \/ part = "disk" /\ AhciNext /\ UNCHANGED <<bootVars, vars, irqVars, pcieVars>>
     \/ part = "boot" /\ BootNext /\ UNCHANGED <<ahciVars, vars, irqVars, pcieVars>>
     \/ part = "tty" /\ Next /\ UNCHANGED <<ahciVars, bootVars, irqVars, pcieVars>>
     \/ part = "irq" /\ IrqNext /\ UNCHANGED <<ahciVars, bootVars, vars, pcieVars>>
     \/ part = "pcie" /\ PcieNext /\ UNCHANGED <<ahciVars, bootVars, vars, irqVars>>

\* a process inside tty_read is scheduled again and again; nobody has to type
DevicesSpec ==
  /\ DevicesInit /\ [][DevicesNext]_<<part, ahciVars, bootVars, vars, irqVars, pcieVars>>
  /\ \A r \in Reader : WF_vars(part = "tty" /\ Reading(r))

(* No disk call and no processor on its way up gets stuck.                   *)
NothingStuck == (part = "disk" => IoReturns) /\ (part = "boot" => BootCompletes)

(* Interrupts arrive where they should, and every function found has its     *)
(* driver started once.                                                      *)
PlatformReady == (part = "irq" => RoutesExact) /\ (part = "pcie" => DrivenOnce)
=============================================================================
