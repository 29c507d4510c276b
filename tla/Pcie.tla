-------------------------------- MODULE Pcie --------------------------------
(***************************************************************************)
(* The search for PCI Express functions: pcie_init maps the configuration  *)
(* space of every bus in the MCFG, pcie_enumerate walks the buses, through *)
(* bridges too, and starts the driver of each function it finds            *)
(* (drivers/pcie/pcie_init.c, pcie/generic_database.c, sata).              *)
(*                                                                         *)
(* A function is <<bus, device, function>>; the bus stands for segment and *)
(* bus number.  enumerate_bus and configure_function call each other: the  *)
(* frames of enumerate_bus are the stack here.                             *)
(***************************************************************************)
EXTENDS Integers, Sequences, SequencesExt

CONSTANTS LastDev, LastFunc,  \* 31 and 7
          McfgLists,          \* lists of [first, last] bus
          Topologies,         \* hardware: [exists, multi, secondary, enabled]
          MaxDepth            \* bound: nested bridges

Dev == 0 .. LastDev
Func == 0 .. LastFunc

VARIABLES
  mcfg,        \* the entries of the MCFG
  hw,          \* functions that exist, devices with IS_MULTIFUNC, the secondary bus of each
               \* bridge and the functions the firmware switched on
  entry,       \* the entry pcie_init or pcie_enumerate is at
  ecam,        \* functions whose registers are mapped
  stack,       \* frames of enumerate_bus, the innermost first
  command,     \* command register of each function, a set of bits
  driven,      \* how often pcie_generic_init ran for a function
  wild         \* registers were read that are not mapped

pcieVars == <<mcfg, hw, entry, ecam, stack, command, driven, wild>>

PcieInit ==
  /\ mcfg \in McfgLists /\ hw \in Topologies
  /\ entry = [pc |-> "map", i |-> 1]
  /\ ecam = {} /\ stack = <<>>
  /\ command = [f \in hw.exists |-> IF f \in hw.enabled THEN {"enabled"} ELSE {}]
  /\ driven = [f \in hw.exists |-> 0] /\ wild = FALSE

NextEntry(pc, then) ==
  entry' = IF entry.i = Len(mcfg) THEN [pc |-> then, i |-> 1] ELSE [pc |-> pc, i |-> entry.i + 1]

\* a device that is absent reads as all ones, and so as one with several functions
Multi(b, d) == <<b, d>> \in hw.multi \/ <<b, d, 0>> \notin hw.exists

\* pcie_init for one entry
MapEntry ==
  /\ entry.pc = "map"
  /\ ecam' = ecam \cup {f \in (mcfg[entry.i].first .. mcfg[entry.i].last) \X Dev \X Func :
                          f[3] = 0 \/ Multi(f[1], f[2])}
  /\ NextEntry("map", "walk")
  /\ UNCHANGED <<mcfg, hw, stack, command, driven, wild>>

Frame(b) == [bus |-> b, dev |-> 0, func |-> 0, pc |-> "look"]

\* pcie_enumerate takes the next entry
Enumerate ==
  /\ entry.pc = "walk" /\ stack = <<>>
  /\ stack' = <<Frame(mcfg[entry.i].first)>>
  /\ NextEntry("walk", "done")
  /\ UNCHANGED <<mcfg, hw, ecam, command, driven, wild>>

Top == Head(stack)
Here == <<Top.bus, Top.dev, Top.func>>
In(pc) == stack # <<>> /\ ~wild /\ Top.pc = pc

\* Mutant: every device has all its functions looked at
AdvanceAlways ==
  [Top EXCEPT !.pc = "look",
              !.func = IF @ = LastFunc THEN 0 ELSE @ + 1,
              !.dev = IF Top.func = LastFunc THEN @ + 1 ELSE @]

\* the loops of enumerate_bus: function 1 follows function 0 in a device that exists and has several
Advance ==
  LET more == Top.func < LastFunc /\ <<Top.bus, Top.dev, 0>> \in hw.exists /\ <<Top.bus, Top.dev>> \in hw.multi IN
  [Top EXCEPT !.pc = "look", !.func = IF more THEN @ + 1 ELSE 0, !.dev = IF more THEN @ ELSE @ + 1]

\* FUNCTION_EXISTS
Look ==
  /\ In("look") /\ Top.dev <= LastDev
  /\ wild' = (Here \notin ecam)
  /\ stack' = <<IF Here \in hw.exists THEN [Top EXCEPT !.pc = "configure"] ELSE Advance>> \o Tail(stack)
  /\ UNCHANGED <<mcfg, hw, entry, ecam, command, driven>>

Return ==
  /\ In("look") /\ Top.dev > LastDev
  /\ stack' = Tail(stack)
  /\ UNCHANGED <<mcfg, hw, entry, ecam, command, driven, wild>>

\* configure_function: DISABLE_INT takes the command register of function 0 for this function's;
\* a bridge has the bus behind it enumerated first
Configure ==
  /\ In("configure") /\ Len(stack) <= MaxDepth
  /\ command' = [command EXCEPT ![Here] = command[<<Top.bus, Top.dev, 0>>] \cup {"no_intx"}]
  /\ stack' = (IF Here \in DOMAIN hw.secondary THEN <<Frame(hw.secondary[Here])>> ELSE <<>>)
              \o <<[Top EXCEPT !.pc = "drive"]>> \o Tail(stack)
  /\ UNCHANGED <<mcfg, hw, entry, ecam, driven, wild>>

\* pcie_generic_init, which starts ahci_generic for a SATA controller
Drive ==
  /\ In("drive")
  /\ driven' = [driven EXCEPT ![Here] = @ + 1]
  /\ stack' = <<Advance>> \o Tail(stack)
  /\ UNCHANGED <<mcfg, hw, entry, ecam, command, wild>>

PcieNext == MapEntry \/ Enumerate \/ Look \/ Return \/ Configure \/ Drive

-----------------------------------------------------------------------------
\* the functions a walk can find, on the buses reached from the first bus of each entry
Found(buses) == {f \in hw.exists : f[1] \in buses /\ <<f[1], f[2], 0>> \in hw.exists /\ (f[3] > 0 => <<f[1], f[2]>> \in hw.multi)}
Behind(buses) == buses \cup {hw.secondary[f] : f \in Found(buses) \cap DOMAIN hw.secondary}
Starts == {mcfg[k].first : k \in 1 .. Len(mcfg)}
ReachedBuses == Behind(Behind(Behind(Starts)))

\* the firmware has numbered the bridges, downwards, in the ranges of the MCFG, and lists no bus
\* behind a bridge as the first of an entry
Numbered ==
  /\ \A f \in DOMAIN hw.secondary : hw.secondary[f] > f[1] /\ hw.secondary[f] \notin Starts
  /\ \A f \in DOMAIN hw.secondary : \E k \in 1 .. Len(mcfg) : hw.secondary[f] \in mcfg[k].first .. mcfg[k].last
  /\ \A f, g \in DOMAIN hw.secondary : hw.secondary[f] = hw.secondary[g] => f = g

\* With bridges numbered, the walk comes to its end, reads mapped registers only and starts the
\* driver of every function it can reach exactly once: none is left out behind a bridge or beside
\* one.  A function's driver finds it switched on if function 0 of its device was.
DrivenOnce ==
  Numbered =>
    /\ ~wild
    /\ ENABLED PcieNext \/ (entry.pc = "done" /\ stack = <<>>)
    /\ \A f \in hw.exists : driven[f] <= 1 /\ (driven[f] = 1 => f \in Found(ReachedBuses))
    /\ entry.pc = "done" /\ stack = <<>> =>
         \A f \in Found(ReachedBuses) :
           /\ driven[f] = 1 /\ "no_intx" \in command[f]
           /\ "enabled" \in command[f] <=> <<f[1], f[2], 0>> \in hw.enabled
=============================================================================
