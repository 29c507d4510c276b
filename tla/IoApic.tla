------------------------------- MODULE IoApic -------------------------------
(***************************************************************************)
(* Interrupt routing: ioapic_init and ioapic_conf_gsi                      *)
(* (kernel/ioapic/ioapic_init.c), ioapic_routing_init (ioapic/routing.c)   *)
(* and serial_init_interrupts (drivers/serial/interrupts.c), run by the    *)
(* boot processor in this order.                                           *)
(*                                                                         *)
(* A global system interrupt (GSI) is a pin of some I/O APIC.  The MADT    *)
(* lists the I/O APICs, the ISA interrupts that are wired to another GSI   *)
(* than their number, and non-maskable ones.  apic_init has run before,    *)
(* apic_init_shootdowns (apic/ipi.c) runs in between.                      *)
(*                                                                         *)
(* The destination of an entry is left out: it is the boot processor's     *)
(* APIC id for SCI and NMIs and APIC id 0 for the serial ports.            *)
(***************************************************************************)
EXTENDS Integers, Sequences, FiniteSets, FiniteSetsExt

CONSTANTS NUM_LEGACY,          \* ISA interrupts
          COM1_IRQ, COM2_IRQ,
          IoApicLists,         \* lists of I/O APICs: [base, pins]
          OverrideLists,       \* lists of interrupt source overrides: [src, gsi]
          NmiLists,            \* lists of GSIs
          SciInts              \* values of acpi_get_sci_int

ASSUME IrqAssumption == COM1_IRQ # COM2_IRQ /\ {COM1_IRQ, COM2_IRQ} \subseteq 0 .. NUM_LEGACY - 1

Nowhere == [ioapic |-> 0, base |-> 0]  \* a redir_index entry that is still zero: the writes go to address 0

VARIABLES
  ioapics, overrides, nmis, sci,  \* the firmware's tables
  redir_index,     \* for each GSI the I/O APIC and its first GSI
  pin,             \* redirection entries, by I/O APIC and pin
  legacy_routing,  \* GSI of each ISA interrupt
  identity,        \* gsi_is_identity_isa
  idt,             \* the handlers installed, from vector 0x30 on
  at               \* the loop ioapic_init is in, and its counter

irqVars == <<ioapics, overrides, nmis, sci, redir_index, pin, legacy_routing, identity, idt, at>>

\* the firmware may have left pins open
IrqInit ==
  /\ ioapics \in IoApicLists /\ overrides \in OverrideLists /\ nmis \in NmiLists /\ sci \in SciInts
  /\ redir_index = <<>>
  /\ pin = [a \in 1 .. Len(ioapics) |-> [n \in 0 .. ioapics[a].pins - 1 |-> [vector |-> 0, mode |-> "firmware"]]]
  /\ legacy_routing = <<>> /\ identity = {}
  /\ idt = <<"timer", "error">>
  /\ at = [loop |-> "scan", i |-> 0]

idt_get_vector == Len(idt) + 1
Install(isr) == idt' = Append(idt, isr)

Loop(l, i) == at' = [loop |-> l, i |-> i]
Next1(l, last, then, i) == IF at.i = last THEN Loop(then, i) ELSE Loop(l, at.i + 1)

\* ioapic_conf_gsi, the register it selects being that of the pin only for a GSI of the I/O APIC
conf_gsi(p, gsi, v, mode) ==
  LET r == redir_index[gsi] IN
  IF r = Nowhere \/ gsi - r.base \notin DOMAIN p[r.ioapic] THEN p
  ELSE [p EXCEPT ![r.ioapic][gsi - r.base] = [vector |-> v, mode |-> mode]]

gsi_max == Max({1 + ioapics[a].base + ioapics[a].pins : a \in 1 .. Len(ioapics)})

\* first pass over the I/O APICs, and kmemset of redir_index
Scan ==
  /\ at.loop = "scan"
  /\ redir_index' = [g \in 0 .. gsi_max - 1 |-> Nowhere]
  /\ Loop("index", 1)
  /\ UNCHANGED <<ioapics, overrides, nmis, sci, pin, legacy_routing, identity, idt>>

\* second pass: the pins are entered from 0 on for every I/O APIC, not from its first GSI
IndexPins ==
  /\ at.loop = "index"
  /\ redir_index' = [g \in DOMAIN redir_index |->
                       IF g < ioapics[at.i].pins THEN [ioapic |-> at.i, base |-> ioapics[at.i].base] ELSE redir_index[g]]
  /\ Next1("index", Len(ioapics), "mask", 0)
  /\ UNCHANGED <<ioapics, overrides, nmis, sci, pin, legacy_routing, identity, idt>>

MaskAll ==
  /\ at.loop = "mask"
  /\ pin' = conf_gsi(pin, at.i, 0, "masked")
  /\ Next1("mask", gsi_max - 1, "legacy", 0)
  /\ UNCHANGED <<ioapics, overrides, nmis, sci, redir_index, legacy_routing, identity, idt>>

\* ioapic_routing_init begins with every ISA interrupt at the GSI of its number
Legacy ==
  /\ at.loop = "legacy"
  /\ legacy_routing' = [i \in 0 .. NUM_LEGACY - 1 |-> i] /\ identity' = 0 .. NUM_LEGACY - 1
  /\ Loop("override", 1)
  /\ UNCHANGED <<ioapics, overrides, nmis, sci, redir_index, pin, idt>>

\* the source's own GSI becomes unused if the GSI it moves to counts as an identity; isa_src of
\* that GSI stays what it was, and beyond the ISA interrupts it was never set
Override ==
  /\ at.loop = "override"
  /\ IF at.i > Len(overrides) THEN Loop("identity", 0) /\ UNCHANGED <<pin, legacy_routing, identity>>
     ELSE LET o == overrides[at.i]
              legacy == IF o.gsi < NUM_LEGACY THEN identity \cup {o.gsi} ELSE identity IN
          /\ pin' = conf_gsi(pin, o.gsi, 0, "masked")
          /\ legacy_routing' = [legacy_routing EXCEPT ![o.src] = o.gsi]
          /\ \/ identity' = legacy \ {o.src}
             \/ o.gsi >= NUM_LEGACY /\ identity' = legacy
          /\ Loop("override", at.i + 1)
  /\ UNCHANGED <<ioapics, overrides, nmis, sci, redir_index, idt>>

Identity ==
  /\ at.loop = "identity"
  /\ pin' = IF at.i \in identity THEN conf_gsi(pin, at.i, 0, "masked") ELSE pin
  /\ Next1("identity", NUM_LEGACY - 1, "nmi", 1)
  /\ UNCHANGED <<ioapics, overrides, nmis, sci, redir_index, legacy_routing, identity, idt>>

Nmi ==
  /\ at.loop = "nmi"
  /\ IF at.i > Len(nmis) THEN Loop("sci", 0) /\ UNCHANGED pin
     ELSE pin' = conf_gsi(pin, nmis[at.i], 0, "nmi") /\ Loop("nmi", at.i + 1)
  /\ UNCHANGED <<ioapics, overrides, nmis, sci, redir_index, legacy_routing, identity, idt>>

\* a number below NUM_LEGACY is an ISA interrupt
Sci ==
  /\ at.loop = "sci"
  /\ pin' = conf_gsi(pin, IF sci < NUM_LEGACY THEN legacy_routing[sci] ELSE sci, idt_get_vector, "level")
  /\ Install("sci")
  /\ Loop("shootdown", 0)
  /\ UNCHANGED <<ioapics, overrides, nmis, sci, redir_index, legacy_routing, identity>>

InitShootdowns ==
  /\ at.loop = "shootdown"
  /\ Install("shootdown")
  /\ Loop("serial", 0)
  /\ UNCHANGED <<ioapics, overrides, nmis, sci, redir_index, pin, legacy_routing, identity>>

\* serial_init_interrupts, from tty_init: both vectors are drawn first
Serial ==
  /\ at.loop = "serial"
  /\ pin' = conf_gsi(conf_gsi(pin, legacy_routing[COM1_IRQ], idt_get_vector, "edge"),
                     legacy_routing[COM2_IRQ], idt_get_vector + 1, "edge")
  /\ idt' = idt \o <<"com1", "com2">>
  /\ Loop("done", 0)
  /\ UNCHANGED <<ioapics, overrides, nmis, sci, redir_index, legacy_routing, identity>>

IrqNext == Scan \/ IndexPins \/ MaskAll \/ Legacy \/ Override \/ Identity \/ Nmi \/ Sci \/ InitShootdowns \/ Serial

-----------------------------------------------------------------------------
\* where the firmware says an ISA interrupt arrives: its last override counts
Wired(irq) ==
  LET os == {k \in 1 .. Len(overrides) : overrides[k].src = irq}
  IN IF os = {} THEN irq ELSE overrides[Max(os)].gsi
SciGsi == IF sci < NUM_LEGACY THEN Wired(sci) ELSE sci
Listening == <<SciGsi, Wired(COM1_IRQ), Wired(COM2_IRQ)>>
NmiGsis == {nmis[k] : k \in 1 .. Len(nmis)}

\* tables the code handles: the I/O APIC listed last has GSI 0 and every GSI in use, and no two
\* interrupts in use share a GSI
Handled ==
  LET a == ioapics[Len(ioapics)]
      used == {Listening[k] : k \in 1 .. 3} IN
  /\ a.base = 0 /\ used \cup NmiGsis \subseteq 0 .. a.pins - 1
  /\ Cardinality(used) = 3 /\ used \cap NmiGsis = {}

\* On tables the code handles, whatever the overrides do to each other: SCI and the two serial ports
\* arrive at the pins the firmware wired them to and run their own handlers; non-maskable interrupts
\* stay open through all that is configured after; every other pin of that I/O APIC is masked.  The
\* pins of the others get no vector; unless redir_index happens to lead to them they are not masked
\* either, but stay as the firmware left them, against "mask everything until needed".
RoutesExact ==
  at.loop = "done" /\ Handled =>
    LET last == Len(ioapics)
        p == pin[last]
        Runs(g, mode, isr) == p[g].mode = mode /\ p[g].vector \in DOMAIN idt /\ idt[p[g].vector] = isr IN
    /\ Runs(SciGsi, "level", "sci")
    /\ Runs(Wired(COM1_IRQ), "edge", "com1") /\ Runs(Wired(COM2_IRQ), "edge", "com2")
    /\ \A g \in DOMAIN p \ {Listening[k] : k \in 1 .. 3} : p[g].mode = IF g \in NmiGsis THEN "nmi" ELSE "masked"
    /\ \A a \in 1 .. last - 1 : \A n \in DOMAIN pin[a] :
         pin[a][n].mode = IF redir_index[ioapics[a].base + n].ioapic = a THEN "masked" ELSE "firmware"
=============================================================================
