----------------------------- MODULE Interrupts -----------------------------
(****************************************************************************)
(* The way of a device's interrupt on the PC: the two 8259 controllers as   *)
(* pic.c sets them up, the local APIC between them and the processor, the   *)
(* stub of interrupt_stubs.S, irq_handler and its end of interrupt, and the *)
(* part of clock_init (main_weak.c) that turns the lines on.                *)
(*                                                                          *)
(* The handler runs with interrupts disabled until iret.  The word it takes *)
(* for the line's number is the one the stub pushed last: ds in its low     *)
(* half, the upper half of the interrupted eax above it.                    *)
(*                                                                          *)
(* External: the 8259s (edge triggered, fully nested, lines 8 to 15 behind  *)
(* line 2), the devices that raise and withdraw requests, and LINT0.        *)
(****************************************************************************)
EXTENDS Naturals, Sequences, SequencesExt

CONSTANTS
    Devices,       \* lines that have a device
    Machines,      \* "pic": no ACPI tables; "xapic"; "x2apic"
    BiosMasks      \* the masks pic_init may find, as sets of lines

Lines   == 0 .. 15
Timer   == 0
Floppy  == 6
Cascade == 2
Slave   == 8 .. 15

\* clock_init, lines 340 to 347, and the cases of irq_handler.
EnableOrder == <<0, 1, 3, 4, 5, 6, 8, 11>>
Enabled     == ToSet(EnableOrder)
Drivers     == {0, 1, 3, 4, 5, 6, 8, 11}

\* What irq_handler finds in place of the number of a line: 16, or more.
Numbers(l) == {16, 65552}

VARIABLES
    machine,       \* what the boot code finds
    waits,         \* floppy_reset waits for its interrupt, as the code does;
                   \* FALSE: boot goes on, to see what comes after it
    phase,         \* where clock_init is
    calls,         \* how many of the calls of pic_enable_irq are done
    pic_irq_mask,  \* the driver's idea of the masks
    imr,           \* the masks
    irr,           \* requests the 8259s have latched
    isr,           \* lines in service
    high,          \* devices that hold their line up
    recent,        \* lines raised since the processor last had nothing to do
    lint0,         \* whether the 8259s reach the processor
    apic_enabled,
    cpu,           \* the next step of the processor
    vec,           \* the line whose stub runs
    irq_no,        \* the argument of irq_handler
    driver         \* the driver irq_handler called, else 16
bootVars == <<machine, waits, phase, calls, lint0, apic_enabled>>
picVars  == <<pic_irq_mask, imr, irr, isr>>
lineVars == <<high, recent>>
cpuVars  == <<cpu, vec, irq_no, driver>>
interruptsVars == <<bootVars, picVars, lineVars, cpuVars>>

TypeOK ==
    /\ machine \in Machines /\ waits \in BOOLEAN
    /\ phase \in {"pic", "apic", "floppy", "wait", "enable", "tasks"}
    /\ calls \in 0 .. Len(EnableOrder)
    /\ pic_irq_mask \subseteq Lines /\ imr \subseteq Lines
    /\ irr \subseteq Devices /\ isr \subseteq Devices \cup {Cascade}
    /\ high \subseteq Devices /\ recent \subseteq Devices
    /\ lint0 \in {"extint", "masked"}
    /\ apic_enabled \in BOOLEAN
    /\ cpu \in {"boot", "run", "inta", "irq", "eoiSlave", "eoiMaster", "iret"}
    /\ vec \in Lines
    /\ irq_no \in Numbers(vec) \cup {0}
    /\ driver \in Drivers \cup {16}

Init ==
    /\ machine \in Machines /\ waits \in BOOLEAN
    /\ phase = "pic" /\ calls = 0
    /\ pic_irq_mask = Lines /\ imr \in BiosMasks
    /\ irr = {} /\ isr = {}
    /\ high = {} /\ recent = {}
    /\ lint0 = "extint" /\ apic_enabled = FALSE
    /\ cpu = "boot" /\ vec = 0 /\ irq_no = 0 /\ driver = 16

----------------------------------------------------------------------------
(* The 8259s *)

\* Line 2 has the priority of the lines behind it.
Rank(l) == IF l <= 1 THEN l ELSE IF l \in Slave THEN l - 6
           ELSE IF l = Cascade THEN 2 ELSE l + 8

\* A request passes unless its line is masked or something of its rank or
\* above is in service; all of 8 to 15 share line 2 of the master.
Passes(l) ==
    /\ l \in irr \ imr
    /\ \A s \in isr : Rank(l) < Rank(s)
    /\ l \in Slave => Cascade \notin imr \cup isr
Passing == {l \in irr : Passes(l)}

Highest(S) == CHOOSE l \in S : \A k \in S : Rank(l) <= Rank(k)

\* A non-specific end of interrupt ends the highest line in service.
Ended(S) == isr \ (IF isr \cap S = {} THEN {} ELSE {Highest(isr \cap S)})

----------------------------------------------------------------------------
(* The devices *)

\* A device raises its line.  Bound: the processor is faster than the devices,
\* so that none raises its line twice without a moment in which it is idle.
Raise(l) ==
    /\ l \in Devices \ (high \cup recent)
    /\ irr' = irr \cup {l}
    /\ high' = IF l = Timer THEN high ELSE high \cup {l}
    /\ recent' = recent \cup {l}
    /\ UNCHANGED <<bootVars, pic_irq_mask, imr, isr, cpuVars>>

\* A device takes its request back; the latch may or may not keep it.
Withdraw(l) ==
    /\ l \in high
    /\ high' = high \ {l}
    /\ irr' \in {irr, irr \ {l}}
    /\ UNCHANGED <<bootVars, pic_irq_mask, imr, isr, recent, cpuVars>>

Quiet ==
    /\ cpu \in {"boot", "run"} /\ Passing = {} /\ recent # {}
    /\ recent' = {}
    /\ UNCHANGED <<bootVars, picVars, high, cpuVars>>

----------------------------------------------------------------------------
(* clock_init *)

\* The masks found are put back; pic_irq_mask still says that all is masked.
pic_init ==
    /\ phase = "pic"
    /\ phase' = "apic"
    /\ irr' = {} /\ isr' = {}
    /\ UNCHANGED <<machine, waits, calls, pic_irq_mask, imr, lineVars, lint0, apic_enabled, cpuVars>>

\* x2apic_init masks LINT0, by which the 8259s reach the processor; apic_init,
\* which is called when there is no x2APIC, passes them on.
Lint0After == IF machine = "x2apic" THEN "masked" ELSE "extint"
EnabledAfter == machine = "xapic"

ApicSetup ==
    /\ phase = "apic"
    /\ phase' = "floppy"
    /\ lint0' = Lint0After /\ apic_enabled' = EnabledAfter
    /\ UNCHANGED <<machine, waits, calls, picVars, lineVars, cpuVars>>

\* floppy_init resets the controller, which raises its line, and waits for
\* floppy_irq_handler: it goes on when the driver has run.
floppy_init ==
    /\ phase = "floppy"
    /\ phase' = "wait"
    /\ irr' = irr \cup ({Floppy} \cap Devices)
    /\ high' = high \cup ({Floppy} \cap Devices)
    /\ UNCHANGED <<machine, waits, calls, pic_irq_mask, imr, isr, recent, lint0, apic_enabled, cpuVars>>
floppy_wait_irq ==
    /\ phase = "wait"
    /\ waits => driver = Floppy
    /\ phase' = "enable"
    /\ UNCHANGED <<machine, waits, calls, picVars, lineVars, lint0, apic_enabled, cpuVars>>

\* (As mutated: the cascade is not enabled.)
EnableNoCascade ==
    /\ phase = "enable" /\ calls < Len(EnableOrder)
    /\ LET irq  == EnableOrder[calls + 1]
           half == IF irq \in Slave THEN Slave ELSE Lines \ Slave
       IN  /\ pic_irq_mask' = pic_irq_mask \ {irq}
           /\ imr' = (imr \ half) \cup (pic_irq_mask' \cap half)
    /\ calls' = calls + 1
    /\ UNCHANGED <<machine, waits, phase, irr, isr, lineVars, lint0, apic_enabled, cpuVars>>
pic_enable_irq ==
    /\ phase = "enable" /\ calls < Len(EnableOrder)
    /\ LET irq == EnableOrder[calls + 1]
       IN  /\ pic_irq_mask' = pic_irq_mask \ ({irq} \cup (IF irq \in Slave THEN {Cascade} ELSE {}))
           /\ imr' = IF irq \in Slave THEN pic_irq_mask'
                     ELSE (imr \cap Slave) \cup (pic_irq_mask' \ Slave)
    /\ calls' = calls + 1
    /\ UNCHANGED <<machine, waits, phase, irr, isr, lineVars, lint0, apic_enabled, cpuVars>>

enable_interrupts ==
    /\ phase = "enable" /\ calls = Len(EnableOrder)
    /\ phase' = "tasks"
    /\ cpu' = "run"
    /\ UNCHANGED <<machine, waits, calls, picVars, lineVars, lint0, apic_enabled, vec, irq_no, driver>>

Booting == pic_init \/ ApicSetup \/ floppy_init \/ floppy_wait_irq \/ pic_enable_irq
           \/ enable_interrupts

----------------------------------------------------------------------------
(* The processor *)

\* INTR is up and interrupts are enabled.
Accept ==
    /\ cpu = "run" /\ lint0 = "extint" /\ Passing # {}
    /\ cpu' = "inta"
    /\ UNCHANGED <<bootVars, picVars, lineVars, vec, irq_no, driver>>

\* The 8259s give the number.  If the request is gone it is 7, or 15 from the
\* slave, whose line 2 is then in service.
Acknowledge ==
    /\ cpu = "inta"
    /\ cpu' = "irq"
    /\ \/ /\ Passing # {}
          /\ vec' = Highest(Passing)
          /\ irr' = irr \ {vec'}
          /\ isr' = isr \cup {vec'} \cup (IF vec' \in Slave THEN {Cascade} ELSE {})
       \/ /\ Passing = {}
          /\ \/ vec' = 7 /\ isr' = isr
             \/ vec' = 15 /\ Cascade \notin imr /\ isr' = isr \cup {Cascade}
          /\ irr' = irr
    /\ UNCHANGED <<bootVars, pic_irq_mask, imr, lineVars, irq_no, driver>>

\* The switch of irq_handler, and which end of interrupt comes next.  A driver
\* that runs satisfies its device.
irq_handler ==
    /\ cpu = "irq"
    /\ irq_no' \in Numbers(vec)
    /\ driver' = IF irq_no' \in Drivers THEN irq_no' ELSE 16
    /\ high' = high \ {driver'}
    /\ cpu' = IF apic_enabled THEN "iret"
              ELSE IF irq_no' >= 8 THEN "eoiSlave" ELSE "eoiMaster"
    /\ UNCHANGED <<bootVars, picVars, recent, vec>>

\* (As mutated: only the controller of the line is told.)
EoiSlaveOnly ==
    /\ cpu = "eoiSlave"
    /\ cpu' = "iret"
    /\ isr' = Ended(Slave)
    /\ UNCHANGED <<bootVars, pic_irq_mask, imr, irr, lineVars, vec, irq_no, driver>>
EoiSlave ==
    /\ cpu = "eoiSlave"
    /\ cpu' = "eoiMaster"
    /\ isr' = Ended(Slave)
    /\ UNCHANGED <<bootVars, pic_irq_mask, imr, irr, lineVars, vec, irq_no, driver>>

EoiMaster ==
    /\ cpu = "eoiMaster"
    /\ cpu' = "iret"
    /\ isr' = Ended(Lines \ Slave)
    /\ UNCHANGED <<bootVars, pic_irq_mask, imr, irr, lineVars, vec, irq_no, driver>>

\* sti takes effect after the iret that follows it.
Iret ==
    /\ cpu = "iret"
    /\ cpu' = "run"
    /\ UNCHANGED <<bootVars, picVars, lineVars, vec, irq_no, driver>>

Processor == Accept \/ Acknowledge \/ irq_handler \/ EoiSlave \/ EoiMaster \/ Iret

Next ==
    \/ Booting \/ Processor \/ Quiet
    \/ \E l \in Devices : Raise(l) \/ Withdraw(l)

\* The processor runs; the devices raise their lines when they like.
Fairness == WF_interruptsVars(Booting) /\ WF_interruptsVars(Processor) /\ WF_interruptsVars(Quiet)

Spec == Init /\ [][Next]_interruptsVars /\ Fairness

----------------------------------------------------------------------------
(* Properties *)

\* A line is in service only if clock_init enabled it, whatever the BIOS left
\* unmasked, and only while a handler runs, whatever was withdrawn meanwhile:
\* one that stayed would shut out every line below it.  (Where irq_handler
\* tells the local APIC instead of the 8259s, it does stay.)
InService ==
    /\ isr \subseteq Enabled \cup {Cascade}
    /\ cpu \in {"boot", "run"} /\ ~apic_enabled => isr = {}

\* Once the tasks run, a request on an enabled line does not wait for ever, on
\* a machine without ACPI tables.  (With them, see InService, or LINT0 is masked.)
RequestsServed ==
    \A l \in Enabled \cap Devices :
        (machine = "pic" /\ phase = "tasks" /\ l \in irr) ~> (l \notin irr)
=============================================================================
