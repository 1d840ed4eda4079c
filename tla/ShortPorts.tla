------------------------------ MODULE ShortPorts ------------------------------
(***************************************************************************)
(* The port side of short/short.c: bursts of bytes to and from the ports,  *)
(* the toggling of the data lines, and the search for the interrupt line   *)
(* by raising it.                                                          *)
(***************************************************************************)
EXTENDS Integers, Sequences, FiniteSets

CONSTANTS
    User,
    Line,           \* interrupt lines: 3, 5, 7 and 9 in the code
    MaxToggles,     \* bound on f_pos of the toggling node
    MaxFires,       \* bound on the interrupts while a probe is under way
    MaxFaults       \* bound on the outputs whose buffer cannot be copied

ASSUME ShortPortsAssumption ==
    Line \subseteq Nat \ {0} /\ MaxToggles \in Nat /\ MaxFires \in Nat /\ MaxFaults \in Nat

VARIABLES
    bursts,         \* users inside a burst
    kbufs, faults,  \* buffers allocated; outputs that ended with -EFAULT
    level,          \* the data lines after the last output of the file: 0 or 255
    i_pos,          \* f_pos of the file on the toggling node
    short_irq, tried, passes,    \* of the probe; tried: the lines that could be had
    probing,        \* "none", "toggle", "wait", "over"
    fired,          \* the lines that fired since short_irq was last 0, in order
    crossed         \* those that fired at once, on two processors

outputs == <<bursts, kbufs, faults>>
lines   == <<level, i_pos>>
probe   == <<short_irq, tried, passes, probing, fired, crossed>>
pvars   == <<outputs, lines, probe>>

Modes == {"SHORT_DEFAULT", "SHORT_PAUSE", "SHORT_STRING", "SHORT_MEMORY", "none"}

PortsTypeOK ==
    /\ bursts \subseteq User /\ kbufs \in Nat /\ faults \in 0 .. MaxFaults
    /\ level \in {0, 255} /\ i_pos \in 0 .. MaxToggles
    /\ short_irq \in {(-1), 0} \cup Line \cup {(-l) : l \in Line}
    /\ tried \subseteq Line /\ passes \in 0 .. 6
    /\ probing \in {"none", "toggle", "wait", "over"}
    /\ Len(fired) <= MaxFires /\ crossed \subseteq Line

PortsInit ==
    /\ bursts = {} /\ kbufs = 0 /\ faults = 0 /\ level = 0 /\ i_pos = 0
    /\ short_irq = -1 /\ tried = {} /\ passes = 0 /\ probing = "none" /\ fired = <<>>
    /\ crossed = {}
-----------------------------------------------------------------------------
(* A burst begins with a buffer.                                           *)
Begins(u) == /\ u \notin bursts /\ bursts' = bursts \cup {u} /\ kbufs' = kbufs + 1
             /\ UNCHANGED <<faults, lines, probe>>

(* The buffer goes whatever the mode; without one the call is -EINVAL.     *)
Ends(u, mode) == /\ u \in bursts /\ bursts' = bursts \ {u} /\ kbufs' = kbufs - 1
                 /\ UNCHANGED <<faults, lines, probe>>

do_short_read(u) == Begins(u) \/ \E mode \in Modes : Ends(u, mode)

(* A write whose bytes cannot be copied in returns with its buffer.        *)
do_short_write(u) ==
    \/ Begins(u) \/ \E mode \in Modes : Ends(u, mode)
    \/ /\ u \in bursts /\ faults < MaxFaults
       /\ bursts' = bursts \ {u} /\ faults' = faults + 1
       /\ UNCHANGED <<kbufs, lines, probe>>

(* Mutant: every write starts with the lines up.                           *)
ToggleFromOne(n) == 255 * (n % 2)

(* The value of the last of n outputs from the position on.                *)
Toggle(n) == 255 * ((n + (i_pos % 2)) % 2)

short_i_write(n) ==
    /\ i_pos + n <= MaxToggles
    /\ level' = Toggle(n) /\ i_pos' = i_pos + n
    /\ UNCHANGED <<outputs, probe>>
-----------------------------------------------------------------------------
(* The probing handler is installed on the lines that can be had.          *)
Install ==
    /\ probing = "none"
    /\ tried' \in SUBSET Line /\ probing' = "toggle" /\ passes' = 0
    /\ UNCHANGED <<outputs, lines, short_irq, fired, crossed>>

(* A turn of the loop: nothing found yet, and the lines are toggled.      *)
ToggleLine ==
    /\ probing = "toggle" /\ probing' = "wait"
    /\ short_irq' = 0 /\ fired' = <<>> /\ crossed' = {}
    /\ UNCHANGED <<outputs, lines, tried, passes>>

(* Mutant: the last line that fires is taken.                              *)
LastLine(irq) == irq

(* The first line is taken, another one makes the answer negative.         *)
Probing(irq) == LET line == IF short_irq = 0 THEN irq ELSE short_irq
                IN IF line # irq THEN (-irq) ELSE line

(* The handler, on a line that the port or some other device raises, while *)
(* it is installed.                                                        *)
short_probing(irq) ==
    /\ probing \in {"toggle", "wait", "over"} /\ irq \in tried /\ Len(fired) < MaxFires
    /\ short_irq' = Probing(irq) /\ fired' = Append(fired, irq)
    /\ UNCHANGED <<outputs, lines, tried, passes, probing, crossed>>

(* The handlers of two lines at once: both may find 0, and then either     *)
(* line may be the answer.                                                 *)
short_probing_both(irq, other) ==
    /\ probing \in {"toggle", "wait", "over"} /\ {irq, other} \subseteq tried
    /\ irq # other /\ Len(fired) + 1 < MaxFires
    /\ short_irq' \in {(-irq), (-other)} \cup IF short_irq = 0 THEN {irq, other} ELSE {}
    /\ fired' = fired \o <<irq, other>> /\ crossed' = crossed \cup {irq, other}
    /\ UNCHANGED <<outputs, lines, tried, passes, probing>>

(* The test after the delay: six turns at most.                            *)
LoopTest ==
    /\ probing = "wait"
    /\ IF short_irq <= 0 /\ passes < 5
       THEN probing' = "toggle" /\ passes' = passes + 1
       ELSE probing' = "over" /\ passes' = IF short_irq <= 0 THEN passes + 1 ELSE passes
    /\ UNCHANGED <<outputs, lines, short_irq, tried, fired, crossed>>

(* The handlers go, from the lines they were given.                        *)
Uninstall ==
    /\ probing = "over" /\ tried # {}
    /\ tried' = {}
    /\ UNCHANGED <<outputs, lines, short_irq, passes, probing, fired, crossed>>

short_selfprobe == Install \/ ToggleLine \/ LoopTest \/ Uninstall

PortsNext == \/ \E u \in User : do_short_read(u) \/ do_short_write(u)
             \/ \E n \in 1 .. MaxToggles : short_i_write(n)
             \/ short_selfprobe \/ (\E irq \in Line : short_probing(irq))
             \/ \E irq, other \in Line : short_probing_both(irq, other)

PortsSpec == PortsInit /\ [][PortsNext]_pvars
-----------------------------------------------------------------------------
(* A buffer outlives its call only when the write could not copy its       *)
(* bytes, which loses it.                                                  *)
BuffersGoWithTheirCalls == kbufs = Cardinality(bursts) + faults

(* The lines alternate from one write to the next: wherever the outputs of  *)
(* a file are cut, the last output is up exactly when an odd number went   *)
(* before.                                                                 *)
LinesAlternate == level = 255 * (i_pos % 2)

(* Whatever is cut short, buffers and lines stay in step with the calls,   *)
(* and the search comes to an end.                                         *)
OutputsAreInStep == PortsTypeOK /\ BuffersGoWithTheirCalls /\ LinesAlternate

(* A positive answer of the probe is a line that fired, alone, since the   *)
(* lines were last toggled; even when interrupts come between the toggles, *)
(* the test and the removal of the handlers; but not when two lines fire   *)
(* on two processors at once.                                              *)
FoundLineFiredAlone ==
    (short_irq > 0 /\ probing # "none" /\ crossed = {}) =>
        fired # <<>> /\ \A i \in DOMAIN fired : fired[i] = short_irq
=============================================================================
