-------------------------------- MODULE Uart --------------------------------
(***************************************************************************)
(* kernel/src/out/uart.rs over amd64/src/ports.rs: how a serial chip of    *)
(* unknown version is identified, configured and tested, and how bytes are *)
(* written to it.  A register is a word.  Every port access is one step,   *)
(* between which the chip moves bytes on.  The chip is external; it is in  *)
(* whatever state the firmware left it.                                    *)
(***************************************************************************)
EXTENDS Words, Sequences

CONSTANTS
    Versions,    \* the chips that may be installed
    Firmware,    \* what the firmware may leave: records of lcr, mcr and ier
    FifoDepth    \* bytes that a working FIFO holds

VARIABLES
    chip,        \* the chip's registers and the bytes in it
    driver       \* the driver: its place in UartPort::new, ver, what it read

----------------------------------------------------------------------------
(* Names of versions, ports and bits.                                      *)

V8250 == 8250
V16450 == 16450
V16550 == 16550
V16550A == 16551
V16750 == 16750

THBR == 0
RBR == 0
DLL == 0
IER == 1
DLH == 1
IIR == 2
FCR == 2
LCR == 3
MCR == 4
LSR == 5
SCR == 7

IER_ENABLE_SLEEP_MODE == 4
IER_ENABLE_LOW_POWER_MODE == 5
FCR_ENABLE_FIFOS == 0
FCR_CLEAR_RECEIVE_FIFO == 1
FCR_CLEAR_TRANSMIT_FIFO == 2
FCR_ENABLE_64_BYTE_FIFO == 5
FCR_INTERRUPT_TRIGGER_LEVEL_8_32 == {7}
LCR_WORD_LENGTH_8_BITS == {0, 1}
LCR_NO_PARITY == {}
LCR_DIVISOR_LATCH_ACCESS_BIT == 7
MCR_DATA_TERMINAL_READY == 0
MCR_REQUEST_TO_SEND == 1
MCR_AUXILLARY_OUTPUT_1 == 2
MCR_AUXILLARY_OUTPUT_2 == 3
MCR_LOOPBACK_ENABLED == 4
MCR_AUTOFLOW_CONTROL_ENABLED == 5
LSR_DATA_READY == 0
LSR_EMPTY_TRANSMITTER_HOLDING_REGISTER == 5

Byte == 0 .. 7   \* all bits of a register: u8::MAX

----------------------------------------------------------------------------
(* The chip (external).                                                    *)

Latched(c) == LCR_DIVISOR_LATCH_ACCESS_BIT \in c.lcr
HasFcr(c) == c.ver \notin {V8250, V16450}
Depth(c) == IF c.ver >= V16550A /\ FCR_ENABLE_FIFOS \in c.fcr THEN FifoDepth ELSE 1

\* What writing data to a port does.  A byte more than fits replaces the last.
out8(c, port, data) ==
    CASE port = 0 /\ Latched(c) -> [c EXCEPT !.dll = data]
      [] port = 0 -> [c EXCEPT !.hold = Append(IF Len(@) < Depth(c) THEN @ ELSE SubSeq(@, 1, Depth(c) - 1), data)]
      [] port = 1 /\ Latched(c) -> [c EXCEPT !.dlh = data]
      [] port = 1 -> [c EXCEPT !.ier = data]
      [] port = 2 /\ HasFcr(c) ->
            [c EXCEPT !.fcr = data,
                      !.recv = IF FCR_CLEAR_RECEIVE_FIFO \in data THEN <<>> ELSE @,
                      !.hold = IF FCR_CLEAR_TRANSMIT_FIFO \in data THEN <<>> ELSE @]
      [] port = 3 -> [c EXCEPT !.lcr = data]
      [] port = 4 -> [c EXCEPT !.mcr = data]
      [] port = 7 /\ c.ver # V8250 -> [c EXCEPT !.scr = data]
      [] OTHER -> c

\* The FIFO bits of the identification register.
FifoState(c) ==
    IF ~HasFcr(c) \/ FCR_ENABLE_FIFOS \notin c.fcr THEN {}
    ELSE CASE c.ver = V16550 -> {7}
           [] c.ver = V16550A -> {6, 7}
           [] OTHER -> {6, 7} \cup (c.fcr \cap {FCR_ENABLE_64_BYTE_FIFO})

\* What reading a port returns.
in8(c, port) ==
    CASE port = 0 /\ Latched(c) -> c.dll
      [] port = 0 -> IF c.recv = <<>> THEN {} ELSE Head(c.recv)
      [] port = 1 -> IF Latched(c) THEN c.dlh ELSE c.ier
      [] port = 2 -> {0} \cup FifoState(c)
      [] port = 3 -> c.lcr
      [] port = 4 -> c.mcr
      [] port = 5 -> (IF c.recv # <<>> THEN {LSR_DATA_READY} ELSE {})
                     \cup (IF c.hold = <<>> THEN {LSR_EMPTY_TRANSMITTER_HOLDING_REGISTER} ELSE {})
      [] port = 7 /\ c.ver # V8250 -> c.scr
      [] OTHER -> Byte

\* Bits of the control registers that the chip does not define.
Reserved(ver, port) ==
    CASE port = IER -> Byte \ (IF ver = V16750 THEN 0 .. 5 ELSE 0 .. 3)
      [] port = FCR -> IF ver = V16750 THEN {4} ELSE IF ver = V16550A THEN {4, 5} ELSE Byte
      [] port = MCR -> Byte \ (IF ver = V16750 THEN 0 .. 5 ELSE 0 .. 4)
      [] OTHER -> {}

\* The chip sends the next byte: down the line, or to itself in loopback.
Transmit ==
    /\ chip.hold # <<>>
    /\ chip' = [chip EXCEPT !.hold = Tail(@),
                  !.recv = IF MCR_LOOPBACK_ENABLED \in chip.mcr THEN Append(@, Head(chip.hold)) ELSE @,
                  !.line = IF MCR_LOOPBACK_ENABLED \in chip.mcr THEN @ ELSE Append(@, Head(chip.hold))]
    /\ UNCHANGED driver

----------------------------------------------------------------------------
(* The driver.                                                             *)

\* The masks that UartPort::new gives the ports.
mask(ver, port) ==
    CASE port = IER -> IF ver >= V16750 THEN 0 .. 5
                       ELSE (0 .. 5) \ {IER_ENABLE_SLEEP_MODE, IER_ENABLE_LOW_POWER_MODE}
      [] port = FCR -> IF ver >= V16550A THEN {0, 1, 2, 5, 6, 7} ELSE {}
      [] port = MCR -> IF ver >= V16750 THEN 0 .. 5 ELSE (0 .. 5) \ {MCR_AUTOFLOW_CONTROL_ENABLED}
      [] OTHER -> Byte

\* A write to the chip; touched remembers the reserved bits that it sets, and when.
WriteChip(port, data) ==
    chip' = [out8(chip, port, data) EXCEPT
                !.touched = @ \cup ({driver.phase} \X {port} \X (data \cap Reserved(chip.ver, port)))]

\* IoPort::read and write.
port_read(port) == in8(chip, port) \cap mask(driver.ver, port)
port_write(port, data) == WriteChip(port, data \cap mask(driver.ver, port))

\* Accesses, in the order of the code: Keep reads a port into a local variable,
\* Put writes bits, PutKept what was kept with bits added.
Keep(port) == [op |-> "keep", port |-> port, bits |-> {}]
Put(port, bits) == [op |-> "put", port |-> port, bits |-> bits]
PutKept(port, bits) == [op |-> "put kept", port |-> port, bits |-> bits]
Expect(port, bits) == [op |-> "expect", port |-> port, bits |-> bits]

UART_FREQUENCY == 115200

\* Mutant: the halves of the divisor are swapped.
set_baud_rateSwapped(baud_rate) ==
    LET divisor == Bits((UART_FREQUENCY \div baud_rate) % 2^16)
    IN  << Keep(LCR), PutKept(LCR, {LCR_DIVISOR_LATCH_ACCESS_BIT}),
           Put(DLL, Shr(divisor, 8)), Put(DLH, Low(divisor, 8)),
           PutKept(LCR, {}) >>

set_baud_rate(baud_rate) ==
    LET divisor == Bits((UART_FREQUENCY \div baud_rate) % 2^16)
    IN  << Keep(LCR), PutKept(LCR, {LCR_DIVISOR_LATCH_ACCESS_BIT}),
           Put(DLL, Low(divisor, 8)), Put(DLH, Shr(divisor, 8)),
           PutKept(LCR, {}) >>

reset_to_default ==
    <<Put(IER, {})>> \o set_baud_rate(115200) \o
    << Put(LCR, LCR_WORD_LENGTH_8_BITS \cup LCR_NO_PARITY),
       Put(FCR, {FCR_ENABLE_FIFOS, FCR_CLEAR_RECEIVE_FIFO, FCR_CLEAR_TRANSMIT_FIFO,
                 FCR_ENABLE_64_BYTE_FIFO} \cup FCR_INTERRUPT_TRIGGER_LEVEL_8_32),
       Put(MCR, {MCR_DATA_TERMINAL_READY, MCR_REQUEST_TO_SEND, MCR_AUXILLARY_OUTPUT_1, MCR_AUXILLARY_OUTPUT_2}) >>

\* The byte 0x2B; the code reads it where it is written to and the other way
\* round, which is the same port.
test ==
    << Keep(MCR), PutKept(MCR, {MCR_LOOPBACK_ENABLED}),
       Put(RBR, Bits(43)), Expect(THBR, Bits(43)),
       PutKept(MCR, {}) >>

Program == reset_to_default \o test

\* identify_uart: one step per access.
Phase(p) == driver' = [driver EXCEPT !.phase = p]
Identified(ver) == driver' = [driver EXCEPT !.phase = "program", !.ver = ver]

identify_uart ==
    \/ /\ driver.phase = "fcr"
       /\ WriteChip(FCR, Bits(231))
       /\ Phase("iir")
    \/ /\ driver.phase = "iir"
       /\ LET iir == in8(chip, IIR)
          IN  IF 6 \notin iir THEN Phase("scr")
              ELSE IF 7 \notin iir THEN Identified(V16550)
              ELSE IF 5 \notin iir THEN Identified(V16550A)
              ELSE Identified(V16750)
       /\ UNCHANGED chip
    \/ /\ driver.phase = "scr"
       /\ WriteChip(SCR, Bits(42))
       /\ Phase("scr read")
    \/ /\ driver.phase = "scr read"
       /\ Identified(IF in8(chip, SCR) = Bits(42) THEN V16450 ELSE V8250)
       /\ UNCHANGED chip

\* The next access of reset_to_default or test; test fails if the byte that it
\* reads is another, and then leaves the chip in loopback mode.
Access ==
    LET a == Program[driver.at]
        done == [driver EXCEPT !.at = @ + 1, !.phase = IF driver.at = Len(Program) THEN "ready" ELSE @]
    IN  /\ driver.phase = "program"
        /\ CASE a.op = "keep" ->
                    UNCHANGED chip /\ driver' = [done EXCEPT !.kept = port_read(a.port)]
             [] a.op = "put" ->
                    port_write(a.port, a.bits) /\ driver' = done
             [] a.op = "put kept" ->
                    port_write(a.port, driver.kept \cup a.bits) /\ driver' = done
             [] a.op = "expect" ->
                    /\ chip' = [chip EXCEPT !.recv = IF @ = <<>> THEN @ ELSE Tail(@)]
                    /\ driver' = IF port_read(a.port) = a.bits THEN done ELSE [driver EXCEPT !.phase = "failed"]

\* Mutant: the holding register is not waited for.
write_byteUnchecked(byte) == port_write(THBR, byte) /\ UNCHANGED driver

\* write_byte: the loop goes on while the holding register is in use.
write_byte(byte) ==
    /\ LSR_EMPTY_TRANSMITTER_HOLDING_REGISTER \in port_read(LSR)
    /\ port_write(THBR, byte)
    /\ UNCHANGED driver

UartInit ==
    /\ \E ver \in Versions, f \in Firmware :
        chip = [ver |-> ver, ier |-> f.ier, lcr |-> f.lcr, mcr |-> f.mcr, dll |-> {2, 3}, dlh |-> {}, fcr |-> {},
                scr |-> {}, hold |-> <<>>, recv |-> <<>>, line |-> <<>>, touched |-> {}, firmware |-> f]
    /\ driver = [phase |-> "off", at |-> 1, ver |-> V8250, kept |-> {}]

----------------------------------------------------------------------------
(* Properties.                                                             *)

\* Once UartPort::new has returned Ok the chip is known (a 16550, whose broken
\* FIFO shows in another bit than the one tested, as a 16450, which is driven
\* alike), sends 8 bits without parity at 115200 baud and has left loopback.  It
\* has its interrupts off if the firmware left the divisor latch closed: with the
\* latch open the write that "Disable[s] all interrupts" (uart.rs:476) goes to
\* the divisor, and the firmware's interrupts stay on.
UartConfigured ==
    driver.phase = "ready" =>
        /\ driver.ver = IF chip.ver = V16550 THEN V16450 ELSE chip.ver
        /\ chip.dll = {0} /\ chip.dlh = {} /\ chip.lcr = {0, 1} /\ chip.mcr = {0, 1, 2, 3}
        /\ ~Latched(chip.firmware) => chip.ier = {}

\* UartPort "protects against writing to reserved data on older chips"
\* (uart.rs:62): from when UartPort::new knows the version, no write sets a bit
\* that the chip reserves.  (Before, identify_uart writes 0xE7 to FCR on any chip.)
ReservedMasked == \A write \in chip.touched : write[1] = "fcr"
=============================================================================
