------------------------------- MODULE Output -------------------------------
(***************************************************************************)
(* kernel/src/out/mod.rs: processors print texts, each to the serial port  *)
(* (unless another processor is writing there) and then to the terminal.   *)
(* The first print initialises the port; the others wait for it.  A panic  *)
(* in any of this prints too, while its processor holds what it holds.     *)
(***************************************************************************)
EXTENDS Uart, Terminal, FiniteSets

CONSTANTS
    Cpu,
    Texts,       \* what is printed: sequences of the codes of one-byte characters
    PanicText,   \* what the panic handler prints
    MaxPrints    \* bound on the prints of a processor

VARIABLES
    cpu,         \* what each processor does: its place in __print, text, characters written
    com1,        \* the holder of UART_COM1's mutex, or nobody
    term1,       \* the holder of TERM1's mutex, or nobody
    term,        \* what that mutex protects
    lined,       \* texts in the order in which they got com1
    shown        \* texts in the order in which they got term1

outputVars == <<chip, driver, cpu, com1, term1, term, lined, shown>>

nobody == 0

GoesTo(c, place) == cpu' = [cpu EXCEPT ![c] = [@ EXCEPT !.at = place, !.written = 0]]
Wrote(c) == cpu' = [cpu EXCEPT ![c] = [@ EXCEPT !.written = @ + 1]]
Panics(c) == cpu' = [cpu EXCEPT ![c] = [@ EXCEPT !.at = "lazy", !.text = PanicText, !.written = 0, !.panicked = TRUE]]
Finished(c) == cpu[c].written = Len(cpu[c].text)
Character(c) == cpu[c].text[cpu[c].written + 1]

\* print! and println!
print(c) ==
    /\ cpu[c].at = "idle" /\ cpu[c].prints < MaxPrints
    /\ \E text \in Texts :
        cpu' = [cpu EXCEPT ![c] = [@ EXCEPT !.at = "lazy", !.text = text, !.written = 0, !.prints = @ + 1]]
    /\ UNCHANGED <<chip, driver, com1, term1, term, lined, shown>>

\* The Lazy of UART_COM1: the first processor runs UartPort::new.
lazy(c) ==
    /\ cpu[c].at = "lazy" /\ driver.phase = "off"
    /\ Phase("fcr")
    /\ GoesTo(c, "new")
    /\ UNCHANGED <<chip, com1, term1, term, lined, shown>>

new_port(c) ==
    /\ cpu[c].at = "new"
    /\ identify_uart \/ Access
    /\ UNCHANGED <<cpu, com1, term1, term, lined, shown>>

\* The initialiser returns, or expect panics in it and leaves the Lazy waiting.
new_returns(c) ==
    /\ cpu[c].at = "new"
    /\ \/ driver.phase = "ready" /\ GoesTo(c, "lazy")
       \/ driver.phase = "failed" /\ Panics(c)
    /\ UNCHANGED <<chip, driver, com1, term1, term, lined, shown>>

try_lock(c) ==
    /\ cpu[c].at = "lazy" /\ driver.phase = "ready" /\ \A d \in Cpu : cpu[d].at # "new"
    /\ IF com1 = nobody
       THEN com1' = c /\ GoesTo(c, "serial") /\ lined' = Append(lined, cpu[c].text)
       ELSE GoesTo(c, "terminal") /\ UNCHANGED <<com1, lined>>
    /\ UNCHANGED <<chip, driver, term1, term, shown>>

uart_write_str(c) ==
    /\ cpu[c].at = "serial"
    /\ IF Finished(c)
       THEN com1' = nobody /\ GoesTo(c, "terminal") /\ UNCHANGED <<chip, driver>>
       ELSE write_byte(Bits(Character(c))) /\ Wrote(c) /\ UNCHANGED com1
    /\ UNCHANGED <<term1, term, lined, shown>>

\* A processor that panicked while it held the mutex waits here for ever.
lock_term1(c) ==
    /\ cpu[c].at = "terminal" /\ term1 = nobody
    /\ term1' = c /\ GoesTo(c, "screen") /\ shown' = Append(shown, cpu[c].text)
    /\ UNCHANGED <<chip, driver, com1, term, lined>>

term_write_str(c) ==
    /\ cpu[c].at = "screen" /\ ~Finished(c)
    /\ LET ch == Drawable(Character(c))
       IN  IF write_char_panics(ch) THEN term' = wrap(term) /\ Panics(c)
           ELSE term' = write_char(term, ch) /\ Wrote(c)
    /\ UNCHANGED <<chip, driver, com1, term1, lined, shown>>

\* Mutant: the guard of TERM1 is not dropped.
term_returnsLocked(c) ==
    /\ cpu[c].at = "screen" /\ Finished(c)
    /\ GoesTo(c, "idle")
    /\ UNCHANGED <<chip, driver, com1, term1, term, lined, shown>>

\* __print returns; the guard is dropped.
term_returns(c) ==
    /\ cpu[c].at = "screen" /\ Finished(c)
    /\ term1' = nobody /\ GoesTo(c, "idle")
    /\ UNCHANGED <<chip, driver, com1, term, lined, shown>>

OutputStep(c) ==
    \/ lazy(c) \/ new_port(c) \/ new_returns(c) \/ try_lock(c) \/ uart_write_str(c)
    \/ lock_term1(c) \/ term_write_str(c) \/ term_returns(c)

OutputInit ==
    /\ UartInit
    /\ cpu = [c \in Cpu |-> [at |-> "idle", text |-> <<>>, written |-> 0, prints |-> 0, panicked |-> FALSE]]
    /\ com1 = nobody /\ term1 = nobody /\ term = TermInit /\ lined = <<>> /\ shown = <<>>

OutputAbsent ==
    /\ chip = [hold |-> <<>>] /\ driver = [phase |-> "absent"] /\ cpu = [c \in Cpu |-> [at |-> "idle", panicked |-> FALSE]]
    /\ com1 = nobody /\ term1 = nobody /\ term = TermInit /\ lined = <<>> /\ shown = <<>>

\* Everything is printed, or waits for what a processor that panicked holds.
Quiet ==
    /\ (\A c \in Cpu : cpu[c].at = "idle") \/ (\E c \in Cpu : cpu[c].panicked)
    /\ UNCHANGED outputVars

OutputNext ==
    \/ \E c \in Cpu : print(c) \/ OutputStep(c)
    \/ Transmit /\ UNCHANGED <<cpu, com1, term1, term, lined, shown>>
    \/ Quiet

\* The processors and the chip go on; nobody has to print.
OutputFairness ==
    /\ \A c \in Cpu : WF_outputVars(OutputStep(c))
    /\ WF_outputVars(Transmit /\ UNCHANGED <<cpu, com1, term1, term, lined, shown>>)

OutputSpec == OutputInit /\ [][OutputNext]_outputVars /\ OutputFairness

----------------------------------------------------------------------------
(* Properties.                                                             *)

\* What of a mutex's texts is written: all, but for the rest of the last one
\* while the mutex is held.
Written(texts, holder) ==
    IF holder = nobody THEN FlattenSeq(texts)
    ELSE FlattenSeq(Front(texts)) \o SubSeq(Last(texts), 1, cpu[holder].written)

\* Texts reach the serial line whole and in the order of the lock: no byte is
\* lost in the chip, repeated, or mixed with the text of another processor, and
\* nothing of the chip's test gets out.
LineGetsTexts ==
    LET sent == Written(lined, com1)
    IN  driver.phase = "ready" => chip.line \o chip.hold = [i \in DOMAIN sent |-> Bits(sent[i])]

\* The screen shows the last lines of all texts in the order of the lock, broken
\* at the last whole column, with the glyph of every character in its place and
\* nothing left of what scrolled away, whatever the sizes leave over (until a
\* processor panics).
ScreenShowsTexts ==
    LET text == Written(shown, term1)
    IN  (\A c \in Cpu : ~cpu[c].panicked) =>
          \E lines \in {Lines([i \in DOMAIN text |-> Drawable(text[i])])} : term.buffer = Picture(lines)

\* Every print ends, whoever holds which mutex, unless the chip fails its test or
\* the terminal panics.
PrintsEnd ==
    \A c \in Cpu : cpu[c].at # "idle" ~> (cpu[c].at = "idle" \/ \E d \in Cpu : cpu[d].panicked)
=============================================================================
