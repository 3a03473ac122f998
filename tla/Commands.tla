------------------------------ MODULE Commands ------------------------------
(***************************************************************************)
(* What the shell does with a line: parse and dispatch of shell/shell.c,   *)
(* and the commands that work on numbers: memtest, hexdump                 *)
(* (shell/commands_mem.c), uptime and sleep (shell/commands_proc.c), the   *)
(* last one polling the tick counter of kernel/pit.c between interrupts.   *)
(* One character stands for a command's name.                              *)
(***************************************************************************)
EXTENDS Strtoul

CONSTANTS
  Lines,                 \* the lines typed
  ARGV_MAX,
  MEMTEST_MAX_FRAMES,
  IDENTITY_MAPPED_BYTES,
  DUMP_MAX,              \* the 512 of cmd_hexdump
  HZ,                    \* ticks per second
  Clocks,                \* values of tick_count when a command first reads it
  MaxGap                 \* bound: ticks the shell may miss while other processes run

Space == 18
Tab == 19
Blanks == {Space, Tab}
Names == [memtest |-> 20, hexdump |-> 21, uptime |-> 22, sleep |-> 23]

ASSUME CommandsAssumption ==
  /\ ARGV_MAX \in Nat \ {0} /\ HZ \in Nat \ {0} /\ MaxGap \in Nat \ {0}
  /\ Clocks \subseteq 0..UMAX
  /\ MEMTEST_MAX_FRAMES <= IMAX /\ DUMP_MAX <= IDENTITY_MAPPED_BYTES
  /\ IDENTITY_MAPPED_BYTES <= UMAX

VARIABLES
  cmd,                   \* the command that runs; "done", "prompt" between two
  line, argv,            \* what was typed, and the arguments parse found
  out,                   \* the numbers the last command printed
  dump,                  \* the addresses hexdump read, in order
  tick_count, start, ticks,
  gap,                   \* ticks since the shell last looked
  elapsed                \* history: ticks since sleep started, up to WORD + MaxGap + 1

text == <<line, argv, out, dump>>
sleep == <<start, ticks, gap, elapsed>>
vars == <<cmd, text, tick_count, sleep>>

Init ==
  /\ cmd = "prompt"
  /\ line = <<>> /\ argv = <<>> /\ out = <<>> /\ dump = <<>>
  /\ tick_count = 0 /\ start = 0 /\ ticks = 0 /\ gap = 0 /\ elapsed = 0

----------------------------------------------------------------------------
(* parse and dispatch *)

\* The first position at or after p that is no blank, or the terminator.
SkipBlanks(l, p) == Min({k \in p..Len(l) : l[k] \notin Blanks} \cup {Len(l) + 1})

\* The first blank at or after p, or the terminator.
SkipWord(l, p) == Min({k \in p..Len(l) : l[k] \in Blanks} \cup {Len(l) + 1})

RECURSIVE ParseFrom(_, _, _), ParseFrom_OneTooMany(_, _, _)

\* Fault: one argument more than argv has room for.
ParseFrom_OneTooMany(l, p, args) ==
  LET from == SkipBlanks(l, p)
      to == SkipWord(l, from)
  IN  IF from > Len(l) \/ Len(args) > ARGV_MAX
      THEN args ELSE ParseFrom_OneTooMany(l, to + 1, Append(args, SubSeq(l, from, to - 1)))

\* parse's loop at position p: the blank after an argument becomes its terminator.
ParseFrom(l, p, args) ==
  LET from == SkipBlanks(l, p)
      to == SkipWord(l, from)
  IN  IF from > Len(l) \/ Len(args) >= ARGV_MAX
      THEN args ELSE ParseFrom(l, to + 1, Append(args, SubSeq(l, from, to - 1)))

Parse(l) == ParseFrom(l, 1, <<>>)

Dispatch(l) ==
  /\ cmd = "prompt"
  /\ line' = l
  /\ argv' = Parse(l)
  /\ cmd' = IF \E c \in DOMAIN Names : argv' # <<>> /\ argv'[1] = <<Names[c]>>
            THEN CHOOSE c \in DOMAIN Names : argv'[1] = <<Names[c]>>
            ELSE "done"
  /\ UNCHANGED <<out, dump, tick_count, sleep>>

\* buf_len = 0 and print_prompt.
Prompt ==
  /\ cmd = "done"
  /\ cmd' = "prompt"
  /\ line' = <<>> /\ argv' = <<>> /\ out' = <<>> /\ dump' = <<>>
  /\ UNCHANGED <<tick_count, sleep>>

----------------------------------------------------------------------------
(* The commands *)

Argc == Len(argv)
Decimal(n) == [text |-> Kprint_int(Signed(n)), base |-> 10, value |-> n]
Hex(n) == [text |-> Kprint_hex(n), base |-> 16, value |-> n]

Prints(numbers) ==
  /\ out' = numbers
  /\ cmd' = "done"
  /\ UNCHANGED <<line, argv>>

\* The frames come from the allocator, which may run out.
CmdMemtest ==
  LET n == IF Argc >= 2 THEN Strtoul(argv[2], 10) ELSE 8
  IN  /\ cmd = "memtest"
      /\ IF n = 0 \/ n > MEMTEST_MAX_FRAMES
         THEN Prints(<<>>)
         ELSE \E got \in 0..n : Prints(<<Decimal(n), Decimal(got)>>)
      /\ UNCHANGED <<dump, tick_count, sleep>>

\* Fault: the end of the range is computed, and wraps.
Outside_SumWraps(addr, len) == (addr + len) % WORD > IDENTITY_MAPPED_BYTES

\* The range check of cmd_hexdump.
Outside(addr, len) ==
  addr > IDENTITY_MAPPED_BYTES \/ len > (IDENTITY_MAPPED_BYTES - addr) % WORD

\* The bytes of the row at offset.
DumpRow(addr, len, offset) ==
  [i \in 1..Min({16, len - offset}) |-> (addr + offset + i - 1) % WORD]

CmdHexdump ==
  LET addr == Strtoul(argv[2], 16)
      len == Strtoul(argv[3], 10)
      offsets == [r \in 1..((len + 15) \div 16) |-> 16 * (r - 1)]
  IN  /\ cmd = "hexdump"
      /\ IF Argc < 3 \/ (Outside(addr, len) \/ len = 0 \/ len > DUMP_MAX)
         THEN Prints(<<>>) /\ UNCHANGED dump
         ELSE /\ dump' = FoldLeft(LAMBDA acc, o : acc \o DumpRow(addr, len, o), <<>>, offsets)
              /\ Prints([r \in DOMAIN offsets |-> Hex((addr + offsets[r]) % WORD)])
      /\ UNCHANGED <<tick_count, sleep>>

CmdUptime(now) ==
  /\ cmd = "uptime"
  /\ Prints(<<Decimal(now \div HZ), Decimal(now)>>)
  /\ UNCHANGED <<dump, tick_count, sleep>>

\* cmd_sleep takes the number and reads the clock; its argument is dead then.
CmdSleep(now) ==
  /\ cmd = "sleep"
  /\ IF Argc < 2
     THEN Prints(<<>>) /\ UNCHANGED <<tick_count, start, ticks>>
     ELSE /\ ticks' = Strtoul(argv[2], 10)
          /\ tick_count' = now /\ start' = now
          /\ cmd' = "sleeping"
          /\ line' = <<>> /\ argv' = <<>>
          /\ UNCHANGED out
  /\ UNCHANGED <<dump, gap, elapsed>>

\* pit_handler; the clock is of no interest to the other commands.
Tick ==
  /\ cmd = "sleeping" /\ gap < MaxGap
  /\ tick_count' = (tick_count + 1) % WORD
  /\ gap' = gap + 1
  /\ elapsed' = IF elapsed <= WORD + MaxGap THEN elapsed + 1 ELSE elapsed
  /\ UNCHANGED <<cmd, text, start, ticks>>

\* Faults: compare with the end of the sleep, unwrapped or wrapped, instead of
\* the time passed.
Remaining_EndUnwrapped == tick_count < start + ticks
Remaining_EndWrapped == tick_count < (start + ticks) % WORD

Remaining == (tick_count - start) % WORD < ticks

KeepWaiting ==
  /\ cmd = "sleeping" /\ Remaining
  /\ gap' = 0
  /\ UNCHANGED <<cmd, text, tick_count, start, ticks, elapsed>>

\* The clock and the history are dead until the next sleep.
WakeUp ==
  /\ cmd = "sleeping" /\ ~Remaining
  /\ Prints(<<Decimal(ticks)>>)
  /\ tick_count' = 0 /\ start' = 0 /\ ticks' = 0 /\ gap' = 0 /\ elapsed' = 0
  /\ UNCHANGED dump

Next ==
  \/ \E l \in Lines : Dispatch(l)
  \/ Prompt
  \/ CmdMemtest \/ CmdHexdump
  \/ \E now \in Clocks : CmdUptime(now) \/ CmdSleep(now)
  \/ Tick \/ KeepWaiting \/ WakeUp

\* The clock ticks and the shell is scheduled.
Spec == Init /\ [][Next]_vars /\ WF_vars(Tick) /\ WF_vars(KeepWaiting) /\ WF_vars(WakeUp)

----------------------------------------------------------------------------
(* Properties *)

\* The maximal runs of characters that are no blanks, in order.
Tokens(l) ==
  LET starts == {k \in DOMAIN l : l[k] \notin Blanks /\ (k = 1 \/ l[k - 1] \in Blanks)}
      EndOf(k) == Max({m \in k..Len(l) : \A j \in k..m : l[j] \notin Blanks})
  IN  [n \in 1..Cardinality(starts) |->
         LET k == CHOOSE j \in starts : Cardinality({i \in starts : i < j}) = n - 1
         IN  SubSeq(l, k, EndOf(k))]

\* parse hands a command the words of the line, whole and in order, up to the
\* size of its argv.
ParseSplits ==
  argv = SubSeq(Tokens(line), 1, Min({ARGV_MAX, Len(Tokens(line))}))

\* sh_util.h:7-10, for arguments that have no letter among decimal digits: the
\* result is the exact value of the numeral, or UMAX as soon as that does not
\* fit, and no later digit makes it small again.
ParsesExactly ==
  \A k \in 2..Argc, b \in {10, 16} :
    (\A i \in DOMAIN argv[k] : argv[k][i] \in Digit => argv[k][i] < b)
      => Strtoul(argv[k], b) = Saturated(ValueOf(Numeral(argv[k], b), b))

\* A number the shell prints can be typed back: sh_strtoul reads what
\* kprint_hex and, up to INT32_MAX, kprint_int wrote as the same number.
ReadBack ==
  \A k \in DOMAIN out :
    out[k].base = 16 \/ out[k].value <= IMAX
      => Strtoul(out[k].text, out[k].base) = out[k].value

\* hexdump reads the bytes that were asked for, each once and in order, and none
\* outside the identity mapping, however large its arguments are.
DumpExact ==
  dump # <<>> =>
    /\ Len(dump) = ValueOf(Numeral(argv[3], 10), 10)
    /\ \A k \in DOMAIN dump :
         /\ dump[k] = ValueOf(Numeral(argv[2], 16), 16) + k - 1
         /\ dump[k] < IDENTITY_MAPPED_BYTES

\* The shell cannot miss the only ticks at which the loop would end.
Catchable == ticks + MaxGap <= WORD

\* sleep never returns early, and oversleeps by no more than the time the
\* shell was not running, also across a wrap of tick_count; arguments within
\* MaxGap of UMAX, saturated ones among them, may sleep longer.
SleepsLongEnough ==
  [][WakeUp => elapsed >= ticks /\ (Catchable => elapsed <= ticks + MaxGap)]_vars

\* Every sleep that can be caught ends.
SleepEnds == cmd = "sleeping" /\ Catchable ~> cmd # "sleeping"
=============================================================================
