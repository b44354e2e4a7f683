# TLA+ models of the EC firmware

This directory holds TLA+ specifications of the concurrent and stateful
parts of the embedded-controller firmware in `src/`, and the TLC
configurations that check them. Every module is translated from the C
source. `PROJECT.json` lists each definition ("map") with the lines it
models. It also lists every run with its properties, the mutants that
show each property can fail, the findings and the hazards.

## The system and its parts

| Part | Source | Module |
|---|---|---|
| Console line editor, escape sequences, command history, console task | `common/uart_buffering.c`, `common/console.c` | `UartConsole` |
| Transmit buffer and the LM4 UART transmit FIFO | `common/uart_buffering.c` (`__tx_char`, `uart_puts`, `uart_process`), `chip/lm4/uart.c` | `TxBuffer`, refining `UartTx` |
| i8042 host keyboard protocol | `common/keyboard.c`, `include/i8042.h` | `I8042` |
| Scan-code tables and `matrix_callback` | `common/keyboard.c` | `ScanCode` (used by `I8042`) |
| Keyboard matrix scan task and interrupt | `chip/lm4/keyboard_scan.c` | `KeyboardScan` |
| TPS65090 charging task | `common/pmu_tps65090_charger.c` | `PmuCharger` |
| TPS65090 PMU register driver | `common/pmu_tps65090.c` | `Tps65090` (used by `PmuCharger`) |
| Drivers, board tables, panic, DMA, flashing tool | the remaining files | not modelled |

How the parts interact:

- **Receive side.** The UART interrupt runs `uart_process`. It edits the
  current line and echoes straight into the hardware FIFO. On a newline
  it wakes the console task, which takes each completed line with
  `uart_peek` and `uart_gets`.
- **Transmit side.** Every task prints through `uart_puts` or
  `uart_printf` into `tx_buf`. The same `uart_process` moves `tx_buf`
  into the FIFO.
- **Keyboard.** The scan task reports key changes to
  `keyboard_state_changed` in `keyboard.c`. That turns them into scan
  codes for the host. The host's port writes arrive at
  `handle_keyboard_data` and `handle_keyboard_command`.
- **Charger.** The charger task runs on its own. It reads the battery
  and GPIOs and drives the charger enable. Through the PMU driver it
  runs `pmu_init` once at start, and in `ST_CHARGING` it asks
  `pmu_is_charger_alarm`, which reads the PMU's `CG_STATUS1` over I2C.

## Modules

### `UartConsole.tla` (console receive side)

**State.**
- The C statics: `rx_cur_buf`, its head and ptr, `rx_buf`,
  `cmd_history` and its head, tail and ptr, `esc_state` and
  `last_rx_was_cr`.
- The console task's program counter and its event.
- The terminal row and cursor column.

**Actions.**
- One received byte is one action, `Receive(c)`, running the whole of
  `handle_console_char`. Each C function is a function on a record of
  the statics, so calls compose.
- `Peek` and `Gets` are atomic, because the C code disables the UART
  interrupt around them.
- The echo is applied to the terminal. `DisplayInSync` compares the
  terminal with the line.

**Constants.**
- `TypeAhead`: whether the user may type before the prompt returns.
- `MaxOwed`: bounds the lines owed to the task.

### `ConsoleCommand.tla` (command dispatch)

What `handle_command` (`console.c`) does with the line `uart_gets`
copied into `input_buf`, as pure operators:
- **`split_words`** is a recursive function over the bytes: `st[i]` is
  the scan after `i` bytes (argc, the words started, in-word, stopped,
  return value). A word is counted only when whitespace ends it; `#`
  or the terminating NUL stops the scan; a word beyond `max_argc`
  returns `EC_ERROR_OVERFLOW`.
- **`find_command`** collects the table entries the first word is a
  case-insensitive prefix of (`strncasecmp` over `strlen(name)` bytes)
  and returns one only if it is the sole match.
- **`handle_command`** is the command whose handler runs, or
  `NoCommand`. The handlers themselves are not modelled.
- `isspace`, `tolower`, `strlen` (`At`) and `strncasecmp` of `util.c`
  are operators on the model's byte names.

The constant `CommandTable` is the linker's `__cmds` array in order.
`UartConsole` extends this module and checks the dispatch on the line
the console task takes, and on a table of sample lines
(`DispatchLines`).

### `UartTx.tla` and `TxBuffer.tla` (transmit side)

`UartTx` is the abstract promise of the transmit path. Each writer's
accepted characters join one queue and eventually leave in order.

`TxBuffer` is the code:

- **`__tx_char`** is split at its read of `tx_buf_head`, its store and
  its write-back. Another task could only interleave at those points.
- **`uart_puts`** loops, breaks on a refused character, then runs
  `uart_tx_stopped` / `uart_tx_start`.
- **`uart_flush_output`** spins until `tx_buf` is empty or TX has
  stopped, restarts TX if it stopped with data left, then waits for
  the FIFO to drain (`uart_tx_flush`). Without preemption the restart
  branch cannot be reached, because nothing can stop TX while the
  flushing task spins.
- **`uart_process`** runs from the interrupt, or from a task with the
  interrupt disabled. It echoes received characters into the FIFO,
  drains `tx_buf` while the FIFO has room, and stops TX on an empty
  buffer.
- **The LM4 driver's functions** (`uart_tx_stop`, `uart_tx_stopped`,
  `uart_tx_ready`, `uart_rx_available`, `uart_write_char`) are
  operators on the interrupt mask and the FIFO, used by those actions.
- **The LM4 FIFO** sends one character per step. It sets the TX raw
  status only when its level falls through the trigger level. That is
  the hardware quirk the comment in `uart_tx_start` works around.

`Abs == INSTANCE UartTx WITH ...` maps:
- the writers' accepted characters to `written`;
- the FIFO and then `tx_buf` (echo removed) to `pending`;
- the wire to `out`.

`WritesReachWire` is `Abs!Spec`.

Scheduling follows spec section 5: tasks do not preempt each other, so a
call of `uart_puts` is never interleaved with another task's. The
constant `Preemptive` lets a higher-priority task take over anywhere.

### `ScanCode.tla` and `I8042.tla` (host keyboard protocol)

`ScanCode` holds the make-code tables and `matrix_callback`, including
the set-1 break bit and the set-2 `0xF0` prefix.

**`I8042` state.**
- `controller_ram`, `scancode_set`, `keyboard_enabled`, the
  pending-argument state `data_port_state`, the resend cache and the
  typematic values.
- The IRQ enable as called through the hooks.
- The host's own view of whether it owes an argument byte.

**`I8042` actions.**
- `HostData` and `HostCommand`: the two port handlers with every case.
- `KeyStateChanged`: a key event from the scan task.
- The console commands `codeset` and `ctrlram`.

### `KeyboardScan.tla` (matrix scan)

**State.**
- The keys held, the column drive, the GPIO raw interrupt status and
  mask, and the task's message.
- The task's `raw_state`, polling timer and program counter.
- The set of keys reported to `keyboard_state_changed`.

**Actions.** `wait_for_interrupt`, the message wait with
`enter_polling_mode`, one poll (`check_keys_changed` and the timeout),
`matrix_interrupt`, and the user's key changes.

`KeysChangeInWindow` admits or excludes key changes in the window that
the TODO at lines 309-312 names.

### `PmuCharger.tla` (charging task)

Each pass of `pmu_charger_task` runs `calc_next_state`, with every case
and early return:
- `enable_charging`;
- `system_off`, which powers the AP off;
- the waits and `notify_battery_low`, which return states.

Between passes the world changes, one thing at a time: AC, the AP's
power, one battery reading, whether the PMU answers, or the PMU's
`CG_STATUS1`. Within a pass each battery read returns the battery's
value or fails. A read fails always when the device does not answer.
With `I2CFlaky` it may also fail at random. The same holds for the
PMU read inside `pmu_is_charger_alarm`. `Init` runs `pmu_init` on the
power-on registers (zero, except the status), and each of its four
writes lands only if the PMU answers.

### `Tps65090.tla` (PMU register driver)

The PMU's registers are a function from address to byte. Each driver
function is an operator: it takes the register file and the outcome
of each I2C transfer it makes, in order. It returns `ok`, the register
file after the call, and the value produced. Early returns on a failed
read are kept, and so is `pmu_init`'s habit of ignoring each write's
result. C's `&` and `|` are sums of bit products, without recursion.
That lets TLC evaluate the table of setter checks (`Confined`) once.

`pmu_enable_charger` is modelled as written: it returns at once when
the enable bit is already set, and its disabling write masks with
`~CG_CTRL0`, the register address 4, not `~CG_CTRL0_EN`. So
`pmu_enable_charger(0)` never disables a running charger, and when the
charger is already off it clears bit 2 instead. Nothing under `src/`
calls it, and no run slot is left for a violation run. It is therefore
recorded here and left out of `SettersConfined`, not checked as a
finding.

## Runs

| Run | Module / cfg | Checks | Result |
|---|---|---|---|
| `edit` | `MCUartConsole_edit.cfg`: a, b, CR, LF, BS, ^A, ^E, ^K, ^L; line 2, width 5 | `TypeOK`, `DisplayInSyncUntilOverrun` | passes, 135,248 states |
| `esc` | `MCUartConsole_esc.cfg`: a, ESC, [, O, 1, 3, ~, C, D, F; line 1 | `TypeOK`, `DisplayInSyncUntilOverrun` | passes, 34,440 states |
| `hist` | `MCUartConsole_hist.cfg`: a, CR, LF, ^P, ^N; rx_buf 3, line 2, history 3 | `TypeOK`, `BrowseInRange`, `LinesDispatched`, `CommandIsLine`, `DispatchByUniquePrefix` | passes, 14,168 states |
| `lineoverflow` | edit keys | `LineWithinBuffer` | violated |
| `typeahead` | a, LF, with type-ahead | `LinesDispatched` | violated |
| `histspace` | a, LF, ^P, ^N; history 3 | `HistoryIntact` | violated |
| `i8042` | `MCI8042.cfg` | `TypeOK`, `OutputWithinBound`, `IrqFollowsEnirq1`, `KeyEventTranslated` | passes, 76,893 states |
| `i8042_mouse` | `MCI8042_mouse.cfg` | `MouseCommandsLeaveKeyboard` | violated |
| `i8042_hang` | `MCI8042_hang.cfg`, set 3 selectable | `KeyEventsNeverHang` | violated |
| `keyscan` | `MCKeyboardScan.cfg`: 2 rows x 3 columns | `TypeOK`, `SleepsOnlyWhenReleased`, `KeyChangesReported` | passes, 4,483 states |
| `charger` | `MCPmuCharger.cfg` | `TypeOK`, `ChargingImpliesEnabled`, `ChargesWhenPossible`, `AlarmStopsCharging`, `SettersConfined` | passes, 69,120 states |
| `txbuf` | `MCTxBuffer.cfg` | `TypeOK`, `CrBeforeLf`, `WritesReachWire`, `FlushedOutputSent` | passes, 49,343 states |

### What the properties say

**Console.**
- **`DisplayInSyncUntilOverrun`.** The terminal row shows the prompt
  and the line, and the cursor is at `2 + rx_cur_buf_ptr`. This holds
  through every echo path, up to the first dropped byte (see the
  hazards).
- **`BrowseInRange`.** While the user browses, the history pointer
  names a live slot.
- **`HistoryIntact`.** Each slot reads back as the line saved into it.
- **`LineWithinBuffer`.** `rx_cur_buf_head <= RX_LINE_SIZE`.
- **`LinesDispatched`.** Every completed line eventually reaches
  `uart_gets`.
- **`CommandIsLine`.** What `uart_gets` copies into `console.c`'s
  `input_buf` has the same text, up to the newline, as the line the
  console task takes. The copy is bounded by `size - 1` and `input_buf`
  is as long as `rx_cur_buf` (80 bytes each). So a full line loses only
  its newline. A line that has overflowed `rx_cur_buf` is left out,
  because it loses its last character (see finding 1).
- **`DispatchByUniquePrefix`.** A command `handle_command` runs for a
  line is the one the line's first word (before any `#`) names, and the
  word names no other command: an ambiguous abbreviation, or a word
  that prefixes nothing, runs nothing. It is checked on the line in
  `input_buf` whenever the console task holds one, and on 426 sample
  lines over `a`, `B`, space and `#` with table `ab`, `aab`, `ba`
  (65 of them run a command). The sample lines are needed because
  with `RX_LINE_SIZE` 2 every line the hist run reaches loses its
  newline in `uart_gets`, so `split_words` counts no word in it.

**i8042.**
- **`OutputWithinBound`.** Replies fit `resend_command`.
- **`IrqFollowsEnirq1`.** The keyboard IRQ is on exactly when ENIRQ1 is
  set, after any series of writes.
- **`KeyEventTranslated`.** Every key event sends exactly the bytes of
  spec 4.5. The bytes are checked against an arithmetic reference of
  the tables.
- **`MouseCommandsLeaveKeyboard`.** A7 and A8 do not change the
  keyboard enable.
- **`KeyEventsNeverHang`.** No key event stops in the ASSERT loop.

**Keyboard scan.**
- **`SleepsOnlyWhenReleased`.** The task sleeps only after it has
  reported every release.
- **`KeyChangesReported`.** Any change of the keys held is eventually
  reported (a leads-to for each set of keys).

**Charger.**
- **`ChargingImpliesEnabled`.** In `ST_CHARGING` the charger enable is
  on, on every path into it.
- **`ChargesWhenPossible`.** A battery that stays chargeable is
  eventually charged, from any state.
- **`AlarmStopsCharging`.** A charger alarm in `CG_STATUS1` that the
  PMU reports readably ends `ST_CHARGING`. This shows the task and the
  driver together: `pmu_init` leaves the status alone, and
  `pmu_is_charger_alarm` tests the right bits with the right sense of
  the return value. An alarm the task cannot read is ignored, by
  design. `ST_IDLE` does not ask about the alarm, so under a standing
  alarm the task alternates between idle and charging (a hazard).
- **`SettersConfined`.** The term-current and term-voltage setters,
  `pmu_low_current_charging` and `pmu_enable_charger(1)` each change
  only their own field. This holds from the PMU's current registers
  and from sample files (all 0, 90, 165 or 255, or mixed), whichever
  transfer fails. It includes T40, whose register `CG_CTRL5` also
  holds `CG_NOITERM`.

**Transmit buffer.**
- **`WritesReachWire`.** The refinement. Nothing a task was told it
  wrote is lost, overwritten or reordered, and all of it reaches the
  wire.
- **`CrBeforeLf`.** An LF never goes out without the CR before it.
- **`FlushedOutputSent`.** When `uart_flush_output` returns, every
  character the task had been told it wrote is on the wire, in order.

Each property of a passing run has a mutant in `PROJECT.json`: a
plausible slip in the mapped code, such as a dropped guard, an
off-by-one or a missing trigger. TLC finds each of these.

### Findings

1. **Newline past the end of `rx_cur_buf`** (`lineoverflow`,
   `uart_buffering.c:232`). Enter on a full line writes one byte past
   the array.
2. **A typed-ahead line is lost** (`typeahead`, `uart_buffering.c:739`).
   `uart_gets` clears the whole line buffer after copying the first
   line. This contradicts the comment in `console_process`.
3. **Space off by one** (`histspace`, `uart_buffering.c:267`).
   `rx_buf_space_available` reports one byte too many, so
   `history_save` overwrites the oldest kept entry.
4. **Mouse commands change the keyboard** (`i8042_mouse`,
   `keyboard.c:260`). `update_ctl_ram` calls `keyboard_enable` on every
   write of the command byte. A stale `KBD_DIS` bit then disables a
   keyboard that F4 or AE had enabled.
5. **The keyboard scan hangs on a host request** (`i8042_hang`,
   `keyboard.c:220`). F0 03 selects set 3, and the next key stops the
   scan task in the ASSERT loop.

These are recorded as hazards, with the property that states them, but
have no run of their own:
- A byte echoed and then dropped on a full line: `DisplayInSync` fails.
- RESEND does not replay the cache: `ResendReplays`.
- `DEFAULT_TYPEMATIC_VALUE` built with `||`: `TypematicConsistent`
  fails in the initial state.
- The key race in the window the TODO at `keyboard_scan.c:309` names:
  `KeyChangesReported` fails with `KeysChangeInWindow = TRUE`.
- Lost output under task preemption: `WritesKept` fails with
  `Preemptive = TRUE`.

One disagreement with spec section 6 is modelled but has no run of
its own. `split_words` counts a word
only when whitespace ends it. So a word that ends at `#` (`help#x`) is
never counted. The same happens to the last word of a line of exactly
80 bytes: `uart_gets` keeps `size - 1` bytes of the 80-byte
`input_buf`, so that line arrives without its newline.
`CommandIsLine` shows the text itself arrives intact, and
`DispatchByUniquePrefix` shows that a command that does run is the
right one. The converse, that `help#x` runs nothing although spec 6
says it runs `help`, would need a violation run of its own.

Four more disagreements were found while modelling, and have no run:
- **SETREP** (`keyboard.c:370`). F3 is answered with ACK but the
  handler stays in `STATE_NORMAL`, so the host's rate byte is run as a
  command. `HostAndControllerAgree` in `I8042.tla` states the
  agreement; the `i8042` run includes F3 but cannot check it, because
  it fails there.
- **`strtoi` is not `strtol`** (`util.c:99`). The comment says "Like
  strtol()", but `strtoi` never reads octal and takes `0x` before the
  sign: `010` is ten (strtol: eight), `09` is taken whole (strtol stops
  at the 9) and `-0x1` stops at the `x`.
- **`ctrlram -1`** (`keyboard.c:559`). `command_controller_ram` checks
  only `index >= 0x20`, and `strtoi` reads `-1` as -1. So `ctrlram -1` reads `controller_ram[-1]`,
  and `ctrlram -1 5` calls `update_ctl_ram` with the index cast to 255,
  whose `ASSERT(addr < 0x20)` stops the console task.
- **`sb w` with a word outside 16 bits** (`smart_battery.c:218`).
  `command_sb` does not check that `w_word` fits the `uint16_t` of its
  usage text: `sb w 3 -9` and `sb w 3 0x10000` are written, and
  `strtoi` overflows `int` from nine hex digits on.
- **`battery_manufacturer_date`** (`smart_battery.c:102`). It decodes
  the year as `ymd >> 8` and the month as `(ymd & 0xff) / 32`. But its
  own comment encodes `month * 32`, which exceeds `0xff` from August
  on, so those dates decode wrongly. Nothing under `src/` calls it.

## Bounds

The rings are small: `RX_BUF_SIZE` 3 or 4, `RX_LINE_SIZE` 1 to 3,
history 2 or 3, `tx_buf` 4 and FIFO 2. That is enough to reach every
branch: a full line, a newline on a full line, an eviction, wrap-around
of every ring, a refused CR or LF, and a FIFO crossing its trigger. The
C code uses powers of two and masks. `%` gives the same result while the
indices are in range, which `TypeOK` checks.

Other bounds:
- **i8042.** The byte sets include each case of the handlers once.
- **Keyboard scan.** The matrix has 2 rows and 3 columns, enough for
  ghosting in a row. The timeout is 2 polls instead of 100; only the
  reset of the count matters.
- **Charger.** The temperatures are one per range boundary (3, 20, 45,
  65 and 75 °C) and the charges are 5, 50 and 100 %. `CG_STATUS1` is
  0, 2 (an alarm bit) or 4 (another bit). The setters are checked over
  every temperature range, current and voltage, and every pair of
  transfer outcomes.
- **Transmit buffer.** One task prints two lines. Under spec 5
  scheduling, a second task's calls of `uart_puts` run between the
  first task's calls, never inside them. So they add no interleaving
  inside the buffer code.

## Fairness

- **Tasks.** The console task, the scan task, the charger task and the
  printing task have weak fairness: the scheduler runs ready tasks.
- **Interrupts and hardware.** The UART and GPIO interrupts have weak
  fairness: the NVIC takes a pending, enabled interrupt. So does the
  UART's transmit: the FIFO keeps sending.
- **The environment.** Users, hosts, AC and the battery have no
  fairness. The properties hold however they behave.
- **The charger's liveness** assumes reads do not fail at random
  (`I2CFlaky = FALSE`). Otherwise an unlucky read on every pass could
  starve progress.

## Not modelled

- **The command handlers.** What each command does once dispatched is
  not modelled. Neither is
  `uart_vprintf`, whose formatter (`vfnprintf`) is not under `src/`.
- **Console-side modes and flushes.** Non-console mode (`uart_getc`,
  `uart_flush_input`, the raw queue in `insert_char`) is unreachable
  from this repository. `console_init` sets console mode on, and no
  code under `src/` turns it off or calls those functions.
  The emergency print paths are not modelled.
- **The rest of the LM4 UART driver.** `uart_init`'s register setup,
  UART1 and the COMx pass-through, and the STM32L driver (another
  chip's copy of the same interface).
- **Outside `src/`.** The LPC port driver that calls the i8042 handlers,
  and the task scheduler, are not under `src/`. The scheduler is
  modelled from spec section 5.
- **The PMU console command.** `command_pmu` only prints the
  registers.
- **The smart battery and `strtoi`.** `command_sb` and `strtoi` were
  modelled and dropped: the only contracts the repository states for
  them (strtol, and the `uint16_t w_word` of the usage text) fail, as
  listed above, and no run slot is left for a violation run; a
  property fitted to what the code does would show nothing.
  `battery_current`,
  `battery_average_current`, `battery_time_at_rate` and
  `battery_manufacturer_date` wrap `sb_read`/`sb_write`, which are not
  under `src/`; nothing under `src/` calls the last two, and
  `command_battery` only prints.
- **No interesting state.** Register-level drivers, panic dumps, DMA, board tables and
  the host-side tool `util/burn_my_ec.c` are pure I/O or tables.
