# Verification of lux-web-viewer

TLA+ modules, TLC configurations and TLAPS proofs for lux-web-viewer, the
program that watches a LuxPower inverter through its dongle, announces grid
outages, runs automation triggers and serves a web page with the inverter's
settings.  Paths below are relative to the repository (`src/`).

1. [The system](#1-the-system)
2. [Modules and how they correspond to the code](#2-modules)
3. [Runs: what is checked and what it shows](#3-runs)
4. [Bounds](#4-bounds) and [fairness](#5-fairness)
5. [Proofs](#6-proofs)
6. [Disagreements found](#7-disagreements-found)
7. [What is not modelled](#8-what-is-not-modelled)
8. [Plan](#9-plan)

To run it, in this directory:

    tlc -config DongleOne.cfg MCDongleServer      # any pair of section 3
    tlapm GridStatus_proofs.tla                   # any *_proofs module

## 1. The system

One Python process has a main event loop (`app.py`), a web server with an event
loop and a thread of its own (`web_viewer/`), worker threads for blocking I/O,
and short-lived threads for push messages and audio.  State that outlives the
process is a SQLite database and three small files.

| component | state | operations | talks to |
|---|---|---|---|
| Dongle TCP server, `dongle_server.py` (SERVER mode) | Modbus queue `__modbus_pending`, wake event, cached telemetry, counters; a read buffer and a poll plan per connection | `__handle_client` (one task per connection), `request_modbus`, `wait_for_data` | dongle (TCP), Modbus controller (`run_coroutine_threadsafe`), main loop (event) |
| Modbus controller, `modbus_controller.py` | range cache with a TTL | `read_items`, `write_item`, cache get/put/update | dongle server, or a socket of its own in DONGLE mode |
| Register catalogue and codecs, `modbus_registers.py`, `modbus_service.py` | none | encode, extract, `merge_raw`, build and parse frames | |
| Dongle client, `dongle_handler.py` (DONGLE mode) | cached telemetry | `get_dongle_input`, the ReadInput parsers | dongle (TCP) |
| HTTP client, `http_handler.py` (HTTP mode) | session cookie | login, `get_run_time_data` | vendor's cloud |
| Main loops and grid status, `app.py` | state file, history file, two counters | `handle_grid_status`, the off-grid warning, the battery notice, abnormal usage | settings, FCM, audio, triggers, charts, web socket |
| Settings, `settings.py`, `web_viewer/settings_routes.py` | a dictionary and a table | load, save, read, post | every component that reads a setting |
| Push notifications, `fcm.py`, `api_storage.py` | token file, `__fcm_threads`, `notification_history` | five notifications, registration, prune | FCM (HTTP), web socket |
| Trigger engine, `trigger_engine/` | triggers, `last_triggered_at`, history, evaluation lock | evaluation round (worker thread), manual test (web thread), CRUD | Tuya, FCM, audio |
| Tuya devices, `tuya_manager.py` | devices, scan cache | status, control, scan, address healing | devices (LAN) |
| Audio, `play_audio.py` | one thread per sound; the last one is kept by `app.py` and, separately, by the trigger engine | start, stop | Chromecast |
| Charts, `database.py`, `web_viewer/charts.py` | two tables | upsert, queries | |
| Migration, `migration.py` | the schema and the table of applied statements | `run_migration` | every user of the database |
| Live updates, `web_viewer/streaming.py`, `web_socket_client.py` | SSE clients, last sample | broadcast | main loop, browsers |
| Access control, `web_viewer/security.py` | certificates | address checks | |
| Front end, `web_viewer/fe_src` | forms | REST and SSE calls | web server |

What is hard, and what correctness means there:

- **Queue and connections.** Requests come from another event loop, time out,
  are retried and cancelled while up to two handlers (a dongle that reconnects)
  send from one queue and telemetry comes in between. *Correct:* a write is sent
  at most once, a read at most twice; the queue and the calls agree; a request
  never waits for a polling sleep because its wake-up was lost; polling goes on.
- **Cache and read-modify-write.** Calls interleave at their awaits. *Correct:*
  a cached payload shows what was written; the bits of other items stay.
- **Migration.** DDL is durable at once, rows only with the commit; versions
  change between starts. *Correct:* no cut-off point makes a later start skip,
  or fail at, a statement.
- **Grid status.** Three files are written one after another, each in two steps,
  with notifications in between that may raise. *Correct:* history, state file
  and announcements tell the same story; warnings and notices are spaced.
- **Token file.** Written by the web server's thread and by background threads,
  from lists loaded earlier. *Correct:* no duplicates, no lost token.
- **Triggers.** A round works from a copy of the rows, while the web server edits,
  deletes and tests them; the stamp follows the actions. *Correct:* firings are a
  cooldown apart, are remembered, and stop when a trigger is switched off.
- **Register items.** Up to five of them share a register, some ask for a
  confirmation. *Correct:* an item shows what was written to it and no write changes
  another one; a page takes few requests and no register is read at a wrong offset.
- **Transport of DONGLE mode.** A connection for each attempt, on which the dongle
  also sends what was meant for others. *Correct:* a write goes out once, an answer
  is fresh, no reply is passed over, the lock comes back.
- **Smart devices.** They change their address; several threads notice at once and
  scan. *Correct:* one scan serves all, edits stay, the addresses settle.

`PROJECT.json` lists these hazards line by line, with the properties that cover
each one or the reason why none does yet.

## 2. Modules

| module | models | extends / instantiates |
|---|---|---|
| `ModbusExchange` | abstract: what `request_modbus` promises its callers | |
| `DongleServer` | `dongle_server.py`: queue, handlers, callers, dongle | `ModbusExchange` (refinement mapping) |
| `MCDongleServer` | instances | `DongleServer` |
| `DongleServer_proofs` | proofs | `DongleServer` |
| `ModbusController`, `MCModbusController`, `ModbusController_proofs` | `modbus_controller.py`, SERVER mode; the proofs about `RegisterCatalogue` are in the last one too | |
| `MigrationRunner`, `MCMigrationRunner`, `MigrationRunner_proofs` | `migration.py`, SQLite | |
| `GridStatus`, `GridStatus_proofs` | `handle_grid_status` of `app.py`, one setting | |
| `FcmDevices`, `FcmDevices_proofs` | `fcm.py` and `api_storage.py`: the token file | |
| `TriggerEngine`, `MCTriggerEngine`, `TriggerEngine_proofs` | `trigger_engine/`, `trigger_routes.py` | |
| `RegisterCatalogue` | codecs of `modbus_registers.py`, the ranges of `read_items`, for any items | |
| `ModbusRegisters` | the table of `modbus_registers.py` | |
| `MCRegisterCatalogue` | instance | `RegisterCatalogue` with the items of `ModbusRegisters` |
| `ModbusFrames` | `modbus_service.py`: frames as bytes | |
| `DirectExchange`, `MCDirectExchange`, `DirectExchange_proofs` | the transport of DONGLE mode in `modbus_controller.py` | `ModbusFrames` |
| `TuyaDevices`, `MCTuyaDevices`, `TuyaDevices_proofs` | `tuya_manager.py` | |

A definition whose comment starts with "Fault:" is a variant of the one after it
with a plausible bug; no specification uses it.  Each property of a run was seen
to fail with one of them in place of the real definition.

### DongleServer

`pending`, `sent`, `future`, `wake`, `cached` are `__modbus_pending`, the
`sent` flag and the future of each entry, `__modbus_wake` and the source of
`__cached_data`.  `caller` is where each `request_modbus` is: `wait1`, `wait2`
(after the retry), or how it ended.  A handler's `pc` names the next stretch of
code between two awaits:

| `pc` | code |
|---|---|
| `greet`, `poll`, `sendTop`, `sendBack` | awaiting `__write_dongle_command` |
| `top` | the head of the loop (402-417) |
| `enter`, `arm`, `read` | `__read_with_wake`: before the await, the task `wake_task` not yet started, waiting |
| `handle` | a frame: `__resolve_modbus`, else `__parse_inverter_data` |
| `replied`, `after` | what follows a Modbus reply; telemetry or a timeout |
| `snooze`, `sleep` | `__interruptible_sleep` |

One event loop runs it all: while a handler is between awaits (`Running`) no
other task takes a step (`Quiet`).  Points that are easy to get wrong:

- The image runs Python 3.13 (`docker/Dockerfile:12`): `wait_for` awaits
  `Event.wait()` in the same task, so a sleeping handler waits from the turn in
  which it cleared the event.  `wake_task` of `__read_with_wake` is a task and
  starts a turn later: the action `Arm`.
- The timer of `wait_for` may win against a future that was just resolved
  (`Retry`, `GiveUp` do not look at `future`).
- The `except CancelledError` clause covers the first wait only; a call cancelled
  in the second one leaves its entry behind (`Cancel`).
- A caller that gives up while its frame waits for the command gap does not stop
  the frame: `Sent` still happens.
- `Matches` compares function and register and not `sent`, and `Taken` looks at
  the register and the length and not at the function code, as the code does.
- `Matches` does not look at bit 0x80 of the function either (`fn & 0x7F`, 170): a
  refusal that carries the register takes the first entry of its key off the queue
  and resolves its future with the raw frame, as an answer does.  Only the caller
  tells them apart, in `validated_subject` (`Outcome`): an answered call ends `ok`,
  a refused one `refused`, the `ModbusExceptionResponse` of the code.

The dongle is external: it services one command at a time, drops one that
arrives meanwhile (comment at 28-32), loses commands and replies, executes
without replying, refuses (`Refuse`), and answers late.  A partial frame counts as
lost, and so do a refusal too short to name its register (`response_register`
raises, nothing is resolved or merged, the call times out) and the refusal of a
poll, which matches no entry and carries no block.  Both
serial numbers are taken to be configured.

### ModbusExchange

No queue, no connection: a call begins, its frame goes out at most `MaxWires`
times, also after the call has ended, and it is answered or refused only when a
frame of its function and register has gone out.  `DongleServer` implements it with
`phase` read off `caller`.  It does not promise that one exchange is in flight at
a time, which the docstring of `request_modbus` says: the loop top (410) sends a
request while another waits for its reply.

### ModbusController

`dev` is the inverter, `cache` is `_read_cache`, `stage` the await a call is at.
A register is a function from fields to bits, so that items that share a register
can be told apart; ranges, blocks and what the device returns for each range are
constants.  `Execute` is the inverter; `replies` keeps its order, as one
connection does.  `Fetched` caches the payload whatever happened since it was
sent; `Patched` is `_update_register_cache` with its case of a payload that is
too short; `Fail` is a timeout, after which the inverter may still execute the
write (`LateExecute`).  A cache hit of a read changes nothing and is no step.  No lock spans
the await of a read-modify-write, and the calls of the model write any item, those of
one register included; two histories record where the code gives way: `missed`, the
registers that a verified write left old in payloads under other keys (`hybrid`, on a
register that the coalesced ranges hold too), and `crossed`, the masked writes whose
register another call wrote after the value they start from was read.

### MigrationRunner

`disk` is the file, `view` what the connection sees, `open` an open transaction.
In Python's default mode, INSERT and UPDATE open a transaction and CREATE and
ALTER do not: a DDL statement is durable at once when no transaction is open and
part of the transaction otherwise.  A statement is its effect: a table or column
is there, or the rows of the old form are rewritten.  `version` is the length of
the list of the program that starts, which only grows; `WriteLegacy` is an older
version writing rows that a later rewrite is for.  `MCMigrationRunner` gives the
17 statements as they are.

### GridStatus

`pc` is the next write or check of the handler: `history`, `state`, `notify`,
`warn`, `battery`, `save`.  A crash at `history` or `state` may leave the file
empty, for `open(..., 'w')` empties it before the contents are flushed; an empty
state file reads as "not connected", an empty history file raises.  `NotifyFails`
is an exception of `load_device_tokens`, which the main loop catches, so that the
rest of the handler is skipped.  `noted` is `LAST_BATTERY_FULL_NOTIFY_DATE` in
memory and on disk; settings are loaded at a start only with `RUN_WEB_VIEWER`
(`LoadsSettings`).  Its save may fail after the notice was sent (`SaveFails`: the
database is locked, or none is configured), and the main loop goes on.  `OpenPage` and `SavePage` are the settings page, which posts
back all it was given.  `told`, `lost`, `cut`, `quiet`, `calm`, `notice` are
history variables of the properties.  Both warnings are taken to be enabled, the
evaluation of triggers at the end of the handler is not part of it.

### FcmDevices

Writer 0 is the registration, the others are notifications, each with its own
copy of the list of tokens.  Two threads call into `FCM`: the main loop (or the
trigger worker it awaits) and the web server, which runs manual tests of triggers
and is also the one that registers (`Busy`).  `shared` is `__fcm_threads`, which a
notification replaces (`Reset`), fills (`Send`) and copies (`Spawn`).  The answer
of FCM is drawn when a sending thread starts, since `join` only waits for it.
`Truncate` and `Write` are the two halves of `save_device_tokens`; when another
writer has written in between, a longer list sticks out behind the shorter one
(tokens of one length) and the file is no JSON any more.

### TriggerEngine

`row`, `cool`, `last` and `history` are the two tables, `worker` is the round
(`scan`: at the next row; `act`: the actions run; `stamp`: the history is written,
`last_triggered_at` is not), `read` the copy of the rows that it works from, `tester`
a manual test.  The main loop awaits each round, so that there is one at a time
(`_eval_lock` never finds another one).  `test_trigger_route` runs its actions in the
web server's thread without an await: edits wait for it (`tester.pc = "idle"`), the
worker does not.  Time is in ticks; a stamp is cut to its second (`Stored`), as
`format_datetime` does, and the round compares it with an uncut `now`.  Whether the
conditions are met is open at each evaluation (`PassOver` is always possible);
`Abort` is an exception at any point, `Crash` the end of the process.  `fired`,
`forgotten` and `late` are history variables.

### RegisterCatalogue and ModbusRegisters

`RegisterCatalogue` is for any items: an item has a register, the bit its field begins
at (as a value, `unit`), the number of values of the field (`size`), a kind, bounds and
options; display values are integers (tenths of a number, minutes of a time).  `Write`
is `write_item` with its refusals, `Read` is `read_items` with `_coalesce_ranges` as a
recursive function over the blocks (`Joined`): step n looks at block n - 1, which is
what the loop over the sorted set of blocks does.  `CatalogueAssumption` is what the
table has to be for the rest to hold: fields are long enough for their values and
within the word, numbers and times have a register of their own, and two fields of one
register are apart.  `ModbusRegisters` is the whole table of `_ITEMS`, and TLC evaluates
the assumption on it.  Interleavings, caches and echoes are left to `ModbusController`.

### ModbusFrames and DirectExchange

`ModbusFrames` builds and reads frames byte by byte, with the CRC; `xor` is a
recursive function on numbers, so that it can be reasoned about.  `DirectExchange`
is `_blocking_execute_raw`: `pc` is where a caller's thread is (`queued` for the lock,
`connecting`, `reading`), `attempt`, `left`, `data` are its locals, `sock` the open
connection: the frames that the dongle has written to it with the place where each
ends, their bytes, and how many of them were received.  `Table` gives back the function
it is given; TLC then evaluates the frames' bytes once.  `Sift` is the loop that cuts
frames; `Recv` returns at most `size` bytes, so that a frame is split and joined with the
next.  A read asks for any of `Counts` registers (the program asks for 40, 80 or 120), a
reply carries the values of all of them, and `RegistersOf` reads them each at its offset,
as `read_items` does.  Points of the code that the model shows:

- A failing `connect` is outside of the `try`: it ends the call at once, without the
  second attempt that a timeout is given (`Unreachable`).
- An exception reply has another function code, so it never matches: the caller
  waits for its timeout, and `ModbusExceptionResponse` cannot be raised here.
- The dongle may take a request after its caller gave up; the write of an older call
  can then answer a newer one of the same register and value, which is why
  `AnswerIsFresh` speaks of what the register was written with during the call.
- The dongle may push replies to other clients on the connection (comment at 154-156).
  One of the same function and register is taken for the answer (`Foreign`); it was
  served during the call, so that its values are fresh, but it may have fewer registers.
- A reply without a length byte is read as one with it when its first byte equals the
  number of bytes after it (`HasLengthByte`, `modbus_service.py:346-352`): with 40
  registers, a first register whose low byte is 79.  Every value is then read a byte too
  late and is one that the register never held.  `LooksCounted` says exactly when, and
  `AnswerIsFresh` names it as its one exception; without it TLC finds the case.

The dongle is external: it takes requests late, in any order, never, or refuses
them, and sends frames that nobody asked for.  Frames are not corrupted (see section
8 on the resynchronisation).

### TuyaDevices

`job` is what each thread is doing: a batch (`fetch`, then its background heal) or
the status or control of one device (`try`, `set`, and once more after a heal).
`ips` are the addresses it has read from the table, `found` the scan it uses.
`_sync_scan_cached` reads the time before it takes the lock (`Ask`, `Lock`), so that
a thread that waited finds the result fresh.  `at` is the network.  `_update_device_ip`
may fail: the address is then not stored, and the thread goes on with it.  tinytuya is
external: within one call it sends a command as often as it likes (`Transmit`; the
comments at 166-172 and 350-353 speak of its internal retries), and returns a
dictionary, with `Err` when the device was not reached, or None (`set_status`).  What
follows from that in `_sync_control` is in the model: a dictionary is true, so that
`turn_on` at a dead address counts as success and does not heal, while `toggle`, which
asks for the status first, does.  A switch may be operated by hand as well, so that the
status that a toggle inverts is either.  `applied` are the values that a device was set
to for a job.

## 3. Runs

| run | configuration of | asks | outcome |
|---|---|---|---|
| `DongleOne` | `MCDongleServer` | one connection, a read and two writes of one register, cancelled anywhere: `QueueHoldsTheOpenCalls`, `NoLostWakeup`, `AnsweredWriteLanded`, `TelemetryIsInput`, `ImplementsExchange` | holds |
| `DongleLive` | `MCDongleServer` | two connections share the queue, callers cancelled in the first wait only: `ImplementsExchange`, `PollsResume` | holds |
| `DongleStall` | `MCDongleServer` | cancelled in the second wait too: `PollsResume` | violated |
| `ControllerCache` | `MCModbusController` | two writers of one register, timeouts of one client: `CacheFollowsWrites`, `WriteKeepsOtherBits` | holds |
| `Migration` | `MCMigrationRunner` | the real list, crashes anywhere, upgrades: `RecordedPrefix`, `TablesComeFirst`, `RunsMigrated`, `GetsToRun` | holds |
| `GridStatus` | `GridStatus` | crashes, failures, stale pages: `HistoryAlternates`, `ToldTheState`, `WarningsSpaced`, `BatteryOncePerDay`, `GridReported` | holds |
| `FcmDevices` | `FcmDevices` | three notifications and registrations: `NoDuplicateTokens`, `FileIsExact` | holds |
| `FcmLost` | `FcmDevices` | two notifications: `RegisteredStay` | violated |
| `Triggers` | `MCTriggerEngine` | two triggers, rounds, tests, edits, crashes: `FiringIsRemembered`, `CooldownHolds`, `SwitchedOffStops`, `FiresInWindow` | holds |
| `Catalogue` | `MCRegisterCatalogue` | any two writes of any items, every page: `ShownIsAsked`, `OthersKept`, `PageIsTrue`, `RangesServe` | holds |
| `Direct` | `MCDirectExchange` | two threads, another client and a dongle that talks out of turn: `RequestsAreIntact`, `WrittenOnce`, `AnswerIsFresh`, `NoReplyMissed`, `LockComesBack` | holds |
| `Tuya` | `MCTuyaDevices` | a poller, a controller, moving devices, edits: `ScanIsShared`, `UserEditsKept`, `OneEffect`, `AddressesSettle` | holds |

The type invariants of the modules that have proofs are proved and not part of a
run; their inductive invariants were checked with TLC before they were proved.

What they show:

- `QueueHoldsTheOpenCalls` rules out the entry that a reply finds twice, or not at
  all: timeout, retry, reply, cancellation and failing writes in any order. The
  exemption, an entry of a call cancelled in its second wait, is exactly what
  `DongleStall` turns into a stall.
- `NoLostWakeup` is about clearing an event another task may just have set.  It
  is checked and proved for one connection; with two, a handler can clear the
  event for a request that the other one was woken for.
- `AnsweredWriteLanded` and `TelemetryIsInput` say how far the comments they quote
  can be trusted.  A reply is matched by function and register only, so the echo
  that confirms a write may be that of another write of the register which is in
  flight or was given up.  A refusal never passes for an echo, though the queue
  takes it off like one (without the test of bit 0x80 in `validated_subject` the
  property is violated).  And a holding reply that no call waits for any more is
  merged in the telemetry, which happens only after a read of that register was given
  up or sent again.  It need not be the block read whose reply it is: a shorter read
  that is given up may leave its reply to resolve the block's call, and the block's own
  reply then finds no call.
- `CacheFollowsWrites` compares each payload under each key with the inverter,
  except while the answer to a write is on its way and for a register whose
  writer failed.  A third exception is `missed`: the read that verifies a write
  renews the entry of the register's block and patches no other
  (`modbus_controller.py:430`), so that a coalesced range shows the old value until it
  expires, is fetched again or is patched by another write.
- `RunsMigrated` and `GetsToRun` together say that no crash point is fatal: not
  the empty migration table (the case `NextId` singles out), not a column that was
  added and not recorded, not a table that the rollback took back.
- `HistoryAlternates` and `ToldTheState` say what a crash can do at worst: each
  crash adds at most one repeated entry, and only a crash or a failure between the
  record and the announcement loses one.  `GridReported` names the one fatal
  crash, that which leaves the history file empty: the handler raises at every
  later change.
- `WarningsSpaced` shows that the counter of passed-over warnings is not reset
  when an outage ends: the first warning of the next outage may be passed over.
- `BatteryOncePerDay` lists what makes a second notice possible: a crash before
  the date is saved, a save that fails, a start without loaded settings, an old page.
- `WriteKeepsOtherBits` is about two calls that write one register.  A call that
  another one crossed writes the other item's bits as they were before
  (`modbus_controller.py:406`): no lock spans the read and the write.  The property
  says that this is the only way to lose them: not a base from the cache, not a
  verified write, not a payload cached late.  Its mutant takes the base from any cached
  range that holds the register, which a verified write may have left behind.
- `FiringIsRemembered` and `CooldownHolds` belong together: the first says that what
  the round decided reaches the tables, past the trim of the history, edits and
  tests; the second that the next round acts on it.  A crash or a failed write
  between the actions and the stamp, and a test that began earlier and ends later,
  are the only ways to fire too early.  `SwitchedOffStops` allows the one firing of a
  round that had already read the row.
- `FiresInWindow` fixes what a window past midnight means with a list of days: the
  minutes after midnight belong to their own day, not to the evening's.
- `ShownIsAsked` and `OthersKept` run the whole catalogue through encode, merge and
  extract at the bounds of every item: no item reaches into another one, and no
  write of a harmless item changes a dangerous one.
- `RangesServe` compares what `_coalesce_ranges` makes of the blocks, one at a time, with
  a count of the fewest requests that does not mention its loop (`Firsts`: the blocks a
  request has to start with); `PageIsTrue` compares the offsets with the registers.
- `WrittenOnce` is the reason for `IDEMPOTENT_READ_FUNCTIONS`; `NoReplyMissed` that
  the loop which drops other frames never drops, or waits behind, the one it wants.
- `ScanIsShared` has an exception that the docstring of `_sync_scan_cached` does not
  mention: a scan that saw nothing is not shared.
- `OneEffect` does not say that a command arrives once, for tinytuya repeats it, but
  that the repetitions carry one value: the program itself never computes a second
  one after the first may have arrived, so that no toggle undoes itself.
- `AddressesSettle` holds although a heal may write an address that is older than
  the user's, or may not be stored: the next batch misses the device and heals again.
  It says "as long as somebody asks" (`Polled`): nothing in the program polls the
  devices, the page asks when it is loaded, when the tab is opened and when the list
  changes (`TriggerDashboard.tsx:144-154`), and until then a wrong address stays.
- `FileIsExact` says that the file is right at rest as long as nobody saved a list
  that was loaded before another save and no two notifications overlapped;
  `FcmLost` what happens otherwise.

## 4. Bounds

| run | instance | why it is enough |
|---|---|---|
| `DongleOne` | 3 calls, 1 connection, `MaxStream` 1 | a retried read, two writes that share a key, a late reply behind a new one; a handler looks at one frame and one entry at a time |
| `DongleLive` | 2 connections, a read | the read is sent twice, by either handler; a third connection adds no new pair |
| `DongleStall` | one connection, one read | an entry left behind is enough to stall |
| `ControllerCache` | 2 calls at a time, 2 registers, 3 ranges, 2 fields | two calls write masked items of one register, one of them verified by a read, that two keys hold; a short payload; a whole item; calls start again without end |
| `Migration` | the real list, no bound on crashes | |
| `GridStatus` | `HistoryCount` 3, `SkipCount` 2, `MaxCrashes` 2, `MaxDay` 2 | the history is cut; a warning is passed over twice; a crash during the recovery from another; a notice before and after midnight |
| `FcmDevices` | 2 tokens, `MaxNotify` 3 | two notifications overlap and a third one reads what they left; the run may stop when all are done |
| `Triggers` | 2 triggers, 2 cooldowns, seconds of 2 ticks, days of 3 minutes, 1 row of history, `MaxTime` 4; one of the triggers is edited | a stamp that is cut, a cooldown that is changed between two firings, a window past midnight into the next day, a trim; the other trigger is at another row of the same round |
| `Catalogue` | every item, at its bounds, one off them and one within; registers full of alternating bits; `MaxWrites` 2 | two writes are enough for one to disturb the other; other tables and longer histories are the theorems' |
| `Direct` | 2 threads, 2 registers, 2 values, reads of 1 and of 2 registers, another client's read of the first, `MaxFrames` 2, `MaxPending` 1, an attempt of 1 tick, chunks of 37 bytes and of all | one frame before the reply; 37 bytes end within a frame and join it with the next; the dongle holds the request of the other thread; a shorter reply to another client answers a longer read; the first byte of 259 is 3, the number of bytes after it in an uncounted reply of two registers, which is misread; the registers of a longer block are the theorem's |
| `Tuya` | 2 devices and addresses, a poller and a controller, `MaxMoves` 2, `MaxFaults` 1, `MaxEdits` 1 | two threads ask for a scan at once; the devices swap addresses; an edit during a heal |

`MaxStream`, `MaxCrashes`, `MaxDay`, `MaxNotify`, `MaxTime`, `Edited`, `MaxWrites`,
`MaxFrames`, `MaxPending`, `MaxMoves`, `MaxFaults` and `MaxEdits` are the only bounds
that the program does not have.  `Catalogue`, `FcmDevices` and `Tuya` may stop when
these are used up and do not check for deadlock.

## 5. Fairness

- `DongleServer!Fairness`: strong for each handler, for `Deliver` and for the timer
  of each call.  asyncio runs every ready task and due timer in its turn; a task is
  held up only while another one runs to its next await (`Quiet`), which disables
  it for a moment, hence strong.  Nothing is assumed of the dongle or of callers.
- `MigrationRunner!FairSpec`: weak for the loop of the migration and the start of
  the program (the container restarts it).  `GetsToRun` assumes that crashes stop.
- `GridStatus!FairSpec`: weak for the handler, since a sample arrives every
  `SLEEP_TIME` seconds, and for the restart.  `GridReported` assumes that the grid
  stays as it is; the number of crashes is bounded.
- `DirectExchange!Spec`: weak for the clock and for a thread that holds the lock and
  has connected, failed or run out of time.  Nothing is assumed of the dongle, and
  nothing of who gets the lock (`threading.Lock` is not fair): `LockComesBack` is
  about the lock, which is free again and again, and not about those who wait.
- `TuyaDevices!Spec`: weak for the running threads and the time to live of the cache;
  strong for the lock of the scans, which is free again and again.  Nobody has to ask
  for anything: that the status is asked for again and again is the hypothesis of
  `AddressesSettle`, which also assumes that devices and users come to rest, that a
  scan sees a device that stays on in the end, and that its address can be stored in
  the end (`MaxFaults`).

Safety properties are checked without fairness, or hold under it all the same.

## 6. Proofs

Every theorem holds for all values of the constants under the named assumption
of its module; TLC evaluates the assumptions in the runs.

**`DongleServer_proofs`** (assumes `RequestAssumption`).  `TypeSafe`: the types.
`QueueCorrect`: `QueueHoldsTheOpenCalls` for any sets of calls and connections.
It is inductive with the types once the queue is handled through what removing,
dropping and appending do to "distinct" and "holds", which are lemmas about
sequences (`RemoveAtFacts`, `DropFacts`, `AppendFacts`).  `WakeupCorrect`: with one
connection no wake-up is lost; the invariant says that the event or the latch of
the waiting task is set whenever an entry is unsent.  `ExchangeImplemented`: the
refinement.  The initial states map to initial states and every step to a step of
`ModbusExchange` or a stutter, under an invariant that budgets the frames of a call:
the frames written for it and the handlers that are writing one never exceed one for
the mark `sent` of its entry and one for the first attempt of a read that is repeated,
which is at most `MaxWires` (`BudgetInv`);
what the dongle services or answers was written (`FramesInv`), so that a call which
is answered has the key of a frame that went out (`AnswerInv`).
`EchoConfirms`: the command of each answer in a stream or a buffer was executed, that
of a refusal need not be (`LandedInv`), so that the echo which ends a write as done
names an executed write of the register.
`TelemetryCorrect` is a count.  While no read of a register was repeated or given up,
what its reads have on the line and the reads that are resolved are together not more
than the reads that went out (`CountInv`), since a frame is in one place of one
connection (`OnceInv`, with `LineStep` for what a step does to a line); so a reply to
such a read finds a call that waits, and is not taken for telemetry.

**`MigrationRunner_proofs`** (assumes `ListAssumption`: a statement that works on a
table comes after the one that creates it).  `TypeCorrect`, `RecordsCorrect`,
`TablesCorrect` and `RunningCorrect` are for every list, any crashes and upgrades.
The properties speak of the file when the program runs; the induction has to
follow the connection and the file at once: what is recorded in either is a prefix
and was executed in it, the view is the file unless a transaction is open, and the
statements below `at` have been executed in the view.

**`GridStatus_proofs`** (assumes `GridAssumption`).  `TypeCorrect` (the history never
outgrows `HISTORY_COUNT`), `ToldCorrect`, `WarningsCorrect` and `BatteryCorrect`
from one invariant with three parts: the sample differs from the state file until
it is written and the last announcement equals it outside of `notify` (`ToldInv`);
after a warning the counter and the dangerous samples since then add up to
`SkipCount` (`WarnInv`); a notice of today is remembered or about to be
(`NoticeInv`).  `HistoryCorrect` counts: the repeated entries of the history, and
one more while its newest entry is not what the state file says, are never more than
the crashes between the two files (`StoryInv`); the lemmas say what trimming and a
new entry do to that count.

**`ModbusController_proofs`** (assumes `RangeAssumption`).  `TypeCorrect`, and for any
registers, ranges, items and number of interleaved calls, each of which may write any
item, `CacheCorrect` and `OtherBitsKept` (the module has the catalogue's theorems too,
see below).  The induction follows each payload on its
way: a reply that waits to be taken shows the inverter but for the echoes that are
still in front of it (`AnswersInv`), so that a payload cached late is patched by those
echoes when they are taken; a payload under the key of a register's own block is never
left behind (`MissedInv`); and the value that a masked write waits for or is about to
send, as long as no other write has crossed it, equals the inverter outside of the item's
own bits (`MergedInv`).

**The catalogue, in `ModbusController_proofs`** (assumes `CatalogueAssumption`, which the
table of the program meets).  `ShownAsAsked`, `OthersAreKept`, `RangesAlwaysServe`,
`FewestRequests` and `PagesAreTrue`, for any items, values, pages, contents and any
number of writes.  The inductive invariant is the properties and the types
(`CatalogueInv`); the work is in the two steps.

- A write.  With masks as divisions a word has three parts: the bits above a field, the
  field, the bits below it (`PartsOf`, `PartsRead`).  A new part that fits replaces the
  field (`FieldReplaced`), what is below the field or from its end on stays as it was
  (`FieldBelow`, `FieldAbove`), and the field of every other item is one or the other
  (`OthersInRegister`); an item of a whole register is alone there (`WholeIsAlone`).
  `WrittenIsShown` has the codec of each kind: encoded, merged and extracted, a value
  comes back as what it means (`Meant`).
- A read.  `Serves` is the invariant of the loop in `_coalesce_ranges`: after n blocks the
  ranges are in order and whole, hold exactly the needed ones of those blocks, and start
  at exactly those of them which are `Firsts`.  `ServesJoin` is one turn: the last range
  is full, ends before the block or is made longer, and `RunGoesOn` says which of these
  makes the block one to start at.  At the end there are as many ranges as firsts
  (`AsManyAsFirsts`), each register is within one (`RegisterIsWithin`), and what is read
  at its offset is the register (`ReadStep`).  `FewestRequests` is what the count in
  `RangesServe` means, "the fewest contiguous read requests" of the docstring
  (`modbus_controller.py:244`): two `Firsts` never fit in one request (`OneFirst`), so that
  no requests of whole, needed blocks, even overlapping ones, are fewer (`NoFewer`).  Its
  statement quantifies over all sequences, so that no run checks it as it stands.
- `Joined` is a recursive function and the library's theorems on recursion take an
  operator as a parameter, so that `Recursion` proves that there is one from scratch, with
  its steps given by a function; `JoinedIs` unfolds `Joined`.

**`FcmDevices_proofs`** (assumes `DeviceAssumption`).  `TypeCorrect`, `NoDuplicates` and
`Exact`, for any finite set of tokens and any number of notifications.  Distinct lists
stay distinct because what is kept is an enumeration of the valid threads
(`KeptFacts`; that `InOrder` exists is shown by the least number of members for which
it would not).  `Exact` rests on what holds until something clashes: one notification
starts threads at a time (`OwnInv`); the file, or the list being written over it, has
every token that is due, and beyond these only such as a notification was refused and
will drop (`FileInv`, `Settled`); a list that is not stale differs from the file only
by what its holder adds or drops (`CopyInv`); and while somebody writes, every other
list is stale.

**`TriggerEngine_proofs`** (assumes `TriggerAssumption`, the types of the constants).
`TypeCorrect`, `Remembered`, `StopsFiring` and `CooldownIsKept`, for any number of
triggers, edits, tests and crashes.  The properties speak of a firing when the round
is done with it; the invariant adds what the round has in hand (`HandInv`: a trigger
that acts was read, its firing is the round's `now`, and after `act` its row is in
the history), that the copy of a row which is still to be looked at is as new as its
last firing (`CopyInv`), and what a row says of the history variables (`RowInv`).
`CooldownHolds` is then a fact about one step: `CooledDown` on a copy that is new
enough.  The cut to seconds needs that `Stored` is monotone and drops less than a
second; the trim needs that the newest row survives (`NewestKeeps`).  `WindowIsKept`
(assumes `WindowAssumption` too: the ends of a window are minutes of a day) is the
arithmetic of a window past midnight: the three cases of `InWindow` say the same as one
distance from the start of the window, taken modulo the day (`WindowMinutes`).

**`TuyaDevices_proofs`** (assumes `DeviceAssumption`).  `TypeCorrect`, `Shared`,
`EditsStand` and `OneValue`, for any devices, addresses and threads.  Beyond the
properties the invariant says what each thread is doing: a thread that asks, scans or
heals has devices to do it for (`Sound`), one at most scans, and who found the cache too
old before the lock still finds it so under it, since a scan that ends in between resets
the age of all that wait (`Jobs`).  What a device is set to for a job is the value which
the job has fixed, and nothing before it has (`Applied`).

**`DirectExchange_proofs`** (assumes `ExchangeAssumption`: registers and values are
words, a frame has 125 of them at most, as `_HOLDING_MAX_COUNT` says, and what answers
no request of this client or of another has another function or ends early; and
`SerialAssumption`: serial numbers are bytes).  For any threads, registers, values,
numbers of registers in a read, requests of other clients, sizes of what `recv`
returns, timeouts, frames and delays of the dongle.

- `AtMostOnce` and `Intactness` rest on `LockInv`: one caller holds the lock, and a
  write is with the dongle or was executed, not both (`Owned`).
- `Intactness` needs the CRC of every request.  `Residual` says that the CRC of bytes
  followed by their CRC is 0: the first of the two bytes clears the low byte of what
  the loop holds (`XorLowByte`, one bit more at a time), the loop over a byte then only
  shifts (`EightHigh`), and so does the second.  The lemmas on frames say where the
  parts of `build_frame` are.
- `xor` and the CRC, `Sift` too, are recursive functions, and the induction theorems of
  the library take an operator as a parameter.  `Recursive` is the way round it: the
  data of a recursion (where it stops, what comes next, a measure that decreases) are
  functions, a least counterexample shows that a solution exists, and each recursive
  definition is unfolded once as an instance (`XorIs`, `CrcIs`, `SiftIs`).
- `Freshness` and `Attention` rest on what the connection carries.  Its bytes are those
  of its frames, one after the other (`Stream`), and what a caller keeps starts where a
  frame ends, with no answer to its request before it (`CutAfter`, `StreamInv`).
  `SiftStream` is the heart: wherever the bytes were split, the loop cuts exactly at the
  ends of frames (`CutIsRight`: never a length that cannot be one, never a frame that
  is not there whole), passes over frames that do not answer, and stops at the first
  that does.  `FreshInv` adds that an answer which is on the connection has values of
  the call, and `AnswerIs` that these are what is read from its bytes, one register after
  the other (`BytesAre`, `RegistersAre`), or that its first byte looks like the length
  byte which it lacks.
- `TypeCorrect` follows from the same invariant: what is kept is a slice of the bytes
  received.

`LockInv`, `StreamInv` and `FreshInv` were checked with TLC in the instance of `Direct`
before they were proved.

Every invariant and action property that a passing run checks is the statement of a
theorem.
Only model-checked are:

- every liveness property (`PollsResume`, `GetsToRun`, `GridReported`, `LockComesBack`,
  `AddressesSettle`): fairness and ENABLED are out of reach of the prover;
- that the table of `ModbusRegisters` meets `CatalogueAssumption`, which is a fact about
  constants that TLC evaluates in the run `Catalogue`.

## 7. Disagreements found

Each is a run of its own, listed with the quoted text under "findings".

1. `DongleStall`: a caller cancelled in its second wait (the web request is gone)
   leaves its entry queued as sent; the handler takes it for a request in flight and
   never polls or sleeps again, until a reply with that key comes.
2. `FcmLost`: overlapping notifications share the list of threads, and a prune writes
   back an old list: healthy tokens are dropped.

The exceptions in `AnsweredWriteLanded`, `TelemetryIsInput`, `ScanIsShared`,
`CacheFollowsWrites` and `WriteKeepsOtherBits` (section 3) are where the code does less than a
comment says; the hazards at those lines repeat them.

## 8. What is not modelled

- The ReadInput parsers of `dongle_handler.py`: a table of offsets.  The functions of
  `modbus_service.py` that the program does not call (`build_write_multi_request`,
  `read_block_payload`).
- Corrupted bytes in DONGLE mode.  The loop that skips a byte when a length cannot be
  one stops at the first two bytes that can be: before a frame of protocol 1 that is
  the window three bytes too early, whose length reads as 288, so that it waits for
  bytes which do not come.  A property of the recovery would not hold and no comment
  promises one beyond "resync one byte at a time".
- HTTP mode: a login and a GET.
- The poll plan, the hand-off of samples and the partial frames of `dongle_server.py`.
- The effects of trigger actions: notifications are `FcmDevices`, devices `TuyaDevices`;
  audio is not modelled.
- Charts, notification history: single statements of SQL.
- Access control, routing, the front end, packaging and deployment: no state that
  changes beyond what the components above have.

## 9. Plan

Done, in this order: `ModbusExchange` and `DongleServer`, `ModbusController`,
`MigrationRunner`, `GridStatus`, `FcmDevices`, `TriggerEngine`, `RegisterCatalogue`
with `ModbusRegisters`, `ModbusFrames` and `DirectExchange`, `TuyaDevices`, and the
proofs of section 6.

Next, the most important first:

1. `TelemetryFeed`: the poll plan with its shared counter, the cache merge, and the
   event between the server and the main loop (`wait_for_data`).
2. `AudioPlayers`: two owners of players and the volume of the speaker.
3. `NotificationHistory`: insert and trim by two threads, marks, the unread count.
4. The partial frames of `__read_with_wake`, over `ModbusFrames`.

Compositions: `GridStatus` with `FcmDevices` (a broken token file makes every later
notification fail), `TriggerEngine` with `TuyaDevices`, `DongleServer` with
`ModbusController` (failed exchanges and their late effects instead of `Fail`).

Proofs: `CutIsRight` and `SiftStream` are what the proof of a model of the partial
frames in `__read_with_wake` would rest on; `RegisterIsWithin` and `OthersInRegister` what
a composition of `RegisterCatalogue` with the cache and the interleavings of
`ModbusController` would.
