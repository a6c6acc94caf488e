# TLA+ models of lubeman

lubeman is the software of a LAN reader for P3 patrol sensors: a guard touches the
reader's probe (the TMD adapter, on a USB serial line) with a sensor, the reader copies the
events the sensor recorded, erases it, sets its clock, stores the download in SQLite and
sends it to a server. This directory holds TLA+ modules of that program, configurations
that check them with TLC and theorems about them that TLAPS checks. Paths below are
relative to the repository; line numbers are those of the commit the models were written
from. `PROJECT.json` maps every definition to the lines it stands for.

## 1. The system

Three processes run on the reader.

    sensor <-touch-> TMD adapter <-USB serial-> simple <-SysV queues 44, 45-> pyguard.py <-TCP-> server
                                                  |                               |
                                                test.db                testkill (kills, restarts)

| Component | State it keeps | Operations | Talks to |
|---|---|---|---|
| **Download**, `core/engine.c` (`p3_readtourwork` 554-815 and the single exchanges around it) | the state `twstate`, the address `curaddr`, the counter `curcnt`, the image, the receive queue of the FTDI chip | order pages, read packets, copy, reconnect; header, delete, set time, beep, adapter version and power | the adapter, by bytes with time-outs; called by the main loop |
| **Main loop of simple**, `core/cser.cpp` (`Csr::mLoop` 960-1515) with the blink thread (1530-1584) | `fMachineState`, counters of attempts, `_idSyn`, `_evt.idSyn`, `_isResend`, the vector `fts`, the image, the header, `_dbopen` | one case of a switch per state: find the server, ask for missing data, find the adapter, wait for a sensor, read, delete, set time, save, parse and send | engine, database and parser by calls; pyguard.py by the queues; the blink thread by `_blinkState` and a join |
| **Local database**, `core/sqlit.c` | tables `gensyn` (the numbers given out), `rawbuf` (one row per download: image, `firstfree`, `tok`) and `repx` (the lines of each download) | open, give out a number, insert a blob of fixed size, read it back, mark it sent, look up the sensor | called by the main loop |
| **Parser**, `core/parser.c` | position in the image | walk through `firstfree` bytes, call back for each event; the call-backs write the JSON text and collect SQL | called by the main loop |
| **Dialogue thread**, `pyguard.py` (`PrimeNumber.run` 150-613) | the two queues, the JSON being received, `fire_time`, `sok_time`, `isAdapterOK`, the user name | answer CFF, CFB, ADA, ADS, RMD, receive a transfer (SJS ... EJS), pass it to the server; restart simple when it is silent or reports the adapter | simple by the queues, the server by TCP, simple's process by SIGKILL |
| **Watchdog**, `kill/main.c`, `kill/tcpx.c` | none but its configuration | ask the server every five seconds; when it says NCK, or a connection fails, stop simple and pyguard.py and start pyguard.py | the server by TCP, both processes by signals |
| **Start script**, `lutest.sh` | pid file | start, stop | all three processes |
| **TCP client of the core**, `core/tcppes.c` | sockets | an older way to the server, not used by `mLoop` | the server |
| helpers and tools | none | `comutils.c`, `asmjs.c`, `pyserver/server.py`, `fire.py`, `update.py`, `back.sh` | |

`core/sqlite3.c`, both copies of iniparser, `core/include`, `json.hpp`, the `ftd2xx.h` and
`gcc_*.h` headers and everything under `kill/build` and `kill/cmake-build-debug` are
third-party or generated.

### What is hard in it, and what makes each part correct

**Download.** An order asks for many pages at once; the answers come one packet at a time
into a queue that is never purged (621 compares `_purgerxtx` where it means to call it), so
after a short read or a reconnect packets of an older order are read as answers to the new
one. Correct: every copied page is the sensor's page of that number; address and counter
agree; the copy stays in the buffer; success means everything was read, because the sensor
is then erased; the call returns.

**Main loop.** One handler per state, long waits between them, a process that may be killed
in each. The sensor is erased before the image is saved. Results of waits are converted
from -1 to `true`. The row to be marked, the number sent and the image sent are three
variables set in different handlers. `iSat` is shared by several states. Correct: an event
is always somewhere (sensor, memory, database, server) but for the download a crash hits;
only read events are erased; what the server has under a number is what the row of that
number holds; a row marked sent was sent; events arrive under the sensor that recorded
them; attempts end.

**Blink thread.** It uses the same adapter handle and the same answer buffer as the main
loop without a lock. Correct: it is alive only while the main loop leaves the adapter
alone; joining it returns; a server that stays away makes the adapter blink.

**Dialogue.** Answers carry no number: any message of the queue is taken as the answer
to the last request; sends are dropped when a queue is full; queues outlive both processes;
`clear_pipe` looks first and then receives without a limit of time; `read_json` waits for an
EJS that a killed simple never sends, and the watch over simple is in the same thread.
Correct: an answer belongs to its request; a document passed on is one that was sent; the
thread keeps serving; a dead simple is restarted. `PyGuard` shows which of these hold without
an abandoned wait only.

**Single orders.** One order, one answer, through the same queue: an answer that comes late,
or the bytes a broken download left, are read by the next order. Retry loops count
attempts or do not. Correct: an image is taken further only when a sensor was erased; each
case of the loop that talks to a sensor is left.

**Database.** Number, row, blob, mark and lines are transactions of their own, and simple may be
killed between any two. `do_sql` closes the database on an error and the callers go on; the
results of inserts and of COMMIT are not read; a row is committed before its blob is written; a
blob has 256 bytes whatever the image. Correct: the file goes through legal states only, and
the row of a number holds what the server has under it.

**Parser.** A byte misread moves the walk, and everything behind it is something else; the last
bytes may be missing; a bad byte ends the parse with -1, read as `true`; state of one event
leaks into the next. Correct: the document has the recorded events with their times, and the
SQL lines are those of the document.

**Watchdog.** Three actors start and stop simple (testkill and both threads of pyguard.py), in
two steps each, and a shell outlives the process that ran it; a server that says nothing
holds `recv()` for ever. Correct: copies of simple stay few, a restart leaves one, and the reader
is served again.

The hazards, each at its line and with the properties that watch it, are in `PROJECT.json`.

## 2. The modules

| Module | What it is |
|---|---|
| `TourRead` | one call of `p3_readtourwork` with the adapter, its queue, the sensor and the user |
| `PageTransfer` | what such a call amounts to for its caller; `TourRead` implements it |
| `MCTourRead` | the images TLC reads |
| `TourReadProofs` | theorems about `TourRead` and the refinement |
| `Exchange` | the other orders to adapter and sensor, with the cases of the loop that give them |
| `MCExchange` | `Exchange` for TLC |
| `ExchangeProofs` | theorems about `Exchange` |
| `MainLoop` | `Csr::mLoop`, the blink thread, the database rows and the sensors |
| `Relay` | what the loop promises for the events: sensor, image, one row, server; `MainLoop` implements it |
| `MCMainLoop` | sets of hazards and the symmetry for TLC |
| `MainLoopProofs` | theorems about `MainLoop`: types, the adapter, messages, where events are, and the refinement |
| `Sqlit` | the database statement by statement, with its callers |
| `Ledger` | what the database promises; `Sqlit` implements it |
| `MCSqlit` | sets of faults for TLC |
| `SqlitProofs` | theorems about `Sqlit` and the refinement |
| `ParseDump` | `parsedump()` over the bytes of an image, with its call-backs |
| `MCParseDump` | recordings for TLC |
| `FormatProofs` | lemmas about the memory of a sensor and the places of the walk in it |
| `ParseDumpProofs` | theorems about `ParseDump` |
| `PyGuard` | the dialogue thread of `pyguard.py`, the two queues, the waits of simple, the restarts |
| `MCPyGuard` | a second initial state for TLC: both processes started, queues empty |
| `PyGuardProofs` | theorems about `PyGuard`: types, backlog, documents, step |
| `Watchdog` | testkill, the start of `pyguard.py`, its restarts of simple, the shells |
| `MCWatchdog` | sets of faults for TLC |
| `WatchdogProofs` | theorems about `Watchdog` |

The modules are not composed into one. Each lets the others do anything their code allows at
the place where they meet: `MainLoop` lets a wait be answered by anything or nothing, `PyGuard`
lets simple ask anything in any order; `MainLoop` has an order to the sensor as its outcomes,
`Exchange` and `TourRead` the bytes behind them; `MainLoop` has `save_blob` and a pass of the
parser as one step, `Sqlit` and `ParseDump` their statements and bytes; `Watchdog` lets the
thread of `PyGuard` hang or die at any time.

### TourRead

The program's state is `twstate`, `firstfree`, `curaddr` (in pages), `curcnt` (a WORD: it
wraps at 65536), `memdump`, the page in `cBufRead` and the number of repeated reads. The
environment is the adapter's order (`feed`), the receive queue `rx`, whether it is out of
step by a byte (`skew`) and whether the sensor is attached.

| Code | Action |
|---|---|
| bgSTART | `Start` |
| bgWRITE | `Write`, `WriteFails` |
| bgRECONNECT falling through to bgSTART | `Reconnect`; `ReconnectFails` when an old byte is read |
| bgREAD: the byte 254 or 255 | `ReadTimeoutByte` |
| bgREAD: short read | `ReadShort` |
| bgREAD: 69 bytes, status 0, the address test | `ReadPacket` |
| bgREAD: status not 0, up to two more reads | `ReadBad`, `ReadAgainTimeoutByte` |
| bgREAD with the queue out of step | `ReadSkewed`; `ReadSplit` is how it gets there |
| bgBUFOK | `BufOK`, `BufOverrun` (stops the model where the C code leaves the buffer) |
| bgBUFERR | `BufErr` |

A packet is the number of its page, as the code compares nothing else: its status byte
becomes the value `BAD`, the adapter's time-out byte `TMO`, a page shifted by a byte `JUNK`.
What the adapter does is not in the repository. The model takes from `engine.c` that an
order makes it send pages in sequence, that a damaged page is repeated or passed over, that
without a sensor it sends one time-out byte, and that a count byte of 0 means nothing or
256. `FT_Read` is taken to return what it has when its time-out expires: `engine.c` sets no
time-outs itself (`FT_SetTimeouts` is not called), so this is the driver's doing. `MayStall` lets
packets come after the reader gave up, `MaySplit` lets one come between `readbuf(1)` and
`readbuf(68)`.

`PageTransfer` has a plan, an image, the cell the next page goes to, the number of pages copied
and a result; its steps are `CopyPage`, `Rewind`, `Fail`. `TourRead!PT` maps `next` to `curaddr`,
`copies` to `curaddr` plus the pages reconnects gave up (`skipped`), `result` to the state
reached (`Outcome`), and what a page may come as to `Content`: page 0 may be stored out of step
when a packet comes between the two reads. Property `Transfers` is the refinement, for the
plans the counter can count.

### Exchange

| Code | Action |
|---|---|
| m_waitforadapter: `getadapternumber` (engine.c 362-386) | `AdapterNumber`, `AdapterGone` |
| m_waitforpes and m_prepdelp3: `is_p3`, `p3_reconnect` (order C0, then D0) | `Media`, `Type`, and whoever called goes on: `IsP3`, `ChunkAgain`, `TouchAgain`, `TouchEnds`, `Prepared`, `DeleteFailed` |
| m_readp3header: `p3_eechunk` fourteen times, `p3_eventcount` | `EeChunk`, `EventCount` |
| m_readp3 (the download itself is `TourRead`) | `Download`: it leaves bytes in the queue |
| m_prepdelp3: `chip_touch`, its else branch | `Touch`, `AdapterRestart` |
| m_deletep3, m_settimep3, m_beepok | `Delete`, `SetTime`, `BeepOk` |
| all other cases | `Elsewhere` |
| the user | `MoveSensor`, `Unplug` |

One action is one exchange. An answer is good, bad or none; `stale` counts the bytes of older
answers in the queue. An order may not be written, be lost, or its answer damaged, lost or late
(`MayStall`). The bytes the code reads without having received them, in `cBufRead` after no
answer and as the result of `is_p3` falling off its end, are choices. That FT_INVALID_HANDLE
is 1 and so equals `true` is not modelled: the handle is valid once the device was opened.

### MainLoop

One action is one pass through a case of the switch, its whole handler; cases with several
ways out are several actions.

| State | Actions |
|---|---|
| m_start | `Start`, `StartFails` |
| m_checkserver | `ServerFound`, `ServerMissed` |
| m_serverError | `ServerError` (starts the blink thread) |
| m_checkmissing | `ResendRequest`, `ResendCrashes`, `NothingMissing`, `MissingUnanswered` |
| m_serverok | `ServerOk` |
| m_waitforadapter | `AdapterFound`, `AdapterMute` |
| m_adapterError, m_adapterToPython | `AdapterError`, `AdapterToPython` |
| m_waitforpes | `SensorSeen`, `NoSensorSeen` |
| m_servertime | `ServerTime`, `ServerTimeCrashes` |
| m_readp3header, m_readp3 | `ReadHeader`, `ReadImage`, `ReadImageFails` |
| m_prepdelp3, m_deletep3 | `ReadyToDelete`, `NotReadyToDelete`, `Delete`, `DeleteFails` |
| m_settimep3, m_beepok, m_saveblob | `SetTime`, `BeepOk`, `SaveBlob` |
| m_parsedata | `ParseDone`, `ParseFails` |
| stop_blinking | `StopBlinkingThen`, `Joined`: the main thread waits in `pthread_join` while `joining` is set |
| thread_start | `BlinkerExits` |

Around it: `Killed` (SIGKILL from pyguard.py or testkill, or a power cut), `Restarted`, and
the users (`PutOn`, `TakeOff`, `Record`). An event is a number; the memory of a sensor, the
image, a blob and a message are sets of events. A row of `rawbuf` is the set stored, the
`firstfree` and `tok`; an entry of `repx` stands for all lines of one parse. `recordedBy`,
`server` and `crashes` are ghosts that no action of the program reads.

`Relay` has what the sensors hold, the image in hand, the rows, what the server has and the number
of kills; its steps are `Record`, `Take`, `GiveUp`, `Erase`, `Store`, `Deliver`, `Killed`. `MainLoop!R` maps
the image in memory to the one in hand from m_prepdelp3 to m_saveblob and drops `firstfree` and `tok`
from the rows. `Store` asks that no sensor and no row has an event of the image, `Erase` that the
sensor holds exactly the image, and `GiveUp` that it still does. Property `Relays` is the refinement.

What the environment may do beyond answering or not is listed in `HazardKinds` and admitted
by the constant `Hazards`, so that each run says which misbehaviour it covers:

- `crash`, `adapterdown`, `nothread`, `lostreply`, `resend`: as the names say;
- `lift`: the user moves the sensor between the header and the beep; `anytime`: in a state before
  m_waitforpes or behind the beep. Nothing looks at the probe there, so a move can be put off until
  m_waitforpes; run `loop` leaves it out to have a third fewer steps, `loop_probe` and the theorems
  have it;
- `shortread`: `p3_readtourwork` succeeds with pages missing, which `TourRead` shows it can;
- `unconfirmed`: a transfer counts as sent and was not. Three ways lead there:
  `wait_for_str` (601-620) returns -1 on a time-out, `parsedump` returns -1 on a bad byte,
  both converted to `true`; and pyguard.py acknowledges a document before it passes it on and
  does not report a failure;
- `resend` brings `ResendCrashes`, too: with the database not open `read_blob` hands a null handle
  to `sqlite3_blob_open` and the process ends;
- `stale`: the answer to an earlier request arrives in m_servertime. `parse_sst_line` copies
  from the null pointer `strtok` returned and the process ends.

Deliberate simplifications: the header's number is that of the sensor on the probe; a deletion that
succeeds erases (a stale byte taken for its answer is in `Exchange`); `save_blob` is one step, and statements do not fail: what is
between its statements, and their failures, is module `Sqlit`; a failing
parse may have sent everything or nothing (`ParseFails`), more than the code can do in
either case, and a parse counted as sent sent everything unless `unconfirmed`; `iSat` stops
one above both of its limits, which no test can tell.

### Sqlit

| Code | Action |
|---|---|
| m_start: `open_database`, `untransfered_id` | `Open` |
| `new_file` (315-327): insert into gensyn, `get_max` | `NewFile`, `GetMax` |
| `write_blob` (329-395): insert with zeros, the blob, exit(1) | `InsertRow`, `FillBlob`, `WriteExits` |
| m_parsedata: the transfer, `tok=1`, the lines of `fts` | `Delivers`, `TransferFails`, `MarkSent`, `EnterLine`, `LinesEntered` |
| m_checkmissing: `get_sensorid`, `read_blob` | `Resend`, `ResendCrashes`, `NothingMissing` |
| SIGKILL at any place | `Killed` |

`disk` is what is committed, `view` what the connection sees. A statement can fail in four ways
(`Faults`): a `do_sql` (`exec`), its COMMIT (`commit`), the insert or the opening of the blob,
which end simple (`insert`), and the writing of the blob (`blob`). `saved` and `server` are ghosts.
`Ledger` has three variables, the number given out last, the rows and the lines entered, and five
steps; `L` maps them to `disk`. `KeepsLedger` is the refinement, until a statement fails. After
that it does not hold: `MCSqlitNumbers.cfg` and `MCSqlitCommit.cfg` show how.
`StaysOpen` holds by a slip: `untransfered_id` returns without finalizing its statement, and
`sqlite3_close` refuses while there is one; without the slip a failed statement would leave
simple with a closed handle (that is its mutant).

### ParseDump

One action is one pass through a case of the switch over `image[curcnt]`: `Day`, `YearMonth`,
`Kind`, `HiHour`, `Reserved`, `EndOfData`, `Antivandal`, `Keypad`, `TimeChange`, `Touch`,
`NotImplemented` (the byte 0xFB), with their call-backs in `cser.cpp`; `Call` starts a pass and
`Finalize` ends one. The bytes are real: `Dump` writes a recording as the sensor does. That
format is not in the repository; it is taken from what `parser.c` reads and its comment at 191.
`Clock` and `DataOf` say what a record may hold, `RecordBytes` which bytes stand for it after
those before, `Memory` is the bytes of the first n records and `Reports` the events they tell.
`Losses` takes bytes off the end. `json` is the events of the document, `closed` the comma
`DoFinal` replaced, `rec` the part of `_evt` that outlives an event. `Bcd` has no `return` in the C
code; built without optimisation, as the project is, the value is there.

### PyGuard

The queues are `mq` (key 44) and `mw` (key 45). simple is its wait `sm`, the document `sdoc` and the
line sent last; the thread is its place `pc`, the request in `hand`, `__json` (`text`),
`__isAdapterOK` and whether `__sok_time` is older than SIMPLE_DEAD (`sokOld`).

| Code | Action |
|---|---|
| `wait_for_line` (cser.cpp 701-749) with CFF, ADA, RMD | `Ask`, `TakeAnswer`, `GiveUp` |
| the two ADS of m_adapterError (1218-1226) | `Ask("ADS")`, `TakeFirstReply`, `GiveUpFirstReply` |
| `send_json` (788-836) with `blocked_ipc` | `SendJson`, `NextLine`, `EndOfLines`, `GiveUp` |
| `wait_for_str("EJK")` | `AwaitEJK`, `GiveUp` |
| `clear_pipe` (pyguard.py 425-437) of `mq` and of `mw` | `ClearRequests`; `MustClear`, `ClearOne`, `Cleared` |
| the branches CFF, ADA, ADS, RMD | `TakeQuestion`, then `Cleared`, then `SendAndReturn` for ADS and RMD |
| the branch SJS: `read_json`, `json.loads`, what follows | `TakeSJS`, `ReadJson`, `Parse`, `Push` |
| a line out of place; no message | `TakeStray`, or `TakeQuestion` by `Heard`; `NoMessage` |
| the end of the loop: time, server, watch over simple | `House`, `HouseRestart` |
| `exit(0)` in the exception handler | `pc = "dead"`: it ends the thread only |
| an exception behind `json.loads`, in `json_to_prop` or `save_json` | `pc = "raised"`, by `Push` |
| start of pyguard.py (623-649) | `Init`, `StartSimple` |
| time passes; simple ends; testkill | `Silence`; `SimpleEnds`; `TestKill` |

`clear_pipe(mw)` is split between its test and its receive, because simple receives from the same
queue. The rest of a branch touches nothing simple reads and is one step.

A message carries a ghost flag `fresh`: it belongs to the request simple sent last. `send_str`
clears the flag everywhere, an answer inherits it. `abandoned` counts the waits that ended while
their answer was still to come, and the waits of a simple that was stopped. All properties that
need the two to be in step are stated from it.

Deliberate simplifications. The order of requests is free. A wait times out only where the thread
may stay that long: in the conversation with the server, in a restart, stuck, dead, or with
nothing to read (`Stays`); the 0.1 s sleeps are shorter than the 2 s of a wait. A document is its
first line, its last line and lines between; `json.loads` accepts what starts with a first line,
ends with a last one and has neither in between. Two documents whose lines are mixed would pass:
that none is ever passed on is `WholeDocuments`. A text with something else in it, or with more
lines than a document, is `Spoiled`. The capacity of the queues is not modelled; `Backlog` is why.
An answer to a question is `ANS` whatever it says. `find` looks for a request anywhere in the text:
of a line out of place, whose numbers are hexadecimal, `Heard` says that it may contain `CFF` or
`ADA`; the user and the number in a request are taken not to. CFB is never sent by simple. Only one simple
runs at a time.

### Watchdog

| Code | Action |
|---|---|
| testkill: `stop_process`, `run_process`, the two sleeps | `StopSimple`, `StopGuard`, `RunGuard`, `TenSeconds` |
| testkill: `should_kill`, `writetcp` | `Ask`, `AskFails`, `NoInterface`, `Answer`, `AnswerFails`, `NoAnswer` |
| pyguard.py, `restart_process` and `kill_process`, main thread and dialogue thread | `Look`, `KillFound`, `KillRaises`, `Launch` |
| the shell of `os.system()` without its pyguard.py | `OrphanLaunches` |
| the dialogue thread: server, CFF, ADS, waits for ever | `Contact`, `Hears`, `AdapterReported`, `Sticks` |
| simple ends; a minute passes; a minute unheard; the link | `SimpleDies`, `SokAges`, `Unheard`, `LinkChanges` |

A process is its pid. `restart_process` looks for pids, kills what it found and runs a shell,
three steps others come between. `Faults` are a link that goes or comes, an answer that is too
slow, a connection reset or silent, no interface, a thread that hangs, an adapter reported dead.
The dialogue itself is `PyGuard`.

## 3. What is checked

Bounds are in the cfg files; TLC finishes each within two or three minutes.

| Run | cfg | Shows |
|---|---|---|
| `tour_read` | `MCTourRead.cfg` | images of 0 to 3 pages, a queue of 3 packets, 4 faults, packets late and split: `PageIntegrity`, `NoOverrun`, `Accounting`, `FinishedPrefix`; the call `Returns`; it implements `PageTransfer` (`Transfers`) |
| `exchange` | `MCExchange.cfg` | late answers, stale bytes, a sensor moved and an adapter pulled off at any time: an image is taken further only when a sensor has been erased (`DeletedMeansErased`), and the cases that talk to a sensor are left (`CasesEnd`); no deadlock |
| `loop` | `MCMainLoop.cfg` | two sensors, moved while one is waited for, two events, two downloads, a crash, resends: `AdapterExclusive`, `Custody`; it implements `Relay` (`Relays`); no deadlock |
| `loop_probe` | `MCMainLoopProbe.cfg` | without resends, an adapter that does not open and lost replies: `TokMeansSent`, `Attribution`, `ErasedOnlyRead`; no deadlock |
| `loop_live` | `MCMainLoopLive.cfg` | anything the environment may do but a crash and a thread that does not start: `AttemptsEnd`, `BlinkingStarts`, `JoinReturns` |
| `sqlit` | `MCSqlit.cfg` | two downloads, a resend, two failed statements, two kills between any two: `StaysOpen`, `SentIsRow`, `RowIsImage`; it implements `Ledger` (`KeepsLedger`) |
| `parse` | `MCParseDump.cfg` | recordings of none to three records, images cut at the end, two passes: `Decoded`, `OnlyLastSpoiled`, `RowsFollowDocument`; every call `Returns` |
| `guard` | `MCPyGuard.cfg` | two documents, two waits given up, one stop: `Backlog`, `WholeDocuments`, `InStep`, `DeadSimpleRestarted`, `Serves` |
| `watchdog` | `MCWatchdog.cfg` | all actors, two faults, a death of simple: `CopiesBounded`, `RestartLeavesOne`, `Served` |

Deadlock is not checked where a behaviour ends: `tour_read` (the call returns), `parse` (so does
the last pass), `sqlit` and `watchdog` (their bounds are spent; testkill may have ended), `guard`
(a dead thread is one of the things the code can come to) and `loop_live`, whose bound of one
download ends the behaviour in m_waitforpes with the sensor still on the probe.

What `guard` says of the dialogue: until a wait is given up, simple takes only answers to its own
requests, the thread reads exactly the lines simple has sent, never waits in `clear_pipe` and
never dies (`InStep`), and comes back to its queue (`Serves`). After an abandoned wait none of that
is promised; what still holds is that nothing but whole documents is passed on
(`WholeDocuments`), that messages do not pile up (`Backlog`), and that a simple that ended is
started again unless the thread is in one of four places it may never leave
(`DeadSimpleRestarted`). `Serves` excepts a thread that an exception behind `json.loads` has ended,
too, which a document in step can raise.

`DeletedMeansErased` excepts a deletion that a stale byte answered for: nothing purges the queue,
so the bytes a download or a late answer left there can look like a deletion's. `CasesEnd`
leaves out what never ends in the code: m_settimep3 is repeated without a limit, so it is left only when
the adapter answers. Pulled off, or switched off by the attempts of m_prepdelp3 (cser.cpp 1389) behind
which stale bytes answered the deletion, it never does; `MCExchangeSetTime.cfg` is that
behaviour, with the adapter plugged in. `Served` excepts
a testkill that has ended or waits in `recv()`. `RestartLeavesOne` is about a restart that begins
while nobody else is starting simple; otherwise `CopiesBounded` is what holds.

### Disagreements with the code's own comments

Each of these runs checks one property that a comment of the repository states and that TLC
finds violated. `PROJECT.json` quotes the comment.

| Run | cfg | Property | Why |
|---|---|---|---|
| `tour_read_reconnect` | `MCTourReadReconnect.cfg` | `ReadsAllData` | bgRECONNECT resets the address and not the counter: a call succeeds without the last pages, and the sensor is then erased |
| `loop_no_db` | `MCMainLoopNoDb.cfg` | `DownloadStored` | started without an adapter, the loop never opens its database |
| `guard_ack` | `MCPyGuardAck.cfg` | `AckMeansReceived` | `read_json` sends EJK before the text is parsed; the SJS of a killed simple opens the next transfer, which is acknowledged to the end and rejected |

The following configurations are kept as counterexamples, too. Each ends with the violation of
the property it names; the property and the comment it comes from stand in the module.

| cfg | Property | Why |
|---|---|---|
| `MCTourReadBoundary` | `ReadsAllData` | the correction of the page count (engine.c 585) drops the page that holds only the last byte |
| `MCTourReadRepair` | `ThreeRepairs` | a packet with a wrong address ends the download, though the comments at the tests (697-700) promise three repairs (790) |
| `MCTourReadPurge` | `PurgedAtStart` | `_purgerxtx` is compared, not called (621) |
| `MCExchangeRestart` | `RetriesPowered` | `getadapternumber() == true` is never so, FT_OK being 0: the attempts to get the sensor back find the adapter switched off (cser.cpp 1389) |
| `MCExchangeNumber` | `NumberIsAdapters` | bytes of a failed download are read as the adapter's number |
| `MCExchangeSetTime` | `SetTimeEnds` | stale bytes answer a deletion with the adapter switched off; the clock is then set for ever (1389, 1428) |
| `MCExchangeUnplug` | `TroubleNoticed` | `p3_eechunk` repeats an unanswered order for ever; pyguard.py kills simple after a minute |
| `MCMainLoopTok` | `TokMeansSent` | after a resend the newest row is marked instead of the one sent (cser.cpp 1475) |
| `MCMainLoopResend` | `Attribution` | the sensor of a resend is looked up in `repx`, which an unacknowledged download never reached (1138) |
| `MCSqlitNumbers` | `NumbersUnique` | the insert into gensyn fails unnoticed: two rows of one number |
| `MCSqlitCommit` | `SavedBeforeSent` | COMMIT fails unnoticed: what is sent is not on disk |
| `MCSqlitZeros` | `RowFilled` | a kill between the insert and the blob leaves zeros under a number |
| `MCSqlitTwice` | `LinesOnce` | `fts` is cleared in m_saveblob only: each attempt enters the lines again (1484) |
| `MCSqlitFlag` | `NewIsNoResend` | `_isResend` outlives the resend (1109): the next download's lines are not entered |
| `MCParseDumpMinutes` | `AllMinutes` | 0xEF is a time for the switch and none for `update_datetime` (parser.c 90) |
| `MCParseDumpDoubt` | `DoubtShown` | `(b1 & 0x80) == 1` is never true (81) |
| `MCParseDumpEmpty` | `ListClosed` | without an event the bracket replaces a comma of the head (cser.cpp 575) |
| `MCParseDumpSent` | `SentMeansAll` | a byte 0xFB ends the parse with -1, which counts as sent (parser.c 250) |
| `MCWatchdogOrder` | `KillsOnCommand` | a connection that fails counts as the order to stop (kill/main.c 120) |
| `MCWatchdogSilent` | `Listens` | `recv()` has no limit of time (tcpx.c 164) |
| `MCWatchdogCopies` | `OneSimple` | both threads restart simple at the start (pyguard.py 603, 649) |

Seen while modelling and left without a property: the page count is taken modulo 256 (engine.c
588); `write_blob` stores 256 bytes of any image (sqlit.c 335); DELETE_ATT + 2 attempts are made;
m_serverError at cser.cpp 1163 is overwritten; a header chunk with a bad status is taken when the
reconnect succeeds (engine.c 838); `p3_eventcount` and `p3_settime` do not look at the status
(507-548).

### Bounds, and why they are enough

`TourRead`: three pages give a first, a middle and a last page; three packets waiting are more
than the reader can be behind after one short read; four faults allow a short read, a damaged
packet and a lift in one call. firstfree 1 is the empty plan, whose counter runs below zero.
`Countable` excludes it and plans of 256 pages and more, which the one-byte count cannot say.
`MainLoop`: two sensors are needed to mistake one for the other, two downloads to mistake a
row, one crash for every statement that counts crashes; two events allow one for each
sensor or a stored blob of two. Limits of attempts are 0 or 1, so that both outcomes of each
test occur. `MaxParses` bounds `fts`, which the code lets grow. In run `loop` it is 2,
so a resend is asked for there only when nothing was parsed since the last download or restart;
resends after a download are the subject of `MCMainLoopTok.cfg` and of theorem `MessagesAreRows`. `BLOBSIZE` is as large as
an image in these runs.

`PyGuard`: three lines give a document a first, a middle and a last one; two documents show a
mixture. One abandoned wait gets the two out of step, the second happens while they are; one stop
ends simple, or both, in any state. `guard_ack` starts with both processes up and the queues empty,
which the start-up reaches, to keep its counterexample short.

`Exchange`: three chunks of the header's fourteen are a first, a middle and a last one; two
attempts and three touches let each limit be reached; answers of 3 and 2 bytes instead of 16
and 5 can be read in part by an order of the other length; a download leaves up to
`MaxLeft` 13 bytes, to an answer of 3 what one packet of 69 is to an answer of 16, and `MaxStale` 16 is an
answer more, so stale bytes last from a touch to the setting of the clock; two faults hit one order and the repair of it.

`Sqlit`: two downloads are needed to mistake a row, a resend asks for either or for a number
without a row; two failures and two kills come between any two statements; a transfer that fails
is repeated once.

`ParseDump`: the moments of `MCParseDump` cross a month, a day, a block of four hours and the last
minute of one; three records give each record something before and behind it. Images are cut by
0 to 7 bytes, more than the longest record, for recordings of up to two records: what is cut off
spoils only what is behind the last but one. Two passes show what outlives one.

`Watchdog`: five pids are more than the copies there can be (`CopiesBounded`); two faults, one
death and two orphans come in any order. `InTime` says that pyguard.py has started before testkill
asks again, ten seconds later; the theorems do not need it.

### Fairness

`TourRead!FairSpec`: the reader is a loop that never blocks (every read has a time-out), and
the adapter is a device with a loop of its own: weak fairness on the reader's actions
together, and on the adapter's answers. The user owes nothing; `Returns` assumes that the
sensor ends up on the probe. Faults are bounded: a line that is disturbed for ever keeps the
call from returning, as it would in the code.

`MainLoop!FairSpec`: weak fairness of the main thread (`LocalStep \/ DialogueStep`) and of
the blink thread: two threads under the scheduler. No answer is promised: all outcomes of a
wait are disjuncts of one action set. `AttemptsEnd` holds whatever the environment does; `BlinkingStarts` assumes only that the loop stays in the two states.

`PyGuard!FairSpec`: weak fairness of the thread and of the waits of simple (two processes under
the scheduler, and every wait ends with a message or its time-out), of `Silence` (sixty seconds
pass) and of the main thread of `pyguard.py`. simple owes no new request and nothing has to be
stopped.

`ParseDump!FairSpec`: the parser waits for nothing, so weak fairness on the walk. No new call is
owed. `Exchange!FairSpec`: the main thread goes on, and a powered adapter answers but for the
counted faults; nothing is asked of the user, and the adapter may stay unplugged.
`Watchdog!FairSpec`: every process and shell runs, a connection that is up brings an answer, and
minutes pass; the link owes nothing. `Sqlit` has no liveness property: the transfer it waits
for is the business of `MainLoop` and `PyGuard`. No property of `MainLoop` depends on m_settimep3
being left, which `CasesEnd` promises only while the adapter is plugged in and powered.

### Mutants

Every checked property has a mutant: a plausible slip in a mapped definition that makes TLC
find the property violated. The faulty variants stand in the modules before the definitions
they replace.

| Property | Definition | Replaced by |
|---|---|---|
| `TourRead!TypeOK` | `CountDown` | `CountSigned`: the WORD does not wrap |
| `PageIntegrity` | `AddressEchoed` | `AnyAddress`: the address is not compared |
| `NoOverrun` | `MemPages` | `MemPagesTight`: one page less allocated |
| `Accounting` | `StartAddress` | `ResumeHere`: the address is kept, the ghost is not |
| `FinishedPrefix` | `MorePages` | `MorePagesButLast`: off by one |
| `Transfers` | `MorePages` | `MorePagesButLast` |
| `TourRead!Returns` | `AfterShortRead` | `ReadOn`: read again without an order |
| `Exchange!TypeOK` | `OutOfAttempts` | `OneMoreAttempt`: off by one |
| `DeletedMeansErased` | `Deleted` | `TakenAnyway`: the answer of the deletion is not looked at |
| `CasesEnd` | `NextAttempt` | `SameAttempt`: failed attempts are not counted |
| `MainLoop!TypeOK` | `WaitCount` | `WaitOn`: the counter is not reset |
| `AdapterExclusive` | `StopBlinkingThen` | `StopWithoutJoin`: the flag is cleared, the thread is not joined |
| `Custody`, `ErasedOnlyRead` | `AfterFailedRead` | `ReadAnyway`: a failed read leads to the deletion |
| `Relays` | `NotDeleted` | `SaveAnyway`: an image is saved though its deletion failed |
| `TokMeansSent` | `NewRow` | `OldRow`: `_evt.idSyn` is not set by `save_blob` |
| `Attribution` | `SerialRead` | `SerialKept`: the header's number is not taken over |
| `AttemptsEnd`, `BlinkingStarts` | `CountAttempt` | `CountWraps`: `iSat` starts again at its limit |
| `JoinReturns` | `BlinkOff` | `BlinkLeftOn`: the flag is not cleared before the join |
| `Sqlit!TypeOK` | `LastRow` | `LastRowOrNone`: -1 for an empty table |
| `StaysOpen` | `StatementLeft` | `Finalized`: `untransfered_id` finalizes its statement |
| `RowIsImage` | `BlobRow` | `FirstRow`: the blob is written to another row |
| `SentIsRow` | `ImageFound` | `MemoryKept`: `read_blob` reads nothing |
| `KeepsLedger` | `MaxOf` | `MaxOfBefore`: the number before |
| `ParseDump!TypeOK` | `WithTime` | `WithRawSecond`: BCD is not decoded |
| `Decoded` | `WithTime` | `WithMinuteOnly`: the low hour is dropped |
| `OnlyLastSpoiled` | `ClearedKind` | `KeptKind`: the announced kind outlives its event |
| `RowsFollowDocument` | `NextOrden` | `SameOrden`: the place in the document is not counted |
| `ParseDump!Returns` | `EndMarkSize` | `EndMarkStays`: the end mark is not stepped over |
| `PyGuard!TypeOK` | `MoreLines` | `OneMore`: off by one |
| `Backlog` | `JsonReply` | `AnsweredTwice`: EJS is answered as a line, too |
| `WholeDocuments` | `WellFormed` | `Unchecked`: goes on after the exception |
| `InStep` | `FirstText` | `OldText`: `__json` is not reset |
| `DeadSimpleRestarted` | `SimpleIsDead` | `BothSigns`: `or` becomes `and` |
| `Serves` | `EndsJson` | `EndMissed`: `final` is never set |
| `Watchdog!TypeOK` | `ThreadAtStart` | `ThreadEarly`: the thread is created before simple is killed |
| `CopiesBounded` | `Kills` | `KillsNone`: nothing found is killed |
| `RestartLeavesOne` | `Kills` | `KillsFirst`: only one pid is killed |
| `Served` | `FailureMeansYes` | `FailureMeansNo`: a failed connection is no order |

## 4. What is proved

For all values of the constants, from the named assumptions of the modules.

| Theorem | Statement | Assumed besides |
|---|---|---|
| `TourReadProofs!TypeCorrect` | `Spec => []TypeOK` | |
| `ImageIntegrity` | `Spec => []PageIntegrity` | |
| `PagesAccounted` | `Spec => []Accounting` | |
| `CopyInBounds` | `Spec => []NoOverrun` | |
| `SuccessMeansPrefix` | `Spec => []FinishedPrefix` | |
| `TransferImplemented` | `Spec => Transfers` | |
| `MainLoopProofs!TypeCorrect` | `Spec => []TypeOK` | |
| `AdapterIsExclusive` | `Spec => []AdapterExclusive` | |
| `MessagesAreRows` | `Spec => []MessagesMatchRows` | `MaxEvents <= BLOBSIZE`, no `adapterdown` |
| `EventsAreKept` | `Spec => []Custody` | `MaxEvents <= BLOBSIZE`, no `lift`, `shortread`, `lostreply`, `adapterdown` |
| `ErasedWasRead` | `Spec => ErasedOnlyRead` | no `lift`, `shortread` |
| `MarkedRowsWereSent` | `Spec => []TokMeansSent` | `MaxEvents <= BLOBSIZE`, no `lift`, `shortread`, `resend`, `unconfirmed` |
| `EventsAreAttributed` | `Spec => []Attribution` | no `lift`, `resend` |
| `RelayImplemented` | `Spec => Relays` | `MaxEvents <= BLOBSIZE`, no `lift`, `shortread`, `lostreply`, `adapterdown`, `unconfirmed` |
| `SqlitProofs!TypeCorrect` | `Spec => []TypeOK` | |
| `DatabaseStaysOpen` | `Spec => []StaysOpen` | |
| `LedgerKept` | `Spec => KeepsLedger` | |
| `SentIsStored` | `Spec => []SentIsRow` | |
| `RowsAreImages` | `Spec => []RowIsImage` | |
| `ParseDumpProofs!TypeCorrect` | `Spec => []TypeOK` | |
| `LinesAreTheDocument` | `Spec => []RowsFollowDocument` | |
| `DecodesAll` | `Spec => []Decoded` | |
| `SpoilsOne` | `Spec => []OnlyLastSpoiled` | |
| `PyGuardProofs!TypeCorrect` | `Spec => []TypeOK` | |
| `BacklogBounded` | `Spec => []Backlog` | |
| `PassedOnIsWhole` | `Spec => []WholeDocuments` | |
| `TheTwoAreInStep` | `Spec => []InStep` | |
| `WatchdogProofs!TypeCorrect` | `Spec => []TypeOK` | |
| `RestartIsClean` | `Spec => RestartLeavesOne` | |
| `CopiesAreBounded` | `Spec => []CopiesBounded` | |
| `ExchangeProofs!ExchangeTypeCorrect` | `Spec => []TypeOK` | |
| `NoDeleteForNothing` | `Spec => DeletedMeansErased` | |

The assumptions of the theorems about `MainLoop` are those without which they are false:
`loop_no_db` shows what happens without the adapter, `MCMainLoopTok.cfg` and
`MCMainLoopResend.cfg` what resends do; a blob smaller than the image is a message longer than
its row; a sensor lifted before its deletion leaves another to be erased; a reply that is lost
makes the loop drop the image of a sensor that was erased; a transfer counted as sent that was not
leaves the server with part of a row.

**TourRead.** `PageIntegrity` needs that a packet accepted in bgBUFOK is the page at `curaddr`,
which is the address test, and that nothing changes `curaddr` or `pkt` between the test
and the copy. `Accounting` is not inductive: the counter is a WORD, so the step of bgBUFOK
keeps the sum only where the counter is positive, which holds in every state that leads
there; the invariant says so. `NoOverrun` follows: what is still to be read fits behind the
address. `FinishedPrefix` adds that everything below `curaddr` has been copied since the last
reset, and that bgFINISH has the counter at 0. `Transfers` puts these together: each action is
`CopyPage`, `Rewind`, `Fail` or a stutter of `PageTransfer`; `skipped` is what a reconnect takes
from the address, so that the number of copies goes on.

**MainLoop.** `AdapterExclusive` needs `BlinkInv`: the flag is set only in m_checkserver,
m_serverError and the states reached from them without the adapter; a live thread is the
one named by `_blinkFork`, so there is one at most; with the flag clear and a thread alive
the main thread is waiting to join it. `MessagesMatchRows` needs `DbInv` (without
`adapterdown` the database is open from m_start on, so a number is given with a row) and
`MatchInv`: while m_parsedata may send, the image in memory is contained in the row `_idSyn`
names. A row's set never changes, which keeps older messages right.

Custody rests on two inductive invariants. `HeldInv`: what a sensor holds was recorded by it,
and from the header on the image, the sensor on the probe and the serial number belong together,
which `lift` would break. `WholeInv`: the image is as long as the header announced, and until the
deletion it has all that is on the sensor, which `shortread` would break. `CustodyInv` is `Custody`
with the set of sensors that lost events finite: only a crash adds to it, and one sensor. `TokInv`
says of m_parsedata that `_evt.idSyn` names the row sent and that row is the image, which a resend
would break.

`RelayImplemented` needs two more, which TLC checked first. `OnceInv`: what has a row is on no sensor
and not in the next image, and what is about to be saved is erased; so a download that is read
again after its deletion was given up is not stored twice. `SendInv`: every row announces
what it has, and m_parsedata has the whole row of its number, after a download and after a resend.
With them each action is one step of `Relay` or a stutter. `MessagesMatchRows` is weaker than `Relays`,
which run `loop` checks in its place, and is proved with fewer assumptions.

**Sqlit.** `Kept`: while no statement has failed the connection sees the file, no number is above
the last given out, no two rows share one, and the row to be filled is the last one. `Lined`: the
lines collected are those of the row that will be marked. `LedgerKept` follows case by case.
`Sendable` says that what is about to be sent is in a row of its number, or that its number has no
row and will never have one, as numbers only grow. `RowInv` adds that a number is in `saved` before
its row exists. All are inductive only until a fault: `KeptSoFar`, `SentSoFar` and `RowsSoFar` say so,
and a step after which there has been no fault had none before (`FaultsStay`). `Leaks`, behind
`DatabaseStaysOpen`, needs nothing of the kind: it holds through every fault and kill.

**ParseDump.** `Stride`: the pointer has not passed the data when a case begins and an event takes
at least three bytes, so neither the pointer nor the count of events wraps at 65536.
`LinesFit` follows the document: line and event are appended in one step with the same stamp.

`Decoded` and `OnlyLastSpoiled` are about recordings of any length and are not inductive: that the
document agrees with the recording so far says nothing of the byte under the pointer. `WalkOn`
says where the walk is. For one of the two orders a sensor may write its bytes in, the pointer
stands in the n-th record with certain parts of it still ahead (`InRecord`: date, hour, kind, body);
the parts of the stamp that are not ahead are those of the record, the kind is the one announced,
and what the n - 1 records before report has been told. Otherwise the walk is at the end
(`AtEnd`), in the image of a sensor without records (`Nothing`), or beyond what was read, with
one event behind that at most (`Beyond`); from there every byte is a
blank, which adds no event. Each case of the switch takes the walk to the next part, from a body
to the next record. What lies under the pointer is a fact about the format, not about the walk,
and is proved in `FormatProofs`: where the bytes of each record are in the memory, and what is
told when it grows.

Those facts need induction over the recording. The library's induction theorems take a predicate,
which the provers cannot instantiate; `SetInduction` has a set in its place and follows from the
library's `WFMin`, that a well-founded relation has minimal elements. A definition by recursion in
TLA+ is a choice, so `RecursiveFunction` first proves that a function with these values exists. `WalkOn`
was checked with TLC, for recordings of up to two records and 0 to 7 bytes lost, before
it was proved.

**Exchange.** `IInv` says which orders and callers go with each case of the loop (`Placed`) and how
many attempts and touches each place can have behind it (`Bounded`); it was an invariant of
TLC's runs first. `TypeOK` alone is not inductive: `is_p3` is called from five places and returns to
its caller, so the case reached depends on the pair. `NoDeleteForNothing` needs of it that the order
of a deletion is out only in m_deletep3; then an answer taken for good is the sensor's own, which
was erased, or one that was in the queue before.

**Watchdog.** `StartInv`: the dialogue thread exists only after the first kill, and a guard is started
only when the one before is stopped. `AloneInv`: while a restart has no competitor, all that is alive
is what it found, and nothing once it has killed. `CopiesInv` keeps room for every start under way:
an actor that will kill what it found leaves its place to the process it starts.

**PyGuard.** `Backlog` is not inductive: a simple that has got an answer sends again, and there must
be room. `BacklogInv` adds that whenever as much is under way as the bound allows, simple is
waiting and one of the messages is fresh, the one it waits for: taking another one leaves room,
giving up raises the bound, and no new request can come. `HandInv` says in which places the thread
holds a request, as its answer takes the request's place in the count.

`StreamInv` describes the queue and the text read so far as a stream: behind an SJS
come the lines of one document in order, whatever was given up, so a text that `json.loads`
accepts is whole. `SyncInv` is the conversation while nothing has been given up: one message under
way at most, and which, for each pair of places.

Only model-checked: the properties under fairness, which is out of the prover's reach: both
`Returns`, `CasesEnd`, `AttemptsEnd`, `BlinkingStarts`, `JoinReturns`, `DeadSimpleRestarted`, `Serves`
and `Served`. Every other property of a passing run is stated by a theorem.

## 5. What is not modelled, and why

- Text: JSON and SQL formatting, logging, conversions of dates. The properties are about which
  events, rows and lines there are.
- In the engine: opening the device, the adapter's version, the beeps of the blink thread beyond
  their use of the adapter; `p3_readtime` and `p3_pointer`, which the loop never calls; the bytes of
  the header (`EeChunk` has whether a chunk was taken).
- In the loop: m_readsettime and m_quick_srv_check, which no state leads to.
- In the database: the creation of the tables, `get_count`, functions nothing calls.
- What pyguard.py and the server say to each other: `PyGuard` has whether there was an answer.
  `json_to_prop` never returns True, so `fire_time` is not renewed by a transfer (pyguard.py 574)
  and the server is asked for the time more often than meant; nothing modelled depends on it.
- Two copies of simple at work on one pair of queues: `Watchdog` counts copies, `PyGuard` has one.
- testkill's configuration and its option `--kill`.
- A model of all processes together. `MainLoop` alone has over two million states with one
  crash; with the queues between its steps it is out of reach of TLC, and the properties are
  about one side each.
- `tcppes.c`: compiled in, never called. `lutest.sh`, the test server and the upload tools.
- Third-party and generated code: `sqlite3.c`, `json.hpp`, `SimpleIni.h`, `iniparser`, `ftd2xx.h`,
  `gcc_*.h`. They are over nine tenths of the lines in the repository; what the program itself
  does is in `engine.c`, `cser.cpp`, `sqlit.c`, `parser.c`, `pyguard.py` and `kill/`.

## 6. Running

    tlc -config MCMainLoop.cfg MCMainLoop
    tlapm MainLoopProofs.tla

## 7. What is left

1. `Lubeman`: `MainLoop` composed with `PyGuard`, `DialogueStep` replaced by the waits, to justify the
   choices `MainLoop` leaves to its environment. Its state space has to be cut first: one sensor,
   no crash, a transfer of two lines.
2. `Relay` with the parts now left out: `TokMeansSent` and `Attribution` say of marks and sensors what
   it does not.
