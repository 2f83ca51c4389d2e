# Verification of device2

`device_d` is a server that gives several clients access to measurement
instruments at the same time; `device_c` is its command-line client. This
directory holds TLA+ models of both, TLC configurations that check them on small
instances, and TLAPS proofs about every component. `PROJECT.json` lists
components, runs, the source lines behind every definition, hazards and
theorems.

    tlc -workers 2 -config Device_all.cfg MCDevice     # one run
    tlapm DeviceProofs.tla                             # the proofs of one module

## 1. The system

| component | state | operations | talks to |
|---|---|---|---|
| `Device` (device.cpp) | driver pointer `drv`, `users`, `locked`, `log_bufs`, `data_mutex`, `cmd_mutex` | use, release, close, lock, unlock, log_start/finish/get, ask | drivers; called by one thread per connection and by the listener thread |
| `DevManager` (dev_manager.cpp) | map `devices`, `conn_names`, a shared mutex | run(url) with 18 actions, conn_open, conn_close, read_conf | devices; called by HTTP threads and the SIGHUP handler |
| HTTP server (http_server.cpp) | connection counter, number of each connection | ProcessRequest, ConnFunc (opened/closed), 10 s timeout, test mode | libmicrohttpd below, DevManager above |
| `device_d` main (device_d.cpp) | pid-file, port, signal handlers | start, daemonise, --stop, --reload, signals | other device_d processes through the pid-file |
| `device_c` (device_c.cpp) | one libcurl handle | get, use_dev, use_srv, monitor, one-shot actions | the server over HTTP |
| drivers (drv_*.cpp) | file descriptor, options | constructor, write, read, ask, destructor | the instrument; ask is called under `cmd_mutex`, constructor and destructor under `data_mutex` |
| serial ports (below drv_serial.cpp) | termios settings, which outlive the driver | `set_opt`, `tcsetattr` | drv_serial, derived drivers, device_ping and whatever else opens the port |
| hm310t driver | cached decimal points | Modbus transactions | power supply through drv_serial |
| driver factory (drv.cpp) | none | `Driver::create` | constructors of drivers |
| device_ping | none | opens a driver without the server, asks once | the port of a device |
| tunnel, Tcl library, libraries | none of their own | | |

What is hard to test in it:

* **Concurrency.** Every connection has a thread; conn_close runs in the
  listener thread, SIGHUP in the main thread. `use()`, `lock()` and `ask()` read
  members before they take `data_mutex`; `ask()` uses the driver under another
  mutex than `close()`; walks through `devices` and `conn_names` take none.
* **Failure.** Clients vanish, idle connections are closed after 10 s, drivers
  throw while being opened and leave descriptors behind, programs do not end,
  the device list has errors, the server is killed, a pid-file is empty or belongs
  to another user.
* **State outside the program.** A serial port keeps the settings of whoever used
  it last; descriptors are numbers that are used again.
* **Knowing of an end.** The listener sleeps until a connection comes in: what a
  client that has gone held is given back only then (Readme.md:132-136).
* **Ordering.** Late answers of instruments, a reconnection between two requests
  of one session, two servers that start at once.

`PROJECT.json` lists these as hazards, each with its line and the properties that
cover it.

## 2. Modules and how they correspond to the code

| module | models | atomicity |
|---|---|---|
| `Device` | class Device, connection threads, the listener | a step per unlocked read, per acquisition of a mutex, per critical section; `close()` is two steps |
| `DeviceSharing` | who uses a device and who may lock it: what `Device`, `DevManager` and `Client` have in common | one step per change |
| `DeviceContract` | `DeviceSharing` and the driver: what a device promises | one step per change |
| `DevManager` | device map, connection names, reload, SIGHUP | a step per acquisition, per device of a walk, name check and name assignment apart |
| `Daemon` | main of device_d: processes of several users around a pid-file and a port | a step per system call that others see |
| `Client` | several device_c runs against one device | a step per request; `use()` and `lock()` in the pieces that races need |
| `QueryDriver` | ask/read/write of net, usbtmc, gpib, vxi, serial, spp drivers and the instrument | a step per system call, per piece of an answer |
| `Hm310t` | the Modbus driver: commands of one or two transactions, and the supply | a step per request, per half of a response |
| `Opening` | constructors and destructors of all drivers, descriptors of the server, one serial port | a step per constructor or destructor, more where it waits for a program or an instrument |
| `SerialPort` | the settings of a port and the options of every serial driver | pure operators, used by `Opening` |
| `DeviceProofs`, `DevManagerProofs`, `DaemonProofs`, `ClientProofs`, `QueryDriverProofs`, `Hm310tProofs`, `OpeningProofs` | theorems about the module of that name | |
| `QueryOrderProofs` | more about `QueryDriver`: the order of answers after an ask was given up | |

`MC*` modules only give values to constants. Definitions keep the names of
methods where they can. A definition `X_Y` with the comment "Mutant:" is a
deliberately wrong variant of `X`; it is not used by any specification and shows
that a property notices that mistake.

**Device.** `drv` is a Boolean (null or not); a driver's own state is in
`QueryDriver`. `pc[c]` is where the thread of connection `c` is, `act[c]` the
request it serves. Reading `users` without the mutex while the holder changes it
is a data race: `Counts` lets the search miss the connection, `LogRace` lets the
walk of `log_message` hit freed memory (`Crash`). `dangling` are the threads
inside a driver that `close()` has destroyed. A connection number is used once,
as `cmax++` does. `conn_close` is the listener's: only one at a time, and nothing
is accepted meanwhile. libmicrohttpd is started with a thread for each connection
and, outside `--test`, without MHD_USE_ITC, so nothing wakes the listener for an
end: a connection that has `ended` may be closed at any time, and becomes `due` when
the next one is accepted. `print()` only reads and is left out.

**DevManager.** One device changes here by the steps of `DeviceSharing`, which it
and `Device` are proved to implement; `lock()` is two of them, as in `Device`. `stale` marks threads that hold an iterator or a
reference into a map that has been replaced. `parse_url` is reduced to its
result, the device list to "correct, with these devices" or "faulty".

**Daemon.** Process numbers are used once. A file is known by the process that
created it: `pidfile` is the file that has the name of the pid-file now, `text` what is
in it, `out[p]` the file behind the stream that p opened. A start writes its
number to `out[p]`, even if somebody else has removed or opened that file since. A file
without a number (`Empty`, `Mixed`) leaves `pid` of main without a value: the start
may find a process or none (`Check`), a command reads any number (`StopRead`), that
of a device_d or `Outside`. `Rules(p, q)`: p may signal q and write its file (same user, or root).
`kill(pid, 0)` of a start that may not signal goes the way of a process that is gone, as in main;
`--stop` tells the errors apart (`KillSent`, `KillRefused`, `KillNoProcess`). Of the environment it is
assumed that pid-files can be read by everybody and written by their owner and root (umask 022), and
that writing to a file that could be opened succeeds. A directory may keep a user from
removing somebody else's file (`Unlink`). A number that names a group or the caller itself, such as
0 or -1, only sends signals that `ExternalSignal` sends too. `mypid` is the variable that
main tests before it removes the pid-file. `Die` is SIGKILL or a power cut.

**Client.** A connection is `<<c, k>>`, the k-th of client `c`. libcurl
keeps the connection between requests, makes a new one when it is gone
(`Connect`), and sends again what it sent over a dead one (`Resend`). `Timeout`
happens only while an interactive client waits for input: the other waits are
shorter than 10 s (`monitor` sleeps 0.1 s). A server step and the request that
causes it are one step, because nothing that others do between them matters; a
request that is under way when the server dies is either lost or sent again. `ended` are
the connections that the server has still to close, `due` those of them that the listener has
been woken after, by any new connection.

**QueryDriver.** A piece of an answer carries, for the properties only, the
number of the ask that it answers; the drivers never look at it. The kinds differ
in how an answer ends: one `recv`/`read` for net and plain serial, EOI for gpib
and vxi, the status byte for usbtmc, ack/nack for serial with `-ack_str`, `#OK` for spp.
Plain network and serial answers are assumed to arrive in one piece: there is no
end mark by which the driver could tell. `Suits` excludes options
with which the driver leaves answers unread on purpose.

**Hm310t.** `done` records what finished transactions say of the registers.
A response arrives in two halves; one read takes whatever is in the buffer. The
checksum of responses is not examined by the code, so pieces of two responses can
pass for one (`ReadMixed`). Decimal numbers are left out; the power limit is a
number of two words (`High`, `Low`), as `write_pwr` splits it. `reading` is the number that a
command returns: the word itself, or what `read_pwr` makes of two words, `H << (16+L)`
(`PowerNumbers`; C++ leaves the order of its two reads and a shift by 32 and more open).

**Opening.** `Device` knows only whether there is a driver. Here every device has
one of the drivers of `Driver::create`; its constructor takes the lowest free
descriptor (each address that drv_net tries takes one), can fail before
(`Refuse`) or after that (`OpenFails`, `OpenSerialFails`), and a constructor that
throws runs no destructor of its own class. `fd[d]` is the number that the object
holds, `fds[n]` who the system has given it to; the two differ when a descriptor
is lost or closed twice. The filter of an SPP program is closed in three steps:
end of input, SIGTERM after `-close_timeout`, `waitpid`. A pipe counts as one descriptor;
IOFilter, which gets only one of its two pipes or no process, loses what it has (`OpenSppFails`).
`Complete` says that
drv_net_gpib_prologix cannot be opened. `Ping` is device_ping, `Replug` a new
adapter; both change the port while a driver may have it open.

**SerialPort.** The options of a driver are a function from names to values, as
`Opt` is; `serial_simple` and the others are what `add_opts` puts.
`Configured(o, p)` goes through the settings in the order of the constructor.
`ReadEnds` and `Transparent` are termios(3): when a read returns although nothing
comes, and when bytes pass unchanged and no others appear. Of the flags those are kept on which the two
depend: besides opost, icanon, isig, echo, ixon and parity these are icrnl, inlcr, igncr, iuclc, istrip and
parmrk.

## 3. Runs

| run | instance | question | result |
|---|---|---|---|
| device_all | 2 connections, all requests, log of 3 | mutexes, users and lock consistent, nothing left of ended connections, logs not mixed, `DeviceContract` implemented | holds |
| device_live | 2 connections, no close, fair | every request answered, every connection that the listener knows to have ended released, driver outlives ask, lock only for the lone user | holds |
| device_join | as above | "If device is locked other connections can not use it" (device.h) | violated |
| device_askclose | with close | "without collisions. All needed lockings are done by the server" (Readme) | violated |
| manager_all | 2 connections, 1 device, 1 edit of the file, all requests, fair | names and users belong to live connections, requests work on current devices, nothing survives a reload, reloads and conn_close get through | holds |
| manager_sighup | use, lock, reload | a faulty file leaves the server running (Readme) | violated |
| daemon_all | 3 processes, 2 users, fair | server found through its pid-file, pid-file removed, --stop returns | holds |
| client_all | 2 clients, 1 reconnection each, fair | locked sessions, what clients leave behind, monitors | holds |
| driver_all | 8 kinds of driver, 3 asks, fair | answers belong to their asks, asks return | holds |
| hm310t_all | opening and 4 commands | confirmed settings are real, readings are of the right register, a limit of two words is never mixed unless setting it failed | holds |
| opening_all | every serial driver next to another device, every pair of other drivers, 1 connection, fair | descriptors have one owner, reads end whatever the port was set to, opening and closing end | holds |
| opening_binary | hm310t on one port | "The device uses binary modbus protocol" (drv_serial_hm310t.h) | violated |

**What the violations show.**

* *device_join*: c1 passes the test `if (locked)` in `use()`, c2 uses and locks the
  device, c1 gets `data_mutex` and becomes a user. The lock has two users, and
  ends when either of them releases.
* *device_askclose*: `close()` resets `drv` under `data_mutex`; `ask()` has passed
  its membership test and calls `drv->ask()` under `cmd_mutex` only.
* *manager_sighup*: `ReloadFunc` lets the exception of `read_conf` out of the signal
  handler; main ends.
* *opening_binary*: drv_serial_hm310t does not put `icrnl`, `inlcr`, `igncr`, `iuclc`, `istrip` or
  `parmrk`, and drv_serial changes only what is put. On a new Linux port ICRNL is on,
  so a byte 13 of a response is read as 10; after drv_serial_vs_ld or
  _jds6600 (`igncr`) it disappears and the response is too short.

**Conditions in the properties that hold.** Each excludes one
known behaviour, recorded by a history variable and still explored:

* `ServerFound` holds while commands are given one after another, by users who may signal
  what runs (`careless`). Two servers starting at once can leave a running server
  without a pid-file, and so can another user (section 5). `CleanExit` holds whatever races,
  as long as nobody is killed (`unclean`).
* `EndedReleased`, `EndedClosed` and `LetGo` are about connections that the listener has been
  woken for. Before the next connection comes in a finished client keeps
  its lock, name and device, as Readme.md:132-136 says.
* `InSync` and `NoLeftover` (`gaveup`) and `ReadsOwn` (`clean`): no older answer is
  on its way. `ReadsOwn` is about the words of every reading, and about its number, which for `opp?`
  (it stands for `pwr:meas?` too) is claimed only if the low word is 0: `read_pwr` spoils every
  other (section 5). `WriteConfirmed` needs no such condition, because function 6 repeats the request.
* `LockKept` (`undone`): no restart, 10 s of silence, close, reload, or join in the
  window that device_join shows.
* `ReloadDone`: requests do not overlap for ever. Readers are preferred.
  `EndedClosed`: the map is not replaced for ever. Both speak of the server as a
  whole: some waiting reload and some ended connection make progress.
* `LimitWhole` (`torn`): no `opp` command has failed since the last one that
  succeeded. The second of its two transactions can fail after the first was
  carried out.
* `DescriptorsOwned` (`left`, `twice`): no constructor of drv_usbtmc or drv_serial has thrown
  after `open`, drv_net has not tried several addresses, IOFilter (drv_spp) has not failed with a pipe in its hands; no filter has closed
  the descriptor of somebody else. These faults are the code's own; the property says that the other drivers have none: those with `try`
  (gpib, spp), those with members that clean up (vxi) and the destruction of the
  base object of hm310t give everything back. A device that has lost a descriptor once is left out from
  then on.
* `ReadTimesOut` (`conf`): nobody has configured the port since the driver did. It is
  about the derived drivers; with `serial` the user may ask for blocking reads.

What is left without these conditions is proved in section 4.

**Bounds.** Every conflict in `device.cpp` is between two threads, one inside
a critical section and one that read before it, so two connections exhibit it; a
connection may send any number of requests. The proofs remove the bound.
`MaxLogSize` 3 lets a buffer drop half a conversation. One device suffices for the manager, which
never relates two; one edit gives a good and a bad file. Three processes are two servers
and a command, or a parent, its child and a command; of two users one may signal everybody
and the other only himself. Two connections for each
client are a session before and after a reconnection. Three asks are one that
is given up, one that gets its answer, and one after that. Four commands of
Hm310t are two that are given up and two that find their echoes; six commands
were also explored once. Opening needs two devices, because a descriptor that one loses is noticed when the
other gets its number, and `MaxFds` 3 lets both and a connection hold one or exhausts them by two leaks;
`MaxAddrs` 2 is one address that fails and one that works. Two serial devices are not
combined: the second would act on the port only as `Ping` does, which
runs every serial driver with every choice of options, and which nothing
distinguishes from another device of the server. Without a serial driver the port
plays no role (`UsesPort`). The options of `serial` in the instance are the ASM340 example of
Readme.md, one with parity, a line-by-line terminal (which leaves parity alone and marks bytes) and one that waits for a byte: every
flag is changed by some driver, most of them in both directions.
`MaxEdits`, `MaxAsks`, `MaxCmds`, `MaxConns`, `MaxFds` and `MaxAddrs` are bounds in
the modules. Connections are interchangeable in `Device`; symmetry is used only
in runs without liveness. client_all uses the actions and lines that
differ in what they hold: `use_dev` is a part of `use_srv`, `close` acts on the device as
`reload` does.

**Fairness.** Weak fairness for the steps of a thread or process: they run, and
reads of drivers have timeouts. Strong fairness for getting a mutex or the
listener: a client sends its next request only after a round trip over the
network, so a mutex that others take again and again is also free again and
again, and the scheduler does not miss the waiting thread each time. In
`DevManager` it is stated for the waiting reloads and the ended connections
together: some of them is served. A `conn_close` is fair only for a
connection that is `due` (section 2), and in `--test`, where MHD_USE_ITC wakes the listener, for any that has ended.
In `Daemon` the steps of a process are fair; that a program which is no device_d ends (`OutsideEnds`) is not. In `Opening` the steps of a constructor or destructor are fair
(every one waits with a timeout: a greeting that goes on for ever is not
assumed), and a program that has got SIGTERM ends. Nothing makes a
user type, a client connect or a server restart; those actions are not fair.

## 4. Proofs

Every safety property of section 3 that holds is a theorem about `Spec`, for every value
of the constants. The argument is the same everywhere: `IInv`, at the end of each
module, is an inductive invariant (`InitIInv`, one lemma for each group of actions,
`NextIInv`, `IInvHolds`), and the promised property follows from it. Each `IInv`
was model-checked on instances of section 3 before it was proved. A bound in a
module (`MaxAsks`, ...) is a constant in the theorems, so they hold however
large it is.

A second kind of theorem says what remains true in the situations that the
conditions of section 3 exclude:

| without the condition | remains true |
|---|---|
| no `close`, no recording (the findings device_askclose and `LogRace`) | nothing else makes a thread of `Device` crash (`QuietServerNeverCrashes`) |
| `careless` | no pid-file is left when everybody has returned (`ExitIsClean`), and one server runs at a time (`OneServer`) |
| `undone` | a locked device has a user (`LockHasUserHolds`, `LocksHaveUsers`) |
| `gaveup` | answers are returned in the order of the asks, each once, none ahead of its ask (`AnswersInOrder`, `NoAnswerAhead`) |
| `torn`, `clean` | every register holds a word meant for it (`RegistersAreCommanded`) |
| the port was clean (the finding opening_binary) | hm310t resets every harmful setting but six (`BinaryInherits`) |

**DeviceProofs**: `TypeCorrect`, `MutexesSafe`, `UsersServed`, `LockCanEnd`,
`NothingLeftBehind`, `OwnTrafficKept`; `ContractKept` (`Device` implements
`DeviceContract` with `open <- drv`) and from it `SharingKept`; `LogsInOrder`.

* `IInv` adds two facts to the promised ones. `ThreadOfConn` ties a
  thread to the life cycle of its connection: without it a thread of a connection
  that is gone could become a user. `ClosingEmpty` says that between the two
  halves of `close()` there are no users and no lock: without it `InUseOpen` is lost
  when the driver is reset.
* `LogInv` says that the last entry of a buffer is an open command exactly while
  the conversation lasts; its steps rest on `AppendAlternates`, that appending
  and cutting from the left keep the alternation.
* `DriverOutlivesAsk` and `LockForOnlyUser` are about servers whose clients send no
  `close` (`"close" \notin Requests`, as in device_live). `NoCloseInv` remembers
  the memberships that threads have seen.
* `TestModeNeverCrashes` and `TestModeLockExcludes` are about `device_d --test`
  (`TestMode`). They state of it what device_askclose and device_join refute for
  the normal mode: with one connection at a time every test made without a mutex still holds
  when the mutex is taken, even with `close` (`TestModeInv`). So device_d.test2 to test4,
  which run the server with `--test`, cannot show these two mistakes.
* `QuietServerNeverCrashes` is about the normal mode, with clients that send neither
  `close` nor `log_start`: there is no third way to a freed object.

**DevManagerProofs**: `TypeCorrect`, `RequestsOnCurrent`, `NothingCarriedOver`,
`NothingLeftBehind`, `DefaultNamesKept`, and `OpeningNeverThrows`: `conn_open`, which
cannot report an error, never meets a taken name. `DevicesKeepContract`: each device
by itself implements `DeviceSharing`, with `users[n]` and `locked[n]`; a reload is `Drop`.

* `Exclusion` is the shared mutex; with `StaleWalks` it says that a replaced map is
  only ever seen by walks. `OpsOnCurrent` needs both.
* `Walked` makes `NoGhosts` inductive: `conn_close` has released every device but
  those still before it, or the map was replaced under it and has no users at all.
* `NamesOwned`: a name, assigned or about to be, was chosen by a client or is the
  default name of its own connection. The two never meet (`NamesDiffer`), because
  `set_conn_name` refuses names that begin with `#`.
* `LocksHaveUsers` is proved of `DeviceSharing` alone (`LockHasUser` there) and holds of
  every device because of `DevicesKeepContract`.

**DaemonProofs**: `TypeCorrect`, `ServerIsFound`, `ExitIsClean`, `OneServer`, for any
number of processes and users.

* `FileHasOwner`: the process that created the pid-file will write it or remove it, until one is
  ended before it could; others may have opened, overwritten or replaced it.
  `CleanExit` follows when nobody is alive.
* `OneByOne`: while commands are given one after another by users who may signal what runs, only one starts
  or signals (`OneCommand`), the file names its owner (`OwnerNamed`), nobody who is about to
  replace or remove a file coexists with a process that owns it (`NoneReplaced`), and `--stop` has
  read the right number (`RightTarget`).
* `PortHeld` gives `OneServer` without any condition.
* `CommandsReachServers`, for the same commands and when nobody was killed: the number that `--stop` and
  `--reload` have read is that of a server that has written the pid-file and installed
  its handlers, so a reload does not end it and nobody else is signalled. Both conditions are needed: with
  races a number can be written over another, and after a crash between creating and writing
  the file is empty; a command then signals whatever number is in its memory. That the system gives a number to a
  new program is outside the model (process numbers are used once).
* `ServerIsFound` does not need the second condition: a crash leaves a file, and the next start
  removes it before it writes its own.

**ClientProofs**: `TypeCorrect`, `LocksAreKept`, `NothingStays`, for any number of clients
and reconnections, and `DeviceKeepsContract`: the device of that module implements
`DeviceSharing`, too. So the three modules agree on what a device does; that a
device of `DevManager` or `Client` shows *every* behaviour of `Device` is not proved.

* `Script` says where in its sequence of requests a client can be, `Links` that only
  its last connection can be alive and that there is a number left for the next one.
* `Holds` carries the lock: a client that locks and was not undone is a user
  from the answer to `use` on, and the only one from the answer to `lock` on.
  `lock()` grants it by counting; `users` is finite, so one user is that user.
* `LocksExclude` follows: two locked sessions that nothing has undone would each be the
  only user. `LockHasUserHolds` comes from `DeviceKeepsContract`.

**QueryDriverProofs**: `TypeCorrect`, `AnswersInSync`, `NothingLeft`, for every kind of
driver, any messages and any number of asks.

* `OwnAnswer`: what is on the way while an answer is read is this answer and only its
  end can be missing; `Status` adds for usbtmc what the status byte says. `NoneToCome`:
  between two asks no message in the queue of the instrument will be answered.
* A read takes the pieces up to the first that ends a message (`FirstMessage`). That
  there is a first one comes from the library's theorem on well-founded orders
  (`Least`), which needs no induction over the queue.

**QueryOrderProofs**: `AnswersInOrder`, `NoAnswerAhead`, without `gaveup`. A driver that is out
of step is late, but it does not lose the order.

* `Sorted`: what was read, what is in the buffer and what the instrument has to do are
  one queue, in which the end of an answer separates asks. `AllSent`: none of it is newer
  than the current ask.
* `Past(n)`, that nothing of ask n or an older one is to come, is true once the end of
  answer n is returned and is never lost again (`Kept`); so the theorem can speak of all
  later steps, `[](Delivered(n) => [][ReturnsLater(n)]_vars)`.

**Hm310tProofs**: `TypeCorrect`, `WritesConfirmed`, `ReadsAreOwn`, `LimitIsWhole`.

* `Planned` is what every command has done and has to do; `Answering`, that what the
  supply said last is what it did last.
* `StillWritten` is why an echo, even of an older command, confirms a value: a
  register whose echo was accepted is not written again without a new echo in the buffer.
* `OwnOnly` (nothing but the own request and its response, if the command began
  so) gives `ReadsOwn`; `PairsInOrder` gives `LimitWhole`.
* `RegistersAreCommanded` needs neither: every write on its way to the supply is one that a command
  makes (`CommandedInv`), and `Planned` says so of the next one. A mixed limit is the only
  wrong state that errors can leave in the supply.

**OpeningProofs**: `TypeCorrect`, `NothingLeaks`, `DerivedReadsEnd`, for any number of
devices, connections, descriptors and addresses, and any configurations.

* `OwnsWhatItHolds` is the other direction of `DescriptorsOwned`: the system's table
  has no number for a driver but the one that it holds. Without it a destructor could
  leave one behind. `LifeCycle` says which kinds can be where.
* `LastOneReads` is about whoever configured the port last, open or not, because the
  settings outlive the driver. It rests on `ConfiguredOK` (what a constructor does
  to `vmin` and `vtime` of any port) and `DerivedOptions` (what each `add_opts` puts,
  whatever the user gives).
* `DerivedPortsRaw`: the same of raw mode, echo, signals and parity, from `RawFlags` and
  `DerivedRawOptions`. `BinaryInherits` explains opening_binary: after the constructor
  of hm310t the port is `Transparent` exactly if the last user left it
  without the six `Inherited` flags (`BinaryFlags`).

**Assumptions on constants**, named in the modules; TLC evaluates them in every run.
Markers for "none" differ from what they stand beside (`NoConn`, `Nobody`,
`NoFile`, `Empty`, `Mixed`, `Outside`), and `Root` is a user; enumerated inputs are among those that the code knows
(`Requests`, `Messages`, `Acts`, `Lists`); bounds are numbers, positive where there must be
one (`MaxLogSize`, `MaxConns`, `MaxAddrs`). `VminAssumption` of `Opening`: a `vmin`
that the user sets fits a byte of termios.

**Only model-checked**: liveness (`Answered`, `EndedReleased`, `ReloadDone`,
`EndedClosed`, `StopReturns`, `LetGo`, `MonitorStops`, `AskReturns`, `OpeningEnds`),
which needs fairness and ENABLED, outside TLAPS; and the violations, which are
behaviours of an instance.

## 5. Disagreements seen in the code that have no run

The first five contradict a text of the repository and are reachable in the
models; the properties next to them say what is left.

* `lock()` tests the membership before it takes `data_mutex` and under it only `users.size()`: if another
  connection sends `close` and uses the device in between, the lock is granted to a connection that is not a user,
  against device.h:86. `LockTakenByOnlyUser` is checked and proved without `close`; with it `Contract` says
  only that the device has one user when the lock is taken.
* A user of a locked device can be told that the device is locked: the search for its number in `users`, without
  the mutex, can miss it while another connection is inserted (`InUseOpen` survives this).
* `set_conn_name` looks for a name and assigns it in two steps without a mutex, so two connections can get one
  name; Readme.md:109 calls the names unique.
* A start by another user than the server's gets EPERM from `kill(pid, 0)` (device_d.cpp:186-188) and takes the
  pid-file for an old one. Where it may, it removes it and writes its own; the running server is not found by
  `--stop` any more (`careless` of `Daemon`).
* `read_pwr` of drv_serial_hm310t computes `H<<16 + L`, a shift by `16 + L`: the answers to `opp?` and
  `pwr:meas?` are wrong for every low word but 0 (`PowerNumbers`). The header says that they do not work.

Further:

* `release()` never closes the driver; device.h and Readme.md say the device is
  closed if nobody else uses it.
* Walks of conn_close, release_all, list over `devices` race with a reload;
  `list_conn_names` races with conn_close (`Crash`, `StaleWalk` of `DevManager`).
* `log_message` walks through `log_bufs` without `data_mutex` (`LogRace`).
* `use_dev --lock` loses lock and name after 10 s without a line and goes on
  without notice (`Timeout` of `Client`). Readme.md names only a restart as a cause.
* A start or a command that finds an empty pid-file uses a number that was never set; two starts
  at once can write over each other's file. A pid-file that cannot be opened for
  writing is an error only after the daemon has forked.
* Two reloads at the same time read the file without the mutex and can apply in either order.
* The parent of a daemon returns before the pid-file exists; device_d.test1 relies
  on the pid-file right after.
* `use_dev` returns 0 when opening or locking failed, prints nothing for an
  error with an empty text, and does not protect answer lines that begin with `#`.
* drv_spp compares `*idn?` the wrong way round: with `-idn` only `*idn?` reaches the
  program (`Overridden`).
* drv_net returns an empty answer as success when the connection has ended.
* `qmark1w` compares the positions of `?` and the first space: a query with a leading space is
  not read.
* drv_vxi: a missing comma joins two option names, so both are refused.
* drv_net_gpib_prologix removes `-addr` from the options that Driver_net needs, so
  it cannot be opened; it also writes the member `addr` before it is constructed.
* After a read timeout drv_net and drv_serial keep the connection and discard
  nothing: a late answer is returned to the next ask, and from then on every answer
  is one behind (`gaveup` of `QueryDriver`).
* An `Err` after `open` in drv_usbtmc and drv_serial, and every address that
  drv_net fails to reach, loses a descriptor; clients that try again and again can
  exhaust them. IOFilter loses a pipe when its second `pipe()` fails, both when `fork()` does. All reachable in `Opening`.
* drv_spp closes the input of its program twice; between the two the number can
  have become another device or a connection (`twice`). The last wait for the
  program has no time limit: one that ignores SIGTERM keeps `data_mutex` for ever.
* drv_serial_l300 and _jds6600 do not put `-ndelay 0` and are non-blocking, as is
  drv_serial by default: `-timeout` has no effect on them, and an answer that is
  not there yet is an empty answer. drv_serial_jds6600 puts `onlcr` but not `opost`,
  without which it does nothing.
* drv_serial_simple documents `-idn` and refuses it. l300 and vs_ld accept `-sfc`
  and overwrite it.
* Readme.md:603 lists parity 7N1, the code knows 7E1; its 7S1 is 8N1. Readme.md:606
  says that canonical input sets isig and raw leaves it: the code does the opposite.
* `device_c --name` is declared without an argument.
* `device_c --via` with `--server` connects to the local port of the tunnel on the
  remote host: `create_tunnel` returns the server's name with the local port.
* hm310t `write_pwr` that fails half way leaves a mixed limit. Voltages are cut off, not
  rounded, to register units.

## 6. Not modelled

* HTTP parsing, libmicrohttpd and libcurl themselves: external, by their effect.
* Settings of drivers that only have to fit the instrument: baud rates, character
  sizes, delays, GPIB and VXI settings; texts of messages, log levels.
* `read`, `write`, `ask` and the bus selection of drv_net_gpib_prologix: its
  constructor always fails, so they are never called.
* The ssh tunnel: one `system()` before the first request. The Tcl library: the
  same requests as device_c over one connection. Vendored libraries, except for what
  `IOFilter` does to descriptors and programs.
* The Modbus checksum and decimal conversion: bit and floating-point arithmetic
  that unit tests reach better.

## 7. Plan

1. Done: the models of section 2; every safety property of a run proved; the three
   modules with a device proved to agree on its contract; what remains true without
   the conditions of section 3.
2. Next models: the line protocol of drv_spp as pure operators, checked against a
   reference definition over short inputs; two numbers of processes that are the same, as
   after a long time, for `Daemon`.
