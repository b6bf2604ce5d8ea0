# TLA+ models of ser2net

This directory holds TLA+ models of the ser2net serial-to-network proxy in
`src/`, and the TLC configurations that check them. `PROJECT.json` lists the
components, the runs, the mutants that show each property can fail, the map
from every definition to the source lines it models, the findings and the
hazards.

## 1. The system

ser2net is one process with one event loop, the selector. Every handler runs
to completion. The exception is `wait_for_waiter`, which runs the loop
*nested*, so other handlers can run while a handler waits. The `LOCK` macros
only matter in threaded builds. The parts of the system, and the state each
one keeps:

| Part | Source | State | Operations |
|---|---|---|---|
| Port life cycle | `dataxfer.c` | ports list; per port `enabled` (off/raw/rawlp/telnet), `acceptfds`, `tcpfd`, `tcp_to_dev_state`, `dev_to_tcp_state` (unconnected / waiting input / waiting output / closing), `config_num` (-1 = delete when idle), `new_config` | `portconfig`, `clear_old_port_config`, `startup_port`, `change_port_state`, `handle_accept_port_read`, `handle_port_accept`, `setup_tcp_port`, `shutdown_port`, `port_tcp_fd_cleared`, `shutdown_port2`, `handle_dev_fd_close_write`, `finish_shutdown_port`, `switchout_port`, `shutdown_ports` |
| Rotator | `dataxfer.c` | `portv`, `curr_port`, its own listening sockets | `add_rotator`, `handle_rot_port_read` (round robin with `is_port_free`), `free_rotator` |
| Device→TCP path | `dataxfer.c` | `dev_to_tcp` buffer (cursize, pos), chardelay send timer, `send_time`, closeon match position | `handle_dev_fd_read`, `handle_tcp_send`, `send_timeout`, `handle_tcp_fd_write`, `tcp_fd_write` |
| TCP→device path | `dataxfer.c` | `tcp_to_dev` buffer, telnet parser, banner and devstr buffers | `handle_tcp_fd_read`, `dev_fd_write`, `handle_tcp_fd_except` (urgent data), banner/devstr writers |
| Activity timer | `dataxfer.c` | `timeout_left`, last modem state | `got_timeout`, `reset_timer`, `setporttimeout` |
| Telnet / RFC 2217 | `dataxfer.c` | telnet option state, `is_2217`, line and modem state masks | `com_port_will`, `com_port_handler`, `telnet_cmd_handler`, `telnet_output_ready` |
| Template expander | `dataxfer.c` | none (pure) | `process_str`, `process_str_to_str`, `process_str_to_buf` |
| Tracing | `dataxfer.c` | `tr`/`tw`/`tb` trace files, which may alias | `setup_trace`, `do_trace`, `hf_out`, header/footer |
| Monitoring | `dataxfer.c`, `controller.c` | `tcp_monitor`, `dev_monitor` | `data_monitor_start`, `data_monitor_stop` |
| Control port | `controller.c` | sessions (at most 4), per-session line buffer and output buffer | `controller_new_connection`, `controller_read`, `process_input_line`, `controller_output`, `controller_write_ready`, `controller_close_done` |
| Device settings queue | `genio/sergenio_termios.c` | deferred operation queue, `deferred_op_pending`, close-drain timer | `termios_set_get`, `sterm_deferred_op`, `termios_process`, `sterm_check_close_drain`, `sterm_sub_open` |

How the parts interact:
- A client reaches a port through the port's own listening sockets or through
  a rotator.
- The port's two half-duplex paths move the data.
- Any handler that meets an error, end of file, a timeout or the closeon
  string calls `shutdown_port`. The shutdown then hops over callbacks:
  - `port_tcp_fd_cleared`;
  - then `shutdown_port2` on the `runshutdown` runner;
  - then, if the port has a close string, the device write handler
    `handle_dev_fd_close_write`;
  - finally `finish_shutdown_port`. This handler frees a port marked for
    deletion, or installs a pending `new_config` with `switchout_port`.
- The control port reads commands that act on ports (`setportenable`,
  `disconnect`, `monitor`, `setporttimeout`, ...).
- A configuration reread calls `portconfig` for every port in the file, then
  `clear_old_port_config`.

### What is hard, and what must hold

- **Device exclusivity.** Two listen specs may name one device, and the
  rotator hands clients to ports. A device must have at most one session,
  whichever of direct accept, rotator accept and kick-old-user got there.
- **Teardown ordering.** A port is freed or replaced only after its session
  has ended. `portconfig` and `clear_old_port_config` test
  `dev_to_tcp_state`, which `finish_shutdown_port` clears last.
- **Shutdown completes.** Every started shutdown reaches
  `finish_shutdown_port`.
- **Clients are answered.** Under kick-old-user the accept handler returns
  without accepting and relies on being called again.
- **Reconfiguration.** The settings of a reread configuration, and
  `setportenable`, take effect.
- **Batching.** The chardelay path accumulates bytes, doubles IACs, scans
  for closeon, traces, and sends after a timer. Each byte must go out once,
  in order, with IACs doubled exactly once.
- **Timers.** The activity timer is reset by relayed traffic. The send timer
  races with short writes.
- **Control port.** The session limit holds. Monitor start and stop
  terminate.
- **Device settings.** The termios operation queue runs every operation
  once, in order.

## 2. Modules and runs

### PortLifecycle.tla: port life cycle and rotator dispatch

**State.** The state is a function over `Ports` for each of the following.
Each is named after its field:
- `present` (the port is in the `ports` list);
- `enabled`;
- `listening` (`acceptfds != NULL`);
- `t2d`/`d2t` (the two connection states);
- `sockOpen` (`tcpfd != -1`);
- `deleted` (`config_num == -1`);
- `newcfg` (the enable state of `new_config`);
- `backlog` (a client is waiting on the listening socket);
- `phase`, which records which callback of the shutdown chain is pending.

Three further variables:
- `rotBacklog` and `rotCur` model the rotator.
- `wanted` is a ghost variable holding the enable state that was last asked
  for.
- `exiting` records that `shutdown_ports` has run.

The data bytes are not modelled: a connected port is in "waiting input" on
both halves until its shutdown starts. The data paths are separate modules of
the plan.

**Actions.** There is one action per handler:
- `HandleAcceptPortRead`, made of three branches: kick, reject, accept;
- `RotAccept`;
- `SessionEnd`, which covers every data-path handler that calls
  `shutdown_port`;
- `TcpFdCleared`;
- `ShutdownPort2`;
- `CloseWriteDone`;
- `FinishShutdown`, which includes `switchout_port` and `change_port_state`;
- `PortConfig`;
- `ClearOldPort`;
- `SetPortEnable`;
- `Disconnect`;
- `ShutdownPorts`, the program-exit step. It marks every listed port
  `config_num = -1`, disables it and calls `shutdown_port` on it, idle ports
  included.

After `ShutdownPorts` no configuration is read: the code says "nothing can
reconfigure the port list at this point". `setportenable` is still possible,
but `find_port_by_num` refuses every port, because all of them are now
deleted. `disconnect` and the rotator keep working.
`check_ports_shutdown` is the exit test: the port list is empty.

The environment adds clients with `ClientConnect` and `RotClientConnect`.

**Split at waits.** Handlers are split at their `wait_for_waiter` calls. In
`finish_shutdown_port` and `shutdown_port2` the waits come before every state
change, so each phase is one atomic step.

**Taken as atomic.** The nested waits of `redo_port_handlers` and of the
accept-socket close loop in `change_port_state` are taken as atomic. This is
listed as a hazard.

**Configuration rereads.** A reread is modelled per port: `PortConfig(p, m)`
for a port named in the file, and `ClearOldPort(p)` for a port dropped from
it. This admits interleavings that a single reread would not produce, so it
over-approximates.

**Outcomes left open.** `setup_tcp_port`, `startup_port` and the socket
options can fail. Their outcome is a nondeterministic choice.

**MC module.** `MCPortLifecycle.tla` has three ports:
- `p1` and `p2` share device `d1`;
- `p3` is on device `d2`;
- `p1` kicks old users;
- `p2` has a close string;
- the rotator serves `p2`, and `p3` in the three-port run.

The initial states enumerate every configuration of present ports and enable
modes.

| Run | cfg | Checks | Result |
|---|---|---|---|
| `lifecycle_safety` | `PortLifecycle.cfg` | `TypeOK`, `DeviceExclusive`, `SessionEndsOnlyByShutdown` | pass, 276 k distinct states (VIEW `ControlView` drops the ghost), ~30 s |
| `lifecycle_liveness` | `PortLifecycleLive.cfg` | `ShutdownCompletes`, `WaitingClientServed`, `ExitCompletes` | pass, 36 k states, ~30 s |
| `lifecycle_mode_switch` | `PortLifecycleModeSwitch.cfg` | `ConfiguredModeLive` | violation (finding) |
| `lifecycle_exit_rotator` | `PortLifecycleExitRotator.cfg` | `FreedPortHasNoSession` | violation (finding) |

The properties:
- **`DeviceExclusive`.** No two listed ports on one device are connected at
  once.
- **`SessionEndsOnlyByShutdown`.** This is an action property. A connected
  port stops being connected or listed only in `finish_shutdown_port`.
- **`ShutdownCompletes`.** A closing port becomes unconnected or is removed.
- **`WaitingClientServed`.** A client waiting on a port is accepted or turned
  away.
- **`ExitCompletes`.** After `shutdown_ports`, every port is eventually freed,
  so `check_ports_shutdown` becomes true. Idle ports must be shut down as
  well as busy ones.
- **`FreedPortHasNoSession`.** This is an action property. A port is freed
  only with its client socket closed.

**Bounds.**
- The safety run covers three ports on two devices, the rotator and modes
  {off, raw}. The cases it reaches:
  - a rotator and a direct port compete for one device;
  - a port on another device runs independently;
  - a kick meets a close string;
  - every configuration and enable step happens at every phase.
- The liveness run uses the two ports of `d1` and all three modes, so the
  mode-change branch of `change_port_state` is exercised.
- A third port adds nothing to either leads-to property, because both are
  per port.

**Fairness.** Weak fairness is assumed for:
- the whole accept handler of each port;
- the rotator's accept handler;
- each of the shutdown callbacks.

The selector calls a ready fd handler and runs queued runners. The accept
sockets are level-triggered. Clients, sessions and the operator get no
fairness.

`CloseWriteDone` is assumed to happen eventually. This assumes the device
drains the close string; a device held by flow control is a hazard.

**Findings.**
1. `change_port_state` does nothing for a change between two enabled modes
   (`dataxfer.c:2120`). A reread from one enabled mode to another (TLC's trace goes telnet to raw), or `setportenable`
   between enabled modes, keeps the old mode.
2. `is_port_free` (`dataxfer.c:1799`) ignores `enabled` and `config_num`, so
   the rotator connects clients to ports that are off or marked for deletion.
   On program exit this frees a live session. The counterexample has five
   steps:
   1. `shutdown_ports` queues `shutdown_port2` for the idle port `p2`.
   2. `shutdown_port2` reaches `finish_shutdown_port`.
   3. A client connects to the rotator.
   4. While `finish_shutdown_port` waits for the device and the send timer,
      the rotator accepts that client into `p2`, because its
      `tcp_to_dev_state` is still unconnected.
   5. `finish_shutdown_port` frees `p2`. It does not close the socket or
      clear its handlers, which still point at the freed port.

### DevToTcp.tla: the device→TCP path of one session

**State.** The buffer `dev_to_tcp` is modelled the way the code indexes it:
`mem` is a function from `0..MaxSize-1` to bytes, with `cursize` and `pos`.
The other variables, each named after its field:
- `state` (`dev_to_tcp_state`), `readEn` and `writeEn` (the device read
  handler and the TCP write handler are enabled);
- `timerRunning` (`send_timer_running`);
- `closePos` and `closeDone` (`closeon_pos`, `close_on_output_done`);
- `tnOut` and `sendingTn` (`tn_data.out_telnet_cmd`, `sending_tn_data`);
- `sendTime` (`send_time`, a timeval) and `timerLeft` (time until the send
  timer's deadline);
- `timeout` and `timeoutLeft` (`port->timeout`, `timeout_left`) and `actLeft`
  (time until the 1 Hz activity timer fires).

The environment is `devq` (bytes the device has yet to deliver), `hup` (the
device has closed), `tnLeft` (telnet commands the peer may still provoke) and
`wire` (what was written to the socket). `consumed` is a ghost holding every
byte read from the device, and `overrun` records a write past `maxsize`.

Bytes are abstracted to `"a"`, `"b"` and `IAC` (0xFF). A telnet command for
the peer is the two bytes `IAC "W"`.

**Time.** A clock `nowUs` counts in units of 1/`USec` second (`USec` stands
for the code's 1000000). `Chardelay` and `ChardelayMax` are
`port->chardelay` and `port->chardelay_max` in those units. Timevals are
records `[sec, usec]` kept relative to the current second, so the state
space stays finite: at a second boundary `sendTime.sec` drops by one.
`AddUsecToTimeval` and `SubTimevalUs` are the code's `add_usec_to_timeval`
and `sub_timeval_us`, loops included (`CarrySeconds` and `Borrow` are
RECURSIVE). The dispatch at the end of `handle_dev_fd_read` computes
`send_time` and the timer deadline as the code does. Timers are urgent: `Tick`
cannot move time past a deadline that is due. Two ghosts measure time for
the properties: `waitAge` is how long the buffered bytes have waited for a
send, and `idleAge` is the time since the last write to the peer.
`Handled(A)` adds their updates to every handler.

**Actions.**
- `HandleDevFdRead` is the whole of `handle_dev_fd_read`. The read (half the
  free room in telnet mode), the closeon scan, the IAC-doubling loop and the
  dispatch to `handle_tcp_send` or the send timer are operators. `CloseonScan`,
  `DoubleIACs` and `ShiftUp` are RECURSIVE operators that follow the code's
  loops index by index, over `buf[0..count)` as the code does.
- `SendTimeout` is `send_timeout`.
- `HandleTcpFdWrite` is `tcp_fd_write` on `dev_to_tcp`, with the telnet
  command queue and the `goto send_tn_data`.
- `TelnetOutputReady` is `telnet_output_ready`, called when the peer's
  traffic makes the telnet code queue a command. It returns while
  `dev_to_tcp` holds data or a banner is still to be written (`:1173-1176`).
  The parameter `bannerLeft` says whether one is; DevToTcp alone has no
  banner.
- `InitWith` is `setup_tcp_port` for this half. The device reader is on
  (`:1746`). In telnet mode `telnet_init`'s output-ready call turns it off
  and sets `sending_tn_data`, unless a banner is pending. In that case the
  reader stays on and the banner goes out before the negotiation.
- `DevHangup` is the device closing; the next read returns 0.
- `GotTimeout` is `got_timeout`: with a `timeout`, it decrements
  `timeout_left` and shuts the port down when it drops below zero. Otherwise
  it re-arms itself one second ahead. `ResetTimer` is `reset_timer`, at each
  call site of the device→TCP path: after an immediate send that did not shut
  the port down, and in `tcp_fd_write`.
- `Tick` advances the clock by one unit while no timer is due.

`buffer_write` and `write` may accept any prefix of the bytes when
`ShortWrites` holds (0 is `EAGAIN`), else all of them. A write error shuts the
port down. The session ends at the first `shutdown_port` (`state` becomes
closing); PortLifecycle models the rest.

**Properties.**
- **`PeerReceivesDeviceBytes`.** What the peer decodes from the socket (with
  telnet, doubled IACs undone and commands skipped) is a prefix of the bytes
  read from the device, cut after the closeon string.
- **`NoBufferOverrun`.** No write lands past `maxsize`.
- **`BufferedDataSent`.** Buffered bytes are eventually written, or the
  session ends.
- **`TelnetReplySent`.** A queued telnet command is eventually written, or
  the session ends.
- **`CloseonCloses`.** Once the device has delivered the closeon string, the
  session eventually ends.
- **`CloseonMatched`.** `close_on_output_done` is set only when the closeon
  string has appeared, contiguously, in the device's output. The match
  position carries across reads, and a non-matching byte must restart it;
  the mutant that drops the restart closes on `a b a` for `aa`.
- **`CharDelayBound`.** Buffered bytes never wait longer than
  `chardelay_max` for a send. `send_time` is set by the first read of a batch
  and kept by later reads, and every re-armed timer is due no later than it.
- **`TimeoutOnlyWhenIdle`.** The activity timeout shuts the port down only
  after a full `timeout` with no write to the peer. This is spec.md's "any
  successful relay resets `timeout_left`".

| Run | cfg | Configuration | Checks | Result |
|---|---|---|---|---|
| `devtotcp_delay` | `DevToTcpDelay.cfg` | raw, chardelay 2, chardelay_max 3, 4 units a second, full writes | `CharDelayBound`, `BufferedDataSent` | pass, 26,800 states |
| `devtotcp_overrun` | `DevToTcpOverrun.cfg` | telnet, device sends two IACs into a 4-byte buffer | `NoBufferOverrun` | violation (finding) |

**Bounds.** Device streams have up to three bytes and the buffer three to five
slots. That is enough for a read to be batched with a later one, to fill the
telnet half of the buffer, and for a short write to stop inside a doubled IAC.
Four time units to the second with chardelay 2 and chardelay_max 3 let a
second read land before, at and after the first timer's deadline, and a
batch cross a second boundary. In the raw session run, `timeout` is chosen in the
initial state, 0 or 1 second. The liveness properties accept a shutdown, and
a timeout always brings one, so the sessions with `timeout` 0 are where a
stuck writer or a missed closeon shows.

**Fairness.** Weak fairness is assumed for the device read handler (it is
level-triggered while the device has data or has closed), the send timer once
armed, the activity timer, and `Tick` (time passes). For the TCP write
handler the fairness is over its steps that write something: the peer reads,
so a handler kept enabled eventually writes. The device's hangup and the
peer's telnet traffic get none: an idle device may never close.

**Finding.**
1. `dataxfer.c:755`: the IAC-doubling shift writes `buf[count+1]`. A telnet
   read of `maxsize/2` IACs into an empty buffer writes `buf[maxsize]`.


The raw and telnet settings of this module are checked inside the composed
model, in the `session_raw` and `session_telnet` runs (next section).

More disagreements were found. Each is recorded as a hazard, named with the
constants that reach it. Where a cfg beside the runs reproduces one, it is
named too. The passing runs avoid those constants:
- `dataxfer.c:752`: with chardelay, the closeon scan, tracing and IAC doubling
  run over `buf[0..count)`, not over the bytes just read at `buf+curend`.
  IACs of the first read are doubled twice and those of the second not at
  all (`DevToTcpIacRegion.cfg`).
- `dataxfer.c:722`: with chardelay, a read after the closeon match in the
  same batch is appended and sent. The peer gets `a b a` with closeon `b`
  (`DevToTcpCloseonBatch.cfg`).
- `dataxfer.c:600`: `handle_tcp_send` writes from `buf`, not `buf+pos`. A
  read that fills the buffer sends at once and leaves the send timer armed;
  after a short write, `send_timeout` sends the written prefix again. This
  breaks `PeerReceivesDeviceBytes` (raw, `Chardelay`, `ShortWrites`).
- `dataxfer.c:729`: the closeon matcher restarts at 0 on a mismatch without
  re-testing the byte. `ab` is missed in `aab`, against the spec's closeon
  rule (P·S·Q delivers P·S and closes). This breaks `CloseonCloses`
  (`CloseOn = <<"a","b">>`, input `aab`; `SessionCloseonOverlap.cfg` shows it
  in the session model). `session_raw` uses `aa`, where the restart happens
  but no byte that breaks a match can start one.
- With telnet and short writes, `sending_tn_data` is never cleared
  (`dataxfer.c:1008`). A telnet command queued while a short write has
  stopped inside a doubled IAC is written between its two bytes. This breaks
  `PeerReceivesDeviceBytes` (`ShortWrites`, `TnCmdMax = 1`;
  `SessionTelnetSplit.cfg`).
- With telnet and chardelay, `telnet_output_ready` (`dataxfer.c:1173`)
  defers to the data write. (`session_telnet` reaches only the banner
  deferral at `:1175`, which the banner writer's `goto send_tn_data`
  resolves.) The batch then goes out through `send_timeout`,
  which never flushes the command. This breaks `TelnetReplySent`
  (`Chardelay`, `TnCmdMax = 1`).
- `dataxfer.c:332`: `add_usec_to_timeval` adds all of `usec` to `tv_usec`,
  and also one second per million. A `chardelay_max` of a second or more is
  counted twice. This breaks `CharDelayBound` (`ChardelayMax = USec = 4`,
  `MaxSize = 4`, 9 states).
- `dataxfer.c:660`: `send_timeout` sends without calling `reset_timer`, and a
  batched read does not call it either. With chardelay, a byte the timer
  sends does not count as activity, and the port can time out right after
  writing it. This breaks `TimeoutOnlyWhenIdle` (the delay setting with
  `Timeouts = {1}`, 13 states; also `DevToTcpDelayIdle.cfg`), against
  spec.md §4 and scenario 8.

### PortSession.tla: both directions of one session, and its end

`PortSession` extends `DevToTcp`. It adds the TCP→device half and the steps
that end the session. The two halves share three things:
- the telnet command queue: a peer's option request is answered through
  `telnet_output_ready`, which is `OutputReady` of DevToTcp;
- the activity timer: `reset_timer` is called on both paths;
- the port state: either half may call `shutdown_port`.

State, beside DevToTcp's:

| Variable | Code |
|---|---|
| `netq`, `peerEof` | the peer's unread bytes and its close (environment) |
| `tbuf` | `tcp_to_dev`, as the bytes `buf[pos..pos+cursize)` still to write |
| `tcpReadEn`, `devWriteEn` | the TCP read handler and the device write handler enables |
| `devHandler`, `devstr` | `port->dev_write_handler` (normal, devstr, close) and `port->devstr` |
| `cmdPos` | the telnet parser's `telnet_cmd_pos` |
| `tstate` | `tcp_to_dev_state` |
| `fin` | how far the shutdown has got: open, cleared, closestr, finished |
| `banner`, `tcpHandler` | `port->banner` and `port->tcp_write_handler` (banner, normal) |
| `devWire`, `got` | ghosts: the bytes written to the device and those read from the peer |

Actions and operators:

| Definition | Code |
|---|---|
| `HandleTcpFdRead` | `handle_tcp_fd_read` (`dataxfer.c:894-999`) |
| `TcpToDevWrite` | its write to the device (`:952-993`) |
| `DevFdWrite` | `dev_fd_write`, `handle_dev_fd_normal_write`, `handle_dev_fd_devstr_write` (`:802-870`) |
| `CloseWrite` | `handle_dev_fd_close_write` (`:873-891`) |
| `BannerWrite` | `handle_tcp_fd_banner_write` with its `tcp_fd_write` (`:1131-1145`, `:1003-1064`) |
| `NormalTcpWrite` | `handle_tcp_fd_write_mux` with `handle_tcp_fd_write` installed |
| `DevWriteStep`, `HandleDevFdWrite` | `handle_dev_fd_write` (`:833-841`) |
| `PortTcpFdCleared` | `port_tcp_fd_cleared` (`:2353`) |
| `ShutdownPort2` | `shutdown_port2` (`:2327`) |
| `Finish` | the end of `finish_shutdown_port` |
| `SessionInit` | `setup_tcp_port` (`:1728-1783`) |

`handle_tcp_fd_read` reads over `buf` from position 0. Whatever `tcp_to_dev`
held before is therefore gone, and the model says so.

The telnet codec (`telnet.c`) is not under `src/`. `ProcessTelnet` models
from the spec the part of it that the peer's data goes through:
- `IAC IAC` is one data byte 0xFF;
- `IAC N` is a command, answered by one reply;
- the command position carries over between reads.

`DevAccepts` is `buffer_io_write`'s outcome: all the bytes, or, with
`DevShortWrites`, any number of them.

**Properties.**
- **`DeviceReceivesPeerBytes`.** The bytes written to the device are the
  peer's bytes, telnet-decoded, each once and in order. Nothing but close
  string follows the close string's first byte.
- **`PeerBytesWritten`.** A non-empty `tcp_to_dev` is eventually written out,
  or the port shuts down.
- **`BannerAsSpecified`.** The banner bytes written to the peer (the ghost
  `bannerOut`, appended to by `BannerWrite`) are a prefix of the banner as
  the specification expands its template (`SpecStr`, see ProcessStr.tla).
  Once the banner handler hands over to `handle_tcp_fd_write`, they are all
  of it.
- `BannerFirst` (no device byte before the banner) is stated but not checked
  by a run: the code does not keep it in either mode (below).
- **`SessionFinishes`.** A closing port reaches `finish_shutdown_port`, after
  the cleared callback, `shutdown_port2` and the close-string writer.

- **`PipeSpec`.** The session implements `BytePipe.tla`, the abstract
  promise of a port. `BytePipe` has no buffers, handlers or telnet framing:
  - each direction delivers a growing prefix of what its end sent, in
    chunks of any size;
  - the pipe may close at any step;
  - while it is open, pending bytes are eventually delivered.

  The refinement mapping (`Pipe == INSTANCE BytePipe WITH ...`) is:
  - `fromPeer`: the peer's bytes, read or not, telnet-decoded;
  - `fromDev`: the device's output, cut after the closeon string;
  - `toDev`: the peer bytes written to the device (`devWire` without
    open or close string);
  - `toPeer`: the device data the peer has read;
  - `open`: the port is not closing.

  In `BytePipe`, weak fairness is written with its enabling condition
  spelled out (`DevPending`, `PeerPending`). TLC cannot evaluate ENABLED
  through this substitution, and in a behaviour of `Next` the two
  conditions are equivalent. The mutant that leaves the TCP reader off once
  `dev_fd_write` drains its buffer stalls the peer's input, and so breaks
  `PipeSpec`.

**Fairness.** DevToTcp's fairness is kept. Beside it, weak fairness is
assumed for three handlers:
- the TCP reader, which is level-triggered while the peer has bytes or has
  closed;
- the device writer, over its steps that take at least one byte, or that
  run with nothing left to write. A device that never takes data would keep
  the port closing, which the code allows;
- the reactor's cleared callback and the `runshutdown` runner.

The peer's close is owed nothing.

| Run | cfg | Configuration | Checks | Result |
|---|---|---|---|---|
| `session_raw` | `SessionRaw.cfg` | raw; peer sends `c d` into a 2-byte `tcp_to_dev`; the device sends up to 2 bytes, with closeon `a a` (a match split over two reads in `b a a`, broken in `a b a`) and close string `z`; short writes both ways; `timeout` 0 or 1 s; no chardelay | `PeerReceivesDeviceBytes`, `DeviceReceivesPeerBytes`, `CloseonMatched`, `CloseonCloses`, `BufferedDataSent`, `TimeoutOnlyWhenIdle`, `PeerBytesWritten`, `SessionFinishes`, `PipeSpec` | pass, 149,450 states |
| `session_telnet` | `SessionTelnet.cfg` | telnet; banner template `\d\q\12` (device name, am/pm, octal 012); open string `o o`; peer sends `c IAC IAC` or `IAC N c` (an escape or a command split between reads); the device sends up to 3 of `a`/IAC into a 5-byte buffer; one provoked reply; full writes to the peer; the device reader on while the banner is pending | `SessionTypeOK`, `PeerReceivesDeviceBytes`, `NoBufferOverrun`, `DeviceReceivesPeerBytes`, `BannerAsSpecified`, `TelnetReplySent` | pass, 255,402 states |
| `session_open_string` | `SessionOpenString.cfg` | raw; open string `o o`; the device takes bytes one at a time | `DeviceReceivesPeerBytes` | violation (finding) |

**Finding: the open string loses peer data** (`dataxfer.c:815`).
`setup_tcp_port` enables the TCP reader while the open string is still being
written. TLC finds this trace:
1. The peer's `c` is read. The device takes none of it. `tcp_to_dev` keeps
   `c`, and the reader is turned off.
2. The devstr writer writes `o o`. `dev_fd_write` sees its own buffer empty.
   It turns the TCP reader back on and installs the normal handler, while
   `tcp_to_dev` still holds `c`.
3. The next read of `d` overwrites `tcp_to_dev`.

The device gets `o o d`, and `c` is lost.

**Reproduced, not run.** Every run slot is taken, so six hazards are
shown by cfgs beside the runs:
- `SessionTelnetSplit.cfg` is `session_telnet` with short writes to the
  peer. It shows the `sending_tn_data` hazard of DevToTcp in the composed
  model: an option reply lands inside a doubled IAC.
- `SessionBannerOrder.cfg` (raw, with a banner) violates `BannerFirst`.
  `setup_tcp_port` enables the device reader while the banner is pending
  (`dataxfer.c:1746`), and `handle_dev_fd_read` sends straight to the
  socket. The peer gets `a n n`. `SessionBannerOrderTelnet.cfg` is the
  `session_telnet` setting checked for `BannerFirst`, and it is violated as
  well. `telnet_output_ready` returns while the banner is pending
  (`:1175`), so the reader stays on and the device's `a` is sent before
  the banner.
- `SessionBannerShort.cfg` (raw, a banner, short writes) violates
  `PeerReceivesDeviceBytes`. A short device send leaves `dev_to_tcp` at
  `pos > 0`. The banner writer, once the banner is out, turns the device
  reader back on, and the next read resends `buf[0..cursize)`. For device
  bytes `b a` the peer gets `b n n b`.
- `SessionBannerOctal.cfg` is `session_telnet` with the banner template
  `\101x`, and violates `BannerAsSpecified`: `process_str` emits only `x`, where
  the specification's expansion is byte 65 then `x` (see ProcessStr.tla
  below).
- `SessionBannerIp.cfg` has the banner `\Ix` and lets `getnameinfo` fail
  with an uninitialized `ip[]` of length 0, 1 or 2 in either pass of
  `process_str_to_str`, and violates `BannerAsSpecified`. On success the code
  emits no address at all, since the `if` is inverted; when the two passes
  differ the banner holds unwritten bytes or is overrun.
- `SessionCloseonOverlap.cfg` is `session_raw` with the closeon string `a b`
  and the device sending `a a b`. It violates `CloseonCloses`: the second
  `a` resets the match without starting a new one (`dataxfer.c:729`), so
  the peer gets `a a b` and the port stays open.

### ProcessStr.tla: the template expander (`process_str`)

A state-free module of operators, used by PortSession to expand the banner,
open-string and close-string templates as `setup_tcp_port` and
`shutdown_port2` do (`process_str_to_buf`, `dataxfer.c:1729`, `:1735`,
`:2339`). Templates and expansions are sequences of one-character strings.
A byte given by its code is `ByteChar(code)`: a digit character for the
codes of `0`..`9`, else `"#n"`. Month and weekday names are one token each,
since no property looks inside them.

| Definition | Code |
|---|---|
| `ProcessStr` | the loop of `process_str` (`dataxfer.c:1222-1506`): plain bytes, a trailing backslash returns, the escape switch |
| `Escape` | every non-numeric case of the switch (`:1234-1498`), with `\I` given as what the case emits |
| `Octal`, `Hex` | `case '0'...'7'` and `case 'x'` (`:1285-1325`), with the code's `continue` and `break` |
| `FromHexDigit`, `Months`, `Days`, `CEscapes`, `Basename`, `Hour12`, `Itoa`, `Pad` | `from_hex_digit`, `smonths`, `sdays`, the C escapes, the `\d` filename rule, the `\h` rule, `snprintf("%d")` and `"%2.2d"` |
| `ProcessStrToBuf` | `count_op`, `buffer_op`, `process_str_to_str` and `process_str_to_buf` (`:1510-1588`): the count pass sizes the buffer, the write pass fills it, and bytes never written are `Uninit` |
| `Expanded` (PortSession) | the set of buffers `process_str_to_buf` can return, over the `\I` outcomes `IpOutcomes` of the two passes |

`SpecStr` is the reference: the escape table of spec.md, where `\NNN` is an
octal byte of 1 to 3 digits, `\xNN` a hex byte of 1 or 2, and `\I` the peer's
address (`StrCtx.peerIp`). It shares `Escape` for the other escapes.

The code differs from it in two places:
- A numeric escape emits its byte only when the template ends right after
  its first or second digit. A non-digit after a digit `continue`s and
  drops the value. A third octal or a second hex digit `break`s with no
  `op` call.
- `\I` emits nothing when `getnameinfo` succeeds. It copies the
  uninitialized `ip[]` when the call fails.

**Property.** `BannerAsSpecified` in PortSession compares the banner bytes
written to the peer with `SpecStr` of the banner template: they are a prefix
of the banner the specification describes, and all of it once the banner
writer is done. `session_telnet` uses
`\d\q\12`, on which code and specification agree. The mutant that drops the
byte of a two-digit octal escape at the end of the template breaks it there.
`SessionBannerOctal.cfg` and `SessionBannerIp.cfg` (above) show the two
differences. The context `MCCtx` fixes the device name, port name, serial
parameters, `struct tm`, `struct timeval` and peer address. The expansion
is evaluated once per initial state, so the templates' length, not the
state space, is the cost.

### Controller.tla: control-port sessions and port monitoring

**State.** Every control connection is a model value of `Conns`, used once.
Per connection:
- `conn`: idle, open, closing (`in_shutdown`, `genio_close` pending),
  closed, or refused;
- `inbuf`;
- `readEn`/`writeEn` (the genio read and write callbacks);
- `outPending` (`outbuf != NULL`) and `tnPending` (telnet commands queued);
- `monId` (`monitor_port_id`).

Shared: `num` (`num_controller_ports`), `ports` (the ports list, as port
structures), `tcpMon` (each structure's `tcp_monitor`), and `hung`, which
means `data_monitor_stop` is spinning and the event loop is stuck. Input bytes
are abstracted: `B` is backspace or 0x7f, `Z` is `\0` or `\n`, `R` is `\r`,
and any other byte is a whole command word (`e` exit, `s` monitor stop, `1`
monitor tcp of port `n1`, `h` a command that only prints).

**Actions.**
- `NewConnection` is `controller_new_connection`: refuse at the limit or
  when allocation fails, else queue the telnet negotiation and the prompt.
- `ControllerRead` is the whole of `controller_read`. The overflow check, read
  errors, and the editing loop are written as the recursive `EditLoop`, with
  `RemoveChars` and `ProcessInputLine` (exit, monitor, monitor stop, others).
  `ShutdownController`, `DataMonitorStart` and `DataMonitorStop` are
  operators on a record holding the connection's view of the state.
- `WriteReady` is `controller_write_ready`, split by how much the socket
  takes: `WriteReadyErr`, `WriteReadyPart`, `WriteReadyAll`.
- `CloseDone` is `controller_close_done`.
- `PortReplaced` and `PortFreed` are the port life cycle's `switchout_port`
  and the freeing of a deleted port. Each frees a structure that a session
  may hold as its monitor.

**Properties.**
- **`ControllerCountMatches`.** `num_controller_ports` equals the number of
  listed sessions.
- **`LinesAsTyped`.** The lines given to `process_input_line` in a read are
  exactly the lines typed, each edited as the spec's line editor says
  (`RefEdit`, a reference written from the spec). The unfinished line in
  `inbuf` is the edited line so far.
- **`MonitorSlotLive`.** A port's `tcp_monitor` names an open session.
- **`MonitorStopReturns`.** `data_monitor_stop` returns.

| Run | cfg | Checks | Result |
|---|---|---|---|
| `controller_safety` | `Controller.cfg` | `TypeOK`, `ControllerCountMatches`, `LinesAsTyped`, `MonitorSlotLive` | pass, 534 k states, ~30 s |
| `controller_monitor_stop` | `ControllerMonitorStop.cfg` | `MonitorStopReturns` | violation (finding) |

**Bounds.** The runs use three connections against a limit of two, so one is
refused while two are open. Each connection gets two reads from six chunks,
which is enough for each of these:
- a command and its `\r` in one read;
- a `\r` followed by a byte that stays for the next read, where it is
  erased by a backspace at index 1 or overflows the two-byte buffer;
- a backspace at index 0;
- a dropped byte.

There are two ports. `p1` can be replaced by `p1b`, and either port can be
freed. Connections are symmetric.

**No deadlock check.** The model's connections are finite. When they are
used up, the server waits for new ones, so the end state is not a deadlock
of the code.

**Finding.** `data_monitor_stop` (`dataxfer.c:3195`) never advances `curr`.
Once the monitored port is no longer the head of the list, the walk spins
forever. TLC's trace:
1. A session monitors `p1`.
2. A reload replaces `p1`.
3. The session's peer goes away.
4. `shutdown_controller` calls `data_monitor_stop`, and the server hangs.

The spec says stopping a monitor whose port is gone is a no-op.

**Related hazard.** `data_monitor_start` returns the port even when another
session monitors it (`dataxfer.c:3162`). Two sessions then hold one port's
monitor. This breaks the spec's invariant that a monitor slot is referenced
by at most one session. It is recorded as a hazard.

### Termios.tla: the termios serial device (`genio/sergenio_termios.c`)

`sergenio_termios.c` is genio's termios-backed serial device. Its lock and
runner are for threaded genio users; none of the `.c` files here call it.

**State.**
- `phase`: the genio fd is closed, open, or closing (`check_close` is
  being polled).
- `open`: `sdata->open`.
- `closeLeft`: `close_timeouts_left`.
- `dev`: the device's `c_cflag` bits, CBAUD field, modem bits and break line.
- `break_set`.
- `q`: `termio_q`.
- `pending`: `deferred_op_pending`.
- `runner`: idle, scheduled, running a done callback with the lock dropped,
  or retaking the lock.
- `cur`: the request whose callback is running.
- `outq`: whether the device's output queue holds bytes.
- Ghosts: `issued` and `completed` (request ids in the order they were
  queued and done), and `lastSet` (each parameter as last set, or as
  `default_termios` left it at open).

`c_cflag` is a set of bits named after Linux's `<termbits.h>`. So the
flow-control function's `IXON | IXOFF` land on the bits they really hit in
`c_cflag`: `HUPCL` and `CBAUDEX`.

**Actions.** Each lock critical section is one action.
- `SetGet` is `termios_set_get` with all its branches:
  - `EBUSY` when closed;
  - the getset function applied to the device, with `tcsetattr`/`TIOCMSET`;
  - `TIOCSBRK`/`TIOCCBRK`;
  - `EINVAL`;
  - the queueing and `sterm_start_deferred_op`, written as `Enqueue`.
- `DeferredStep` is one pass of `sterm_deferred_op`/`termios_process` under
  the lock. It pops the head and reads its parameter back, or it clears
  `deferred_op_pending`.
- `DoneCallback` is the `done` call with the lock released.
- `CheckCloseStart` and `CheckCloseDone` are `sterm_check_close_drain` for
  START and DONE.
- `SubOpen` is a successful `sterm_sub_open`.
- `DeviceOutput` and `DeviceDrain` are the line filling and emptying its
  output queue.

**Properties.**
- **`DoneInOrder`.** Callbacks run in the order of the calls, each once,
  also for requests queued while a callback runs.
- **`QueueEmptyWhenClosed`.** The fd closes only with `termio_q` empty.
- **`GetReportsLastSet`.** A read-back reports the last value set, so a set
  of one parameter leaves the others alone. It is checked for baud,
  datasize, parity and stopbits.
- **`RequestsComplete`.** Every queued request is eventually done.
- **`CloseCompletes`.** A started close finishes.
- **`SerialRequestsSpec`.** This is a refinement: Termios implements
  `SerialRequests.tla`.

**Fairness.** Fairness is weak on the runner, on the callback's return and
on the 10 ms close poll. There is none on `DeviceDrain`: a line held by flow
control may never drain, so the close has to finish through
`close_timeouts_left`.

| Run | cfg | Checks | Result |
|---|---|---|---|
| `termios_queue` | `Termios.cfg` | `TypeOK`, `DoneInOrder`, `QueueEmptyWhenClosed`, `GetReportsLastSet`, `RequestsComplete`, `CloseCompletes`, `SerialRequestsSpec` | pass, 44 k states, ~25 s |

**Abstract specification.** `SerialRequests.tla` states what the device
promises its user. It has no lock, runner or termios bits:
- a set on an open device takes effect at once and changes only its own
  parameter;
- a request made with a callback waits in line;
- requests are answered in the order made, each with its parameter's current
  value;
- a close finishes only when no request waits;
- an open starts from the default settings.

Termios maps onto it as follows:
- `settings` is what the device bits read back as (`Read`);
- `waiting` is `termio_q`;
- `answered` is the completed ids, plus the request whose `done` is running;
- `lastAnswer` is the value that callback was given.

The property `SerialRequestsSpec == SR!Spec` includes the abstract weak
fairness. So it also checks that the runner answers every waiting request and
that a close finishes.

**Bounds.** Two calls drawn from nine requests; two opens; a timeout count
of 2 instead of 200. These are enough for:
- a request queued from inside a callback;
- a set to `MARK` and then to `ODD`, which must clear `CMSPAR`;
- a baud that needs `CBAUDEX`;
- a close with requests pending and with output that never drains;
- a reopen.

With three calls, the refinement check takes about four minutes, so the run
uses two.

These disagreements are recorded as hazards, each naming the inputs that
show it:
- Flow-control XON/XOFF sets `HUPCL | CBAUDEX` in `c_cflag`
  (`sergenio_termios.c:415`). After it, a baud of 9600 reads back as 0:
  `GetReportsLastSet` fails when `Calls` holds that set.
- DTR/RTS off is `*mctl &= TIOCM_DTR` (`:457`, `:487`), so the line stays on.
- `sterm_sub_open` clears the break line but not `break_set` (`:602`).
- A modem-control set without `done` dereferences a NULL `qe` (`:196`).
- A close can complete while the last `done` callback is still running.

## 3. Plan for the remaining modules

The modules are listed in order of importance.

1. **DevToTcp** (done, above, with chardelay timing and the activity timer).
   Not yet: tracing and the data monitor.
2. **PortSession** (done, above). Not yet: the urgent-data flush
   (`handle_tcp_fd_except`) and RAWLP ports. The banner writer is modelled
   (`BannerWrite`).
3. **Controller** (done, above). Not yet: `free_controllers` at program exit,
   the `term` monitor type, and the output-drain liveness (it needs a
   configuration where the `data_monitor_stop` hang cannot happen).
4. **Termios** (done, above). Not yet: violation runs for the flow-control and
   DTR/RTS-off encodings (recorded as hazards). Also not yet: the
   RFC 2217 handler in `dataxfer.c` that would call these functions.
5. **Template expander** (done: ProcessStr, above). Time arithmetic is in
   DevToTcp. Not yet: trace aliasing (`tr`/`tw`/`tb` on one file), which
   would use the expander's filename mode.
6. **PortLifecycle extensions.** Program shutdown is done (`ShutdownPorts`).
   Not yet: an abstract `PortService` spec (idle/busy/closing, mode) refined
   by PortLifecycle.

## 4. Not modelled

- Option parsing (`myconfig`) and status output (`show*`) are string
  handling and formatting only.
- The telnet codec, buffers, selector and waiter are outside `src/`. The
  part of the codec that peer data goes through is modelled from the spec
  (`ProcessTelnet`).
- Out-of-band TCP data (`handle_tcp_fd_except`) is not in the peer model.
- The header files and the swig test helpers hold no state.
- The expander's filename mode (`isfilename`, used by `open_trace_file`) is
  in `Escape` but no model uses it, since tracing is not modelled. The
  out-of-memory returns of `process_str_to_str` are left out.
- The stdio port (`exit(0)` after one session) is left out.
- In `sergenio_termios.c`: device-parameter parsing (`sergenio_process_parms`),
  `raddr_to_str`/`remote_id` (formatting), `sterm_free`, and allocation
  failures (`ENOMEM` with no state change).
