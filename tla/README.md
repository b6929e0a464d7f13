# A TLA+ model of Sidegate

Sidegate is a GlobalProtect VPN client for Windows: one process in which a Rust
GUI (`gui/src/main.rs`) drives a Go core (`core/*.go`) through two string
channels. This directory holds TLA+ modules of the core and of the parts of the
GUI it depends on, the TLC configurations that check them on small instances,
and theorems about them that TLAPS proves for all values of the constants.
Paths and line numbers below are those of the source tree; `PROJECT.json` maps
every definition to the lines it stands for.

    tlc -workers 2 -config MCBackend.cfg MCBackend      # a run
    tlapm BackendProofs.tla                             # the proofs of a module

## 1. Inventory

### Command loop: `core/main.go` 42-204, `core/lib.go`

* State: `backend{mu, ev, cancel, done}`, the channels `cmds` (16) and `events`
  (64), `session.bin`, `endpoint.txt`.
* Operations: `setup`, `connect`, `disconnect`, `logout`, `quit`, and `emit`, by
  which every goroutine reports a change of state.
* Interaction: one goroutine reads `cmds`; `connect` starts another for each
  attempt; both write `ev` and send to `events`, the sending inside the mutex. A
  thread of the GUI receives, another one sends.
* Hard: a goroutine gives up `b.cancel` before it reports how it ended, so two
  can be alive at once; `emit` waits for a full channel while it holds the mutex
  that everybody else needs; `disconnect` waits without a timeout; `logout`
  deletes the file a goroutine may be about to write, and does not notice when it cannot.
* Correct when: there is one attempt at a time and it is the one that
  `disconnect` stops; what the user logged out of stays gone; the lines arrive
  in order; a page that announces work is always followed by one that reports
  its end; every `disconnect` and `quit` comes back, as far as the dial it waits for does.

### Connection goroutine: `run`, `serve`, `runTunnel`, `core/gp.go`

* State: its session, its context, the stack, two listeners, the system proxy,
  the TLS connection with its writer and the pump.
* Operations: reuse the saved session, or prelogin, browser login and gateway
  login; get the configuration; serve; keep the tunnel up, reopening it.
* Hard: every call fails, times out, or answers after it has been cancelled, and one,
  `openTunnel`, need not end at all; several goroutines and two queues per connection;
  the order of the deferred calls; which of them know the context (`openTunnel` and the
  read loop do not).
* Correct when: every way out gives back what was taken, in the right order;
  packets keep their order across reconnections; no goroutine is left over.

### System proxy: `core/sysproxy.go`, `serve`, the GUI's `quit`

* State: one registry value that outlives the process; two listeners that do not.
* Hard: kills between any two steps, refused registry calls, a value that cannot be
  read and is overwritten all the same, changes by other programs, and a GUI that waits for the core for five seconds only.
* Correct when: the user's setting comes back, and the system never points at a
  script that a running Sidegate does not serve.

### Browser login: `core/login.go`, `--callback` mode of `main`

* State: a loopback server with a token, `callback.port`, a registry key, a
  channel for one callback; a second process for each callback.
* Hard: late and repeated callbacks, processes that read the file of an earlier
  attempt, kills, refused removals.
* Correct when: a login takes the callbacks of its own attempt only, ends, and
  leaves nothing that works behind.

### Router and proxies: `core/proxy.go`, resolver of `core/netstack.go`

* State: none that changes; each request has its own.
* Hard: the same question, "does this belong to the VPN?", is answered by a
  script in the browser and by `dial`, from different DNS servers, at different
  times, and within a deadline that two lookups share.
* Correct when: the two agree, public names stay with the public DNS and
  internal ones inside, and what the routes hold goes through the tunnel.

### GUI: pages and commands: `gui/src/main.rs` 746-966, `GpSend` and `cmds` of `lib.go`

* State: the last line received (`App.st`), whether the menu is open, and a thread
  that blocks inside `GpSend` while the channel of commands is full.
* Operations: one command for each button and menu entry; `quit`, which sends
  "quit", waits five seconds for "exited" and ends the process.
* Hard: a click is made on a page that may be old by the time its command is
  taken; commands wait for a loop that is inside `disconnect`; the process ends
  with every goroutine where it is.
* Correct when: no command is lost or overtaken, and what the user asked for last
  is what holds in the end; a quit that is answered leaves nothing behind.

### GUI: popup window and tray icon: `gui/src/main.rs` 60-370, 880-1013

* State: the window (visible, opaque, focus), `FADE` with one thread for each fade,
  `was_focused`, `last_hide`, `Shared.on` and the icon in the notification area.
* Operations: `show` and `hide`, with a fade each; the messages of the tray icon,
  of Explorer and of a second launch; `logic`, in every frame; `App::new`; `quit`.
* Hard: fades overlap and test a global counter before they act; a click on the icon
  begins by taking the focus away, which may hide the window before the click
  is handled; the icon is only updated in a frame, by a thread other than the one
  that receives, and Explorer may forget it at any time.
* Correct when: the window ends up as the latest `show` or `hide` wanted it, a click
  on the icon of an open popup closes it, a popup that has lost the focus goes
  away, and the icon shows the state of the connection.

### Others

* Codec (`frame`, `readFrame`), forms, XML (`xmltag.go`, `parseACS`): functions of
  their input; what depends on them is whether they succeed.
* Network stack (`netstack.go`): gVisor, external; only its outbound queue and
  its resolver appear.
* Drawing, widgets, fonts and the build script: no state that a behaviour depends on.

## 2. Modules

| Module | Models | Checked by | Proved in |
|---|---|---|---|
| `Vpn` | what the core promises, abstractly | implemented by `Backend` | |
| `Link` | what the data path promises, abstractly | implemented by `Tunnel` | |
| `RunTunnel` | what the callers of `runTunnel` rely on, abstractly | | implemented by `Tunnel`, `Backend`, `SysProxy` |
| `Backend` | command loop, goroutines, `emit`, files | `MCBackend` | `BackendProofs` |
| `Tunnel` | `runTunnel` with pump, writers, queues | `MCTunnel` | `TunnelProofs` |
| `SysProxy` | registry value, listeners, process lives | `MCSysProxy` | `SysProxyProofs` |
| `Login` | `browserLogin` and the callback processes | `MCLogin` | `LoginProofs` |
| `Router` | PAC script and `router.dial` | `MCRouter` | `RouterProofs` |
| `Sidegate` | the whole program: `Backend` with pages, command channel, `quit` | `MCSidegate` | `SidegateProofs` |
| `Popup` | popup window, fades, tray icon | `MCPopup` | `PopupProofs` |

**Backend.** One label per goroutine says which call it is about to make: `loop`
for the command loop, `pc[r]` for the connection goroutine in slot `r`, `out[p]`
for the `emit` that goroutine `p` is in. `emit` is two steps, `EmitLock` and
`EmitSend`, between which the mutex is held: the second waits for room in
`events`. A step that emits only sets `out`, and a goroutine with `out[p] # ""`
takes no other step, so that others may run between the evaluation of `emit`'s
arguments and its lock, as in Go. Short locked sections (`setup`, `connect`,
`disconnect`'s read, `ForgetUser`, `Publish`, `ClearCancel`) are single steps
guarded by a free mutex. `Receive` takes any command: which ones the pages offer
is left to `Sidegate`. `done` closed is `pc[r] = "idle"`; the slot is then free for
another attempt. A slot that is not free disables `Connect`, so the number of
slots bounds how many goroutines overlap (section 4). The gateway, the browser,
DPAPI and the files are nondeterministic outcomes; `RemoveSession` may leave
`session.bin` where it is, as `logout` ignores the error of `os.Remove`. Messages are left out; a user
and an address are there or not. `Vpn` is the abstract specification: an owner,
whether traffic is routed, the saved session, the sessions logged out of.
`Core == INSTANCE Vpn WITH owner <- cancel, routed <- (proxy # Nobody),
saved <- disk, gone <- wiped` is the refinement mapping.

**Tunnel.** `main` is the position in `runTunnel`, `pump` and `writer[c]` those
of the other goroutines; `queue` is the stack's, `out` the channel; `open`,
`armed` and `done` are the sets of connections open on our side, with a pending
`AfterFunc` and with a closed `done`. A select is a choice between steps. Packets
are numbered, so that order and loss can be stated; a write to a silent peer may
block or may succeed into nothing. Inbound packets are handed to the stack at
once, keep no state, and are left out. `Link` is the abstract specification of the data
path: what was sent and is under way (`way`), what has arrived, whether anything has gone
wrong yet (`good`) and whether the user has disconnected (`off`). It has room for as many
packets as the stack's queue, refuses one only on entry, and loses one of the two oldest
only, and none while `good`. `TheLink` maps `way` to `Way`, everything between the stack and
the wire, and `good` to `Healthy`, the first connection without a fault or a disconnect.

**RunTunnel.** `Tunnel` has all of `runTunnel`; `Backend` and `SysProxy`, which are about
what surrounds it, have an outline: a look at the context at the head of the loop, the dial
with the wait after it, a tunnel, the way out. `RunTunnel` is what the three share, and each
is shown to implement it (section 4).

**SysProxy.** `at` is the position of the process, from `clearStaleProxy` to the
last deferred call, "dead" when there is none. Every registry call may fail. A failed
`OpenKey` ends `serve` (`OpenFails`); a failed `GetStringValue` (sysproxy.go 23) does not:
`ReadOld` then goes on with nothing to restore, and `Restore` deletes the user's value.
`wanted`, `intact`, `denied`, `unread` and `end` are history: what the user last chose,
whether something happened that the code cannot make up for (a change under a
connection; a kill with the user's own script set aside), whether the registry
refused, whether `serve` failed to read the choice. `http` tells a listener that is bound from one that is served, because
`hs.Close` may come before `hs.Serve`.

**Login.** `attempt` numbers the attempts and stands for the token; `deliver[d]`
is a process of the browser between the read of the file and its request.

**Router.** One request from the browser's script or from a program to its
connection. A name is plain or dotted, with or without a dot at its end; which
name lies under which suffix is a relation, and a suffix is `Tidy` when it is
spelled as `internalName` needs it. `dns` holds what the two servers say of the
name for as long as the request lasts, so that every disagreement shown is the
code's own. `asked`, `source` and `rule` are history.

**Sidegate.** EXTENDS `Backend`, whose variables it shares, and adds the GUI's: `cmds`
is the channel, `todo` the command a blocked `GpSend` is handing over, `gui` whether the
GUI thread draws frames, waits in `quit` or is gone with the process, `acct` and `menu`
the fields of `App` that decide what can be clicked. Each button is an action, guarded
by the page on which it is drawn (`Page`, from `view` and `acct`); `Put` is `GpSend`,
after which the GUI thread goes on or blocks. `TakeCommand` gives the oldest command to
`Backend`'s `Receive`; `ReceiveLine` is `GpRecv` with what the receiving thread keeps of
the line. The steps of the core are `Backend`'s own, as long as the process is there.
`asked` and `refused` are history: whether the user's last click wanted a connection, none,
or a logout, and whether the last logout could not remove `session.bin`. The properties
about a logout make an exception for `refused`.
A click that `setup` would refuse (a blank address) is in, since it sends a command.
The GUI waits at most five seconds in `quit`: as time is not counted, `ExitProcess` may
happen at any moment after it, and `end` remembers whether "exited" had come.

**Popup.** `main` is the position of the GUI thread: it handles one message or frame at a
time, and `show` and `hide` are cut where they call `fade`, since the fade threads set the
opacity, or hide the window, between. `fader[t]` is the position of a thread (its test of
`FADE`, its `SetLayeredWindowAttributes`, its last test, its `ShowWindow`), `latest` the
value of `FADE`. The two times the code compares, 400 ms after `last_hide` and the length of
a click, are one action, `Elapse`. `raced` is history: a thread was between its test
of `FADE` and the call it guards when `FADE` changed. The comment at main.rs 132-133 says that
a newer fade makes the older ones stop; in that window it does not, and the properties
make an exception for it. The exception is wider than the race: `raced` excludes every
behaviour in which a fade began while an older thread stood there, whatever that thread's
call then did, and those in which a thread hid the window under a `show`. `line` is the only part of a line that matters here: whether
it says "on".

## 3. Runs

| Run | Instance | States | Shows |
|---|---|---|---|
| `backend` | 1 gateway, 1 session, 2 slots, channel of 1 | 1.2 M | `TypeOK`, `OneConnection`, `LoggedOutStaysOut`, `BusyPageIsTrue`, `LastLineIsCurrent`, `ExitIsClean` |
| `backend_hosts` | 2 gateways, 2 sessions, 1 slot | 2.5 M | `ImplementsVpn` when the address changes under a connection |
| `backend_live` | 1, 1, 1 slot, fair | 65 k | `DisconnectReturns`, `QuitIsAnswered`, `DisconnectIsShown` |
| `tunnel` | 2 packets, 2 connections, queues of 1, fair | 73 k | `ImplementsLink`; order, loss, leaks, cancellation |
| `sysproxy` | 2 user settings and none, fair | 17 k | `PacIsServed`, `UserSettingKept`, `NoListenerLeft`, `RoutingEnds`, `PortIsFreed` |
| `login` | 3 attempts, 2 browser processes, fair | 8.4 k | `CallbackIsCurrent`, `NothingLeft`, `LoginEnds` |
| `router` | 4 names, 2 suffixes, 3 addresses, answers of up to 2 | 386 k | `PublicNamesStayPublic`, `NamesAgree`, `RoutesAgree`, `InternalNamesStayInside` |
| `popup` | 2 fade threads at a time, fair | 260 k | `TrayInSync`, `Settled`, `TrayClickCloses`, `LeftAlone` |
| `sidegate` | 1 gateway, 1 session, 1 slot, channels of 1 | 3.0 M | `LastWishHolds`, `CleanExit`, and no deadlock but the end of the process |

The other three runs, `sysproxy_quit`, `router_routes` and `sidegate_off` (two slots),
are expected to find a violation; section 6.

Why the bounds are enough:

* *Channel of one.* A full channel is the hard case for `emit`; a larger one is
  full later. The proofs cover every capacity.
* *Two slots.* The overlap that matters is an old goroutine that has given up
  `b.cancel` and a new one. The proofs cover any number.
* *One session in `backend`.* A session is issued once and can be saved, used
  and logged out of; the second one, in `backend_hosts`, is that of another
  gateway.
* *Two connections in `tunnel`*: the writer of the first against the second.
  Two packets make an order, queues of one are full at once.
* *Three attempts in `login`*: a late callback of the first can meet the second
  and the third. The proofs cover any number.
* *A command channel of one* makes the third command in a row block the GUI thread; the
  proofs cover every capacity, and any number of slots, which `sidegate` has no room for.
* *Two fades in `popup`*: an older one against the latest. The proofs cover any number.
* *Two answers in `router`* of up to two addresses each, of which one, both or
  none lie in a route.

Deadlock is checked in every run. `Backend` may stop only once the GUI has read
"exited" (`Exited`), `Tunnel` only when `runTunnel` has returned (`Finished`), `Sidegate`
once the process is over (`Gone`). `popup` alone does without: after `quit` its GUI thread
handles nothing more, and all threads may have ended.

### Fairness

Fairness is only that of schedulers and of calls that end by themselves:

* `Backend`: weak fairness of the receiving thread and of a send with room;
  strong fairness of what must take the mutex, as Go's mutex starves nobody and
  a goroutine that can run again and again does; of the steps of `run` whose calls have a
  timeout (30 s of `httpc`, 10 min of the browser). The return of `openTunnel` is not
  owed (`Owed` leaves out "dial"): the read of the answer has a deadline of 15 s
  (gp.go 175), but the TLS handshake of `tls.Dial` (gp.go 168) and the write of the
  request (gp.go 173) have none, and none of them sees the context. So
  `DisconnectReturns`, `QuitIsAnswered` and `DisconnectIsShown` end in `\/ []InDial`: what
  was asked for happens, or `disconnect` waits for ever for a goroutine that dials for
  ever. No command is owed, and a healthy tunnel may stay up: only
  `pc[r] = "up" => ctx[r]` makes its end owed.
* `Tunnel`: each goroutine's steps, but not `OpenTunnel`, hence `CancelEnds` with
  `\/ [](main = "dial")`; the read loop only where `MustFail` holds (our end closed, the
  other end gone, or 60 s of silence: that the deadline of main.go 347 is renewed before
  each frame and ends a silent read is taken as given); a write only while the
  other end is not silent. Neither packets nor failures are owed. `WritersEnd` needs no
  exception: a writer's end rests on its own connection's `done` alone.
* `SysProxy`: the steps of the process but for the dial, hence `RoutingEnds` with
  `\/ [](at = "dial")`, and the start of `hs.Serve`.
* `Popup`: the fade threads, whose clock runs (`PaintLast`), the rest of `show` and `hide`,
  and the frames that were asked for. The user, the core and Explorer owe nothing.
* `Sidegate`: none; it is checked for safety. The liveness of `Backend` speaks of any
  commands, the GUI's among them.
* `Login`: the steps of `browserLogin` but for the ten minutes; not that the user
  signs in or that a callback arrives.

## 4. Proofs

All theorems assume only what the modules assume of their constants: that the
"none" values are not members of the sets they complement, that
`HostOf` is a function, that `EventCap` and the like are natural numbers, that
names and addresses of different kinds differ. No set is assumed finite.

* **BackendProofs.** `TypeOK` and the five invariants of `backend` are not
  inductive. The inductive invariant `IInv` adds, among others: `LoopQuiet` (the
  loop emits only where it takes commands, and at its end), `HolderEmits`
  (whoever holds the mutex is in an `emit` whose state is already in `ev`),
  `StopsTheRightOne` (the goroutine `disconnect` waits for is the one it
  cancelled, and keeps its slot), `ProxyInServe` (the proxy is held only between
  `Serve` and `Unwind`), `SessionsAreIssued` (so that a new session is none that
  was wiped), `CancelledIsAwaited` and `BusyIsOwed` (a cancelled goroutine has a
  loop that will emit for it; a busy state has somebody left to end it) and
  `BusyIsWorking` (the goroutine a busy state is about stands where the state says).
  `BusyPageIsTrue` needs the last three, `LoggedOutStaysOut` needs
  `StopsTheRightOne`. `Implementation` shows that initial states are those of
  `Vpn` and that every step is one of its steps or a stutter, from `IInv`.
  `ShownPageIsTrue` carries `BusyPageIsTrue` from the last line sent to the page on the
  screen, by way of `EndIsSaid` and `NothingYet`. `NeverStuck` says that there is no circle of waits:
  until the core is at rest or "exited" is read, the guard of some step other than a
  command holds. As the prover has no `ENABLED`, the guards are written out; TLC found them
  equal to `ENABLED` in every state of `backend`. `DisconnectIsNear`: the goroutine
  `disconnect` waits for is cancelled, and a cancelled goroutine comes nearer to its end with
  every step it takes; `StepsLeft` counts at most 17.
* **SysProxyProofs.** `Ports` (which listener may be open at which label),
  `PacInPlace` (where the setting may be ours), `ChoiceKept` (that `old` is what
  the user chose, or nothing once that could not be read (`unread`), as long as nothing
  intervened). Besides the invariants of `sysproxy`:
  `OwnValuesOnly` (unless something intervened, `serve` only `Borrows`, putting a script that is
  bound in the place of a value that is remembered or could not be read, and `Returns`, putting
  that value, or none if it could not be read, in the place of our script; `Writers` says which
  steps write at all), `AnnouncedExitRestores` (a process that ends because the core has said
  "exited" leaves no script of ours unless the registry refused, and the user's choice unless it
  could not be read: the part of `QuitRestores` that holds) and `WindsUp` (a cancelled `serve` only comes nearer to its end).
* **LoginProofs.** `GotCurrent`, `TokensIssued` (no token in a file or on its way
  is from the future, so none is from the next attempt), `Scopes`. `LinksAreOfThisLogin`, about
  callbacks that are still to be sent, needs `FileIsCurrent`.
* **RouterProofs.** `Fresh`, `Verdict` (what the script's answer says of the
  destination), `Servers`, `Sources`. `WhereItGoes` is the part of
  `RoutedIsTunnelled` that holds; its invariant is `Target`.
* **TunnelProofs.** `Line` is everything between the stack and the gateway, from the oldest
  packet: what is on the wire, what a writer has in hand, the channel, what the
  pump has in hand, the queue. `IInv` says where each goroutine and connection may be at
  which label of `runTunnel` (`Positions`), that no connection stays open
  (`NoConnLeftOpen`), that the line is sorted (`Sorted`), and that it is complete while the
  first connection is healthy (`Complete`). The hard case of `InOrder` is the writer of an old
  connection, which may still take a packet: it can write it nowhere, since its
  connection was closed before the next was opened. `TunnelImplementsLink` maps every step to one
  of `Link` (`Line` is the wire followed by `Way`; `WayStep`). `NobodyIsLeft` (from
  `Attached`): the read loop of a cancelled `runTunnel` has something to end it, and a writer
  whose connection is over finds `done` closed. `CancelCountsDown`: a cancelled `runTunnel` is at most 7 steps from its end, and
  each brings it nearer.
* **RunTunnel.** `TunnelImplementsRunTunnel`, `BackendImplementsRunTunnel` (for each goroutine)
  and `ProxyImplementsRunTunnel` show that the detail and both outlines behave as the
  abstract loop. They do not show that an outline allows all that the detail does.
* **SidegateProofs.** `CoreStep` shows that a step of the program is one of `Backend` or a
  stutter, hence `CoreIsBackend`: the invariants and the refinement of `BackendProofs` hold in
  the program. `Pending`, the commands not yet taken with the one a blocked `GpSend` holds,
  carries the rest: `WillStop` (after a wish to be off, a stop follows every start in
  `Pending`, and one is pending, under way or done), `WillLogOut` (a logout is the last of
  them to matter, or is under way, or the session is gone or its removal was refused: `Forgotten`), `QuitIsLast` (nothing is sent
  after a quit), `ExitedIsLast` (no line says "exited" before the loop has ended). `PagesAreTrue` is
  `ShownPageIsTrue` in the program, and `BlockedSendEnds` says that a `GpSend` that blocks the GUI
  thread waits for a core that can still move, from `NeverStuck`.
* **PopupProofs.** `OldFadesAreDone` (a fade that is not the latest touches the window no
  more, but for `raced`), `LatestWins` (what the latest fade has done or will do),
  `OpenOrRecent` (a click that found the popup finds it or is told that it was hidden),
  `IconInv`. `ClickCloses` is an action property. `LossIsNoticed` is what `LeftAlone` needs
  beside fairness: after every change of the focus a frame is due that will compare the two,
  or `show` is about to ask for one.

Every conjunct was checked by TLC before it was proved. There is one step per
action, and the invariants of section 3 are corollaries. A property that is proved and
in no run, such as `ShownPageIsTrue` or `CancelCountsDown`, was checked by TLC on the instance
of section 3 of its module as well.

Only model-checked: all liveness properties, since the prover has rules neither for fairness
nor for `ENABLED`; what their ends rest on, the countdowns and `NeverStuck`, is proved. So is
the agreement of `NeverStuck`'s guards with the steps left to TLC, and the expected violations,
which are counterexamples. Every safety property of a passing run is proved.

## 5. Not modelled, and why

* `cmds` is never closed, so the loop's other end (main.go 74) cannot be reached.
* The text of the address field, the error under it and when it is shown (main.rs
  783); drawing, fonts, animations, the build script.
* `quit` inside `logout`'s request: the process can end between the request and
  `os.Remove` (main.go 193-195); the removal is then lost. Seen, not stated.
* Why a read from a silent peer fails: frames, keepalives and the renewal of the read
  deadline before each of them (main.go 345-347).
* An address that `http.NewRequest` refuses: `Prelogin` and `post` ignore its error
  (gp.go), and a nil request ends the process. The model takes every address that
  `setup` accepts for well formed.
* A `Shell_NotifyIconW` that fails: `Popup` takes the calls that add, change and remove the
  icon to succeed.
* Half-close in `pipe`, the SOCKS handshake, plain HTTP over pooled connections.
* A failed `registerCallback` can leave its key without a command; `Login` has
  this step (`key = "part"`), and `NothingLeft` speaks of a working key only.
* Inbound packets and the stack itself (gVisor); the counter of the resolver, which
  chooses among the VPN's DNS servers.
* Contents: messages, forms, XML, frames (the length is cut to 16 bits, gp.go 198), DPAPI. These are functions of their input, some
  recursive, which TLC could compare with a reference definition but which no
  property of the system depends on.
* Liveness of `Sidegate`, whose state graph is too large for TLC's check of it.

## 6. Disagreements met

| Run | Property | What happens |
|---|---|---|
| `sysproxy_quit` | `QuitRestores` | the GUI's five seconds are over before `openTunnel` returns, and the setting stays (main.rs 69, gp.go 175) |
| `router_routes` | `RoutedIsTunnelled` | a lookup uses up the deadline it shares; the direct connection resolves once more and goes past the tunnel (proxy.go 63-77) |
| `sidegate_off` | `OffMeansOff` | of two clicks on the switch the first fails at once; its goroutine reports "off" after the second has connected, and the page of a live tunnel offers to connect (main.go 134-141) |

More were met while modelling and have no run of their own:

* A gateway that accepts the connection and stays silent in the TLS handshake holds
  `openTunnel` for ever (gp.go 168), and with it `disconnect` (main.go 186), the command loop
  and every later command; a quit then ends by the GUI's deadline. `openTunnel` sets a
  deadline for the answer only (gp.go 175). The liveness properties state this
  exception.
* When `GetStringValue` fails, `setSystemProxy` goes on as if there were no value: it
  overwrites the user's, and `restore` deletes it (sysproxy.go 23-43).
* `logout` ignores the error of `os.Remove` (main.go 195): `session.bin` then stays, and the next
  connect to its gateway uses it.
* After a reconnection the line "on" has no address, since `emit` clears it with every other
  state and only `run` sets it, before the first connection (main.go 88-90, 241).
* A goroutine that ends by itself may report "off" after a logout, with no session to
  reconnect with (main.go 133-141).
* After a rejected session nobody cancels the context, so the pump can wait on a full channel
  for ever (main.go 302-313).

`NamesAgree` makes an exception for suffixes that a gateway writes with capitals
or with a dot at an end: the script tidies them (proxy.go 87) and `internalName`
does not, so such names reach the proxy and are then looked up by the public DNS.
`PublicNamesStayPublic` makes one for a gateway that names no suffix: then every
name is internal (proxy.go 27).

## 7. Plan

Done: `Vpn`, `Link`, `RunTunnel`, `Backend`, `Tunnel`, `SysProxy`, `Login`, `Router`, `Popup`,
`Sidegate`, each component with its proofs. What could be added, most useful first:

1. The converse for `RunTunnel`: every step of it is one of the outlines in `Backend` and
   `SysProxy`, so that these leave nothing out.
2. An abstract specification of a setting that is lent and given back, which `SysProxy`
   implements.
3. `Socks`: the handshake, `pipe` and the ends of its two directions, the resolver's counter
   modulo 2^32.
4. The setup page's field and error against a validation under way.
5. `Codec` and `XmlTag`: `frame` and `readFrame` as inverse functions with a 16-bit length,
   `xmlTag` and `parseACS` over small alphabets, against reference definitions.
