# Personal-VPN in TLA+

A verification project for the program under `src/src` and the window under
`src/vpn_client_ui`: a dual-stack VPN with a multi-threaded Linux server (Boost.Asio,
strands, two mutex-protected tables) and a Windows client (a window thread, an I/O thread
and a packet thread, a network transaction with rollback, and a packet-filter "kill
switch"). The modules follow the source, not the documents; *Disagreements* in section 3
says where the two differ.

## 1. The system

| Part | State | Operations | Talks to |
|---|---|---|---|
| `LeaseManager` | two maps identity/address, id counter | acquire, renew, release, reap | session controllers of all strands, under one mutex |
| `TunnelRouter` | two maps address to weak peer | register, unregister, find | sessions, TUN read handler |
| `SessionController` | state, lease copy, sequence numbers | handle, make_data_to_client, on_transport_closed | LeaseManager |
| `OutboundFrameQueue` | frames, byte count | try_enqueue, pop_front, clear | both tunnel ends |
| `TlsTunnelSession` | timer, pending operations, queue, flags | start, handshake, read, write, deadline, send, stop, close_now | controller, router and registry through callbacks |
| `TlsTunnelServer` | registry, acceptor, TLS context | accept, session closed, reload, stop | sessions, TUN device, credential files |
| `LinuxTunDevice` | write queue, descriptor, handlers | start, read, write, fail, stop | server |
| `run_server` | signal wait, metrics timer, workers | signal, metrics, shutdown | server |
| `ClientSessionController`, `TlsTunnelClient` | as the server's session, without timer | as above, and ping, stop, abort | runtime through callbacks |
| `ClientRuntime` | generation, flags, timers, threads | begin, resolve, connect, configure, retry, finish, stop | tunnel, network transaction, packet thread |
| `ClientNetworkTransaction`, `WindowsNetworkBackend` | what was created, prior MTU | activate, rollback | Windows network tables |
| kill switch | persistent filters, dynamic permit, bypass routes | enable, replace permit, disable | Windows Filtering Platform |
| `VPNClientCore`, `UIMain` | flags of the core, copies the window took of them | connect, stop, disable protection, exit | runtime, kill switch |
| configuration of both ends | arguments, profile, key file | parse, validate, load | lease manager, controllers, network transaction |
| `FrameDecoder`, control messages, broker requests | buffer, offset, failed | push, encode, decode | both tunnel ends |

What makes it hard: handlers of different strands interleave between two lock
acquisitions; an expired timer leaves a handler that cancelling does not take back;
callbacks of an abandoned connection arrive during the next one; objects are held by weak
pointers and raw addresses; any call of a configuration sequence may throw, and the
process may die between two of them; files are replaced while they are read; and the same
rule is checked by different code in different places. `PROJECT.json` lists these hazards
with the line where each bites and the properties that watch it.

## 2. Modules

Methods are operators from an object's value to its next value, under their source names
(`close_now(s, why)`, `acquire(t, identity, now)`); actions apply them. Definitions
introduced by a "Mutant:" comment are deliberately wrong variants of the definition after
them; no specification uses them. They show that a property can fail.

**Server**
- `LeaseManager`: the table and its methods, each a function, since each holds the mutex
  throughout. An absent entry is `NoLease`. The IPv6 address of a lease is derived from the
  IPv4 one and is not stored.
- `LeaseHolders`: the table with all its callers. `held[i]` is the copy of lease `i` its
  holder has (`SessionController::lease_`); a caller may act on it at any time, however old
  it is, with a clock reading up to `MaxDelay` old (the default argument `now` is evaluated
  before the mutex is taken).
- `TunnelRouter`: the methods of the router; `alive` stands for the weak pointers.
- `TunnelServer`: registry, sessions, lease table (an instance of `LeaseHolders`) and router
  together. A handler is cut before every call that takes a mutex; `pc` is the next call.
  Closing is `release`, `unregister4`, `unregister6`, then a posted `RemoveSession`. Every
  lease is dual-stack, since the server's arguments always give a /64 prefix
  (`server_config.cpp:74`), so the tests for an IPv6 address before the second route
  (`tls_tunnel_server.cpp:227`, `:265`) are always met.
  A lease of 0.0.0.0, which IP_ASSIGN cannot carry, ends the session that got it; the pool of
  the run has no such address, and the proofs are for every pool.
- `AddressService`: the abstract promise: an address serves one client at a time and is free
  in between. `TunnelServer` implements it (`ImplementsService`): the owner of an address is
  the session that has queued IP_ASSIGN for it and has not begun `close_now`.
- `TlsTunnelSession` on `OutboundFrameQueue`: one session in detail: timer and queued timer
  handlers (`fired`), handshake, read and write operations, queue, draining and the
  counters. `wire` and `why` are history.
- `LinuxTunDevice`: the device; `stop_on_strand` is cut between emptying the queue and
  cancelling, where a transfer by another thread shows.
- `ServerMain` on `TlsSecurity`: the work that keeps `io_context::run` alive and how a stop
  removes it; a reload reads chain and key one after the other, each at a time of its own,
  while the operator replaces them.

**Client**
- `TlsTunnelClient`: the client's end with its controller.
- `ClientRuntime`: three threads. `rt.io` says where the I/O thread is; it is cut at the two
  joins, at the activation of the network and before the packet thread is created. `stop()`
  is cut between its test and its effects.
- `ClientNetworkTransaction`: `activate` and `rollback` call by call over the ownership of
  addresses and routes, with an administrator who changes the same tables. `made`, which
  says at which step the client made what it has, is history.
- `KillSwitch`: the policy in force, the transaction of the platform, the dynamic permit, and
  the two ways of disabling (the window, and a process run with `--disable-kill-switch`).
- `ClientApplication` extends `KillSwitch` to the program: the window thread with the copies
  it took of the core's flags in the last frame, `VPNClientCore`, and the I/O thread that
  enables the protection and reports in callbacks; the program may crash anywhere.

**Configuration and protocol**
- `ServerConfig`, `ClientConfig`: the arguments the server and the profiles the client
  accept, the access list of the private key, and the two parsers of a route. A text is
  what it denotes; one that denotes nothing is a value of its own.
- `ControlMessages`, `BrokerProtocol`: the payloads and requests byte by byte, numbers in
  16-bit words so that all keep their width.
- `PacketPolicy`: the checks on an inner packet, which the code makes in three places.
- `TunnelSetup`: from the two texts to installed routes: parse, load, CLIENT_HELLO and
  IP_ASSIGN as bytes, the lease, the accepted assignment, the routes; the key file may be
  replaced between two steps.
- `FrameDecoder`: framing over a header of two bytes (a mark for magic, version, type and
  flags, and the payload size), checked against a byte-by-byte reference. `encode_frame`
  writes nothing for a payload above the limit, where the code throws.
- `WireProtocol`: the stream, the setup and the payloads with changed bytes, side by side.

`MC_*` modules give constants their values. How the parts compose: `TunnelServer`
instantiates `LeaseHolders` and extends `TunnelRouter`; `ServerMain` extends `TlsSecurity`
and `ClientApplication` `KillSwitch`; `TunnelSetup` joins both configurations with the
messages and packet checks of both ends, and `WireProtocol` extends it, `FrameDecoder` and
`BrokerProtocol`; the two tunnel ends share `OutboundFrameQueue`,
and `LinuxTunDevice` instantiates it under its own names. Between the other modules the
interface is an assumption that one side makes and the other checks: `ClientRuntime`
assumes that a tunnel asked to stop closes (`TlsTunnelClient`: `StopCloses`), `ServerMain`
that a session told to stop closes (`TlsTunnelSession`), `TunnelServer` that a draining
session ends (`SilentSessionEnds`). In the modules with concurrency the validity of a
packet is a free choice; which packets are valid is in `PacketPolicy`.

## 3. Runs

| Run | Checks | Distinct states |
|---|---|---|
| `lease_holders` | maps inverse, holders protected, ids used once, live entries stay | 29,238 |
| `tunnel_server` | implements `AddressService`; an assigned session is routed, no lease leaks, closing sessions are forgotten | 152,608 |
| `session` | order on the wire with one write in flight and one to wait for when draining, counters and close handler once, a silent session ends | 70,447 |
| `tun_device` | order with one write and always a read, one failure report, stop releases | 24,881 |
| `server_main` | accepts until stopped, with a certificate and key that belong together; signals served and new credentials used; a stop drains for good | 186,571 |
| `tunnel_client` | order, one write in flight and nothing after CLOSE; data needs the adapter; stop closes | 109,771 |
| `network_transaction` | all or nothing, with everything owned recorded for the rollback; own objects undone newest first and foreign ones left | 20,532 |
| `client_runtime` | the reader has its session and is alone, deliveries to the own network, ends clean and with a reason; stop and failure end the runtime | 54,928 |
| `client_application` | policy whole, connects only protected, protection stays; status true, buttons spare a tunnel, the window disables alone, `Stop` returns | 195,259 |
| `wire_protocol` | decodes any division of a stream; accepted configurations are served, the ends agree about assignment, packets and routes, the key is private; codecs are exact | 54,135 |
| `server_exit_metrics`, `tunnel_client_final` | two statements the code does not meet (*Disagreements*) | |

`AcceptedIsServed` excludes three configurations by name (`Defective`). The checks of
`LeaseManager`'s constructor let them pass and a later check does not, so such a server
starts and refuses clients: a gateway at the edge of a network with a prefix of at most 30,
which every client refuses; a pool with 0.0.0.0, which IP_ASSIGN cannot carry; a pool with
the address whose IPv6 counterpart is the IPv6 gateway, for which `acquire` throws. The
last is excused only where it shows: the session was ended with the code LeaseUnavailable.
The run shows that the instance has no others.

### Bounds

Every bound is a named constant. In `lease_holders` two identities and two addresses let an
address pass to the other identity and back; the id counter is small enough to wrap
(`IdModulus`), a lease short enough to expire (`LeaseDuration` against `MaxClock`).
`tunnel_server` has two connections, of the same or of different identities, and one
address: every conflict over an address is between a session that has it, or is giving it
up, and one that wants it. That more connections and addresses add nothing is proved for
its safety properties (section 4). No symmetry is used, since the run checks temporal
formulas. Queues hold two frames and three bytes with frames of one and two bytes, so that
either limit can be the one met. `MaxFired = 2` allows two expired deadlines at once; a read brings up to `MaxBatch = 2`
frames, so that the second meets what the first did to the session. Three
signals make a second SIGHUP arrive while the first is handled, and a SIGTERM after it. Two
connection attempts and two stops let the second tunnel meet the callbacks of the first.
`client_application` has a server of each family, of which a resolution may return one or
both, and three adapters: two connections and a restart.

`wire_protocol` has every stream of up to six bytes, which hold two frames with a payload
or a bad header after a good frame, in every division; every pool and gateway in networks
of eight addresses at 0.0.0.0 and 10.8.0.0; arguments and profiles with one thing out of
the ordinary; all MTUs around their limits; every access list of up to two entries; packets
with sizes and fields around the limits; and every payload with one byte changed, lost or
added (`MaxChanges`). Addresses have a first byte below 128, since TLC's integers end at
2^31.

`CHECK_DEADLOCK FALSE` appears where the modelled part really ends: a session or device
that is closed, a process that has exited, a stream that has been read, a bound on
connections or clock that has been reached.

### Fairness

No fairness is assumed of clients, servers, the network, signals, users or packets, except
that a TCP write completes or fails (`TlsTunnelClient`). Fair are: handlers that are queued,
since an `io_context` with a running thread runs them; timers, since time passes; the
continuation of a handler or call that has begun (in `ClientApplication` the window thread
inside a call of the core, the I/O thread, and a removal of the protection once begun); the
packet thread while it can run or its interrupt event is set (not the arrival of a packet);
and the closing of a tunnel or session that was told to stop, which the module of that
tunnel or session checks. `SilentSessionEnds` uses only the timers.

### Disagreements

Two runs check one statement of the documentation each and find it violated by what the
code does; `PROJECT.json` quotes the documents.

| Run | The code |
|---|---|
| `server_exit_metrics` | a metrics handler that is queued at the shutdown re-arms its timer, and `io_context::run` does not return |
| `tunnel_client_final` | a protocol error found by the client, and likewise a server's ERROR in place of the assignment, closes the tunnel as one to be retried |

The modules also state, under "What the documentation says", the following. No run has
them; each is refuted when it replaces the properties in the configuration of its module.

| Statement | Said by | The code |
|---|---|---|
| `TlsTunnelSession`: `ErrorReachesWire` | `session-io.md:16` | a TUN packet for a failed session closes it before its ERROR frame is written |
| `TlsTunnelSession`: `DownlinkCounted` | `observability-and-limits.md:11` | IPv6 packets and overflows to a client are not counted |
| `LinuxTunDevice`: `PendingWriteIsQueued` | `linux-tun-io.md:9` | `stop_on_strand` empties the queue before it cancels the write of its first packet |
| `ServerMain`: `ShutdownCompletes`, `Metrics = FALSE` | `overview.md:53` | a queued SIGHUP handler waits for signals again; with `Signals <- OnlyTerm` the statement holds |
| `TlsTunnelClient`: `StopDrainsQueue` | `client-transport.md:23` | a second stop discards the queued CLOSE |
| `ClientRuntime`: `FinalStateStays` | `client_runtime_tests.cpp:416` | a `stop` that has passed its test leaves a finished runtime in state Stopping |
| `ClientRuntime`: `TimeoutBeforeTunnel` | the message at `client_runtime.cpp:148` | a queued connection timeout tears an established tunnel down |

When the packet thread cannot be created (`client_runtime.cpp:291`), after the network was
configured and Connected was reported, the exception leaves `configure_network` through the
tunnel's read handler, which closes the tunnel for good (`tls_tunnel_client.cpp:188`); the
runtime then finishes as after any final failure. `Connected` and `IoThread` model it, and
`EndsClean` and `StatusIsTrue` hold without exception.

One reading of `docs/security/windows-dual-stack-kill-switch.md:12` is met by no property:
`requests_full_tunnel` compares texts, so that a default route spelled otherwise than
`0.0.0.0/0` or `::/0` is accepted with `allow_default_route` and installed, but is not taken
for a full tunnel and the protection is not enabled. The models of the protection start
from a profile that asks for it.

## 4. Proofs

Eight modules hold theorems. All are for every value of the constants under the named
assumptions; bounds such as `MaxClock` or `MaxAdapters` occur in them but are arbitrary.
Each component has an inductive invariant from which its theorems follow. A proof module
covers components that share lemmas: `FrameProofs` has what is said of queues, numbering and
decoding, and the proofs of both tunnel ends and of the setup extend it.

**`LeaseHoldersProofs`** (assumes `LeaseConstants`, what the constructor enforces and that
the counter has more than one value, and `HolderConstants`): for every pool, every set of
identities, lease duration, delay and size of the counter,
- `TypeCorrect`: `Spec => []TypeOK` (proved only, no run repeats it);
- `MapsInverse`: the two maps stay inverse;
- `HoldersAreProtected`: an unexpired, unreleased lease is in the table exactly as its
  holder's copy says;
- `GenerationsAreFixed`: an id names one identity and one address for ever;
- `LiveEntriesStay`: an unexpired entry leaves only by its own holder's release.

`HolderProtected` is not inductive. A release compares identity, id and address with the
entry, so it is harmless only if an id is never issued twice and if the entry is what its
holder's copy says. `IInv` adds that ids in use are behind the counter or the counter is
exhausted (`IssuedBehindCounter`), that entries equal the copies of their holders and are
unreleased (`EntriesAreHeld`), and that released leases were held. `Sound(t)` states these
of any table, because every method first reaps: lemma `ReapSound` shows that reaping with a
stale time keeps it, and `AcquireStep`, `RenewStep` and `ReleaseStep` start from the reaped
table. A stale time can only reap less, which is why `MaxDelay` needs no relation to
`LeaseDuration`.

**`TunnelServerProofs`** (assumes `ServerConstants`, which repeats the two above for the
instance, and `RouterConstants`): for any number of connections, identities and addresses,
- `RoutesAreKept`: a client that was sent its address keeps both routes until `close_now`;
- `LeasesAreReturned`: every lease in the table is with a session still to release it;
- `ServiceIsImplemented`: `Spec => Service!Spec`, the refinement of `AddressService`.

The invariant has the lease invariant of `LeaseHoldersProofs` (an instance: its step lemmas
are used as they are, and four lemmas say what each method does to the entries' ids), the
consistency of a session with the handler it is in (`Consistent`), the routes (`RoutedInv`)
and the leases (`LeasedInv`). `AssignedIsRouted` alone is not inductive: between `register4`
and `register6` a session already owns the IPv4 route without being served, and on this
route the uniqueness of the next assignment rests. The argument: a session between its
creation and the end of `close_now` is alive (`RegisteredIsAlive`), and none of the
router's methods touches the entry of another peer that is alive (`RegisterMaps`,
`UnregisterMaps`, `FindMaps`), so late calls for an address that has passed on are
harmless. A successful `Register6` is then `Assign`, since the IPv4 route leads to this
session and every other served one would need it; `close_now` of a served session is
`Withdraw`; everything else stutters. Expiry plays no part: an address whose lease expired
can be leased again, but the registration is refused while its old session is served.

**`ClientProofs`**, the application (assumes `AdapterBound`, `EndpointFamilies`): for any set of
servers and any number of connections, crashes and removals,
- `PolicyStaysWhole`: no half policy is in force;
- `TunnelIsProtected`: a tunnel is tried and used only under the policy of its servers;
- `ProtectionIsKept`: the protection ends only in `disable_windows_kill_switch`;
- `FlagsAreTrue`: between two frames `running_` and `connected_` are true of the runtime,
  whichever call failed, the creation of the packet thread included;
- `TunnelIsSpared`: no button that the window offers by flags read in an earlier frame stops
  a tunnel that works or is being made;
- `WindowIsAlone`: the window removes the protection only without a runtime or permit.

The invariant says, for each place of `enable_kill_switch`, what the open transaction has
written so far (`WriterInv`); that after the commit the policy in force is the complete one
for the resolved servers or was removed by a disabler, and that from the opening of the
permit to the end of the tunnel it is the complete one (`PolicyInv`); and where the window
thread can be (`WindowInv`). A removal needs the platform's one write transaction, as an
update does; the permit cannot be opened without the sublayer, and the sublayer cannot go
while the permit refers to it: these facts carry the proof. For the flags, `StatusInv` says
what each of them is in the middle of every callback, between its two stores, and that a
window which offers Connect has seen `running_` cleared, after which only the window itself
can start a runtime.

**`ClientProofs`**, the tunnel (assumes `QueueConstants`): for any limits of the queue, frames
in a read, packets, pings and stops,
- `ClientWireInOrder`: what is on the wire was numbered in that order and without a gap,
  nothing follows a CLOSE or an ERROR, one write is in flight exactly when a frame is queued,
  and a tunnel that closes after its last write has one to wait for;
- `ClientDataNeedsAdapter`: no packet passes in either direction before the network is
  configured.

`ClientInv` is `Proper(s)` of the tunnel's value. Order and accounting are as in the server's
session; that nothing follows a final frame needs that only a tunnel with
`close_after_write_` has queued one and that its controller then makes no other
(`Closes`). `DataNeedsAdapter` needs that an established controller has a configured network
(`Serves`), and this that nothing is read before the handshake has started the controller
(`Starts`).

**`FrameProofs`** (assumes `QueueConstants`, `Limits`): the lemmas on queues, and for every
stream of bytes, every division of it into reads, any resets and every limit of a payload
- `StreamIsDecoded`: `push` returns the frames that a reader of single bytes finds, fails on
  the first bad header and for good, gives back what `encode_frame` wrote, and keeps less
  than one frame of the largest size.

The reference reader is a recursive function of the position in the stream. `Partial` says
where it is inside a frame; a round of `push` over a buffered header or frame moves the reader
by as many bytes (`Scanned`), and when the loop ends the rest of the buffer is less than a
frame or the reader has failed (`Ended`). `FramesInv` relates the unread bytes of the buffer
to the end of what was pushed. Inductions over positions or numbers of frames use the least
member of a set of counterexamples (`WFMin`), since the library's induction theorems take an
operator.

**`ServerProofs`**, the session (assumes `QueueConstants`, which the queue's constructor
enforces, and `SessionConstants`): for any limits of the queue, frames in a read and expired
deadlines,
- `WireIsInOrder`: what is on the wire was numbered in that order and without a gap, one
  write is in flight exactly when a frame is queued, a draining session has a write to wait
  for, and the queue keeps its limits;
- `SessionCountedOnce`: counters and close handler of the end run once.

`Good(s)` is stated of a session's value, so that it holds between two calls of one handler:
the numbers on the wire are continued by those in the queue (`Numbered`), `queued_bytes_` is
the sum of the sizes queued (`Accounted`, with the partial sums as witness), and a session
that is not stopped has not been counted (`Counts`). `handle_read` loops over the frames it
decoded. The loop is a recursive function of the number of frames: `LoopExists` and
`LoopKeeps` prove by induction that it is defined and keeps what its body keeps.

**`ServerProofs`**, the life cycle (no assumptions): for any signals, sessions, reloads and
replaced files,
- `ServerServes`: a started server that was not stopped has an accept pending or its handler
  queued, and a context whose key belongs to its certificate;
- `StoppedStaysIdle`: an action property, proved only: a server that has stopped and given up
  listener, device and sessions never has one of them again, whatever is still queued.

`ServesNewSessions` is inductive as it stands, since `FinishContext` compares the key with the
chain it has read, at whatever times it read them. `StoppedStaysIdle` needs that sessions are
counted by natural numbers.

**`ClientRuntimeProofs`** (assumes `Bounds`): for any number of connections and stops,
- `SessionOutlivesReader`: the packet session is not closed under the packet thread, and
  both are gone before the next are made;
- `DeliversHome`: a packet reaches only the network of the connection it came from;
- `RuntimeEndsClean`: an ended I/O thread has left neither network, tunnel nor packet thread,
  whichever call failed, the creation of the packet thread included, and reports a failure
  only if one was recorded.

A generation is handed out once, and everything pending belongs to the present or an earlier
one (`Counted`). What the properties need beyond this is that at most one attempt is under
way (`Waiting`), that `tunnel_` is that of the present generation (`Current`), that network
and reader are those of `tunnel_` (`Attached`), and that whatever ends the runtime has set a
reason before (`Reasons`).

**`HostNetworkProofs`**, the server's device (assumes `PacketSize`): for any limits of the
queue and any number, sizes and results of transfers,
- `KernelOrder`: the kernel has the packets in the order posted and without a gap; a running
  device has one write under way exactly when a packet is queued, and always a read;
- `FailureIsReported`: the failure of a started device is reported once, a stop never.

A packet that the kernel has taken stays in the queue until the handler of its write has
run. `Handled` is the number of packets behind that point; queue and posted packets continue
the numbers from there (`DeviceOrderInv`). That a write of the expected size has reached the
kernel needs that no packet in the queue is empty. Once the device is stopped the invariant only
keeps what the kernel has and the one write that may still be pending, which is what the gap
between emptying the queue and cancelling leaves possible.

**`HostNetworkProofs`**, the client's transaction (assumes `Profiles`: `route_cidrs` is a
sequence of routes, which may repeat some): for every profile, host and number of activations,
- `WholeOrNothing`: the configuration is complete and what the client owns is exactly what
  the transaction recorded for its rollback, or the client owns nothing and the MTU is the one
  that was found, whichever call throws;
- `UndoIsOwn`: an action property: foreign objects are left alone, and what is undone is
  always the newest thing made.

`PhaseInv` says what the transaction can have at each step, `MtuInv` that the snapshot is
what was found, also when only one family has been set, and `OwnInv` that the client owns
what the transaction says it created. For the order, `KnownInv` and `OrderInv` give each
thing made its age: the fixed calls their place in `activate`, the routes ages that grow
along `created_routes_`, whose last member is therefore the newest.

**`TunnelSetupProofs`** (assumes `ReadersAssumption`, and `Limits` for the last):
- `KeyStaysPrivate`: the key in use could be read by no stranger when it was read, for
  access lists of any length and order and any replacement of the file;
- `EveryPacketAgrees`: in a tunnel whose ends hold the same assignment every packet, of any
  size, that one end sends passes the other;
- `PacketsFit`, `RoutesFit`: in every behaviour `EndsAgree` implies `PacketsAgree` and
  `RoutesAgree`, for every profile and set of arguments;
- `FramesAreDecoded`: `StreamIsDecoded` for the composed specification.

`KeyInv` says that the key in the context passed `validate_private_key_acl`, `StageInv` what
each stage has validated.

Only model-checked: all liveness (`ClosingIsForgotten`, `SilentSessionEnds`, `StopReleases`,
`SignalsServed`, `StopDrains`, `StopCloses`, `StopEnds`, `StopReturns`), since the prover has
neither fairness nor `ENABLED`; and `EndsAgree`, `AcceptedIsServed` and `CodecsAreExact`,
which rest on what flattening and cutting the byte sequences of messages computes.

## 5. Not modelled

- `vpn_base/`, the implementation this one replaces, and the export of metrics, which formats
  a snapshot of counters.
- Calls of OpenSSL that only configure a context (options, cipher suites, names, SNI) and the
  fingerprint of a certificate: an identity is a model value.
- `LinuxTunDevice::open`, the loading of Wintun, the system calls behind
  `WindowsNetworkBackend` and the encoding of filter conditions: a call succeeds with its
  effect on the modelled state or throws.
- Windows, layout, dialogs and log text of the user interface, and the order in which the
  members of `UIMain` are destroyed.
- The spelling of numbers, addresses and JSON: a text is what it denotes. Fields of a frame
  header other than the size are one mark, and checks on them one comparison.
- The lifetime of objects held by raw pointers, beyond the weak pointers of the router.

## 6. Running

    tlc -config LeaseHolders.cfg MC_LeaseHolders
    tlapm LeaseHoldersProofs.tla

and likewise for the other configurations; `PROJECT.json` names the module of each run.
`ClientProofs` takes about fifteen minutes and `HostNetworkProofs` about thirteen, because the
facts of two components are in one context; `FrameProofs`, `ServerProofs`,
`TunnelServerProofs` and `TunnelSetupProofs` about five each, `ClientRuntimeProofs` three to
four and `LeaseHoldersProofs` two or less.
