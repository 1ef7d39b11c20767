# Verification of the protocol stack

TLA+ models of a user-space TCP/IP stack in C (`arp.c`, `ip.c`, `tcp.c` over
`net.c`, `ethernet.c`, `raw.c`, with `util.c`), checked with TLC on small instances and proved
with TLAPS for all instances. Lines are given as `file:line`.

## The system and its parts

| Part | Code | State | Who runs it |
|---|---|---|---|
| Raw devices | `raw.c`, `raw/soc.c`, `raw/tap_linux.c` | a file descriptor | receive thread, senders |
| Ethernet | `ethernet.c` | `ethernet_priv`: thread, `terminate`, raw device | `open/run/stop/close` by the application; one receive thread per device |
| Device registry | `net.c` | lists of drivers, protocols, devices, interfaces, no lock | set-up, then read by all |
| ARP | `arp.c` | `arp_table`, one mutex, one condition variable per entry | receive threads (`arp_rx`); every sender (`arp_resolve`) |
| IP input | `ip.c` 95-230, 300-378 | list `fragments`, `count`, one mutex | receive threads |
| IP output | `ip.c` 380-476 | the id counter | every sender |
| IP interfaces, protocols | `ip.c` 237-293, 478-499 | `default_netif`, `protocols` | set-up |
| TCP | `tcp.c` | `cb_table`, one mutex, one condition variable per block | receive threads (`tcp_rx`); application threads (`tcp_api_*`) |
| Utilities | `util.c` | none (pure) | all |

A frame goes from the receive thread of its device through `ethernet_rx` and
`netdev_rx_handler` to `arp_rx` or `ip_rx`, and from there to `tcp_rx`, all on
that thread. A segment goes from `tcp_tx` through `ip_tx` and `arp_resolve` to
`ethernet_tx`, on an application thread or on a receive thread. The mutexes of
ARP, reassembly and TCP are separate; TCP's is held while `arp_resolve` runs.

## Modules

| Module | Models | Actions |
|---|---|---|
| `Arp` | `arp.c`, `ip_tx_netdev` | `ArpRx`, `ArpRxFinish` (the two critical sections of `arp_rx`); `ResolveFound/Wait/Query/Error`, `TimedOut`, `SpuriousWakeup`, `ResumeError/Found` (`arp_resolve` before, during and after its wait); `Tick` |
| `IpFragment` | `ip_rx`, `ip_fragment_*` | `RxDirect`, `RxKnown`, `RxNew`, `RxRefused`, `RxCorrupt`, `RxAborts` (`ip_rx` up to the unlock in `ip_fragment_process`); `Deliver` (the handler and the free); `Tick` |
| `Tcp` | `tcp_api_open`, `tcp_api_connect`, `tcp_rx`, `tcp_event_segment_arrives`, `tcp_tx` | `tcp_api_open`, `ConnectRefused`, `ConnectSends`, `Wakeup`, `Resume`, `RxFound`, `RxUnknown` |
| `Util` | `util.c`, the pseudo headers of TCP | none: operators for byte order, checksum, masks |
| `IpTransfer` | `ip_tx`, `ip_tx_core`, `ip_generate_id`, composed with `IpFragment` at the receiver | `ip_tx`, `ip_generate_id`, `TxPiece`, `TxFails`, `TxReturns` (the loop and its two exits); `Receive`, `Deliver`, `Tick` |
| `ArpService` | what ARP promises `ip_tx_netdev` for a packet (abstract) | `Take`, `SendNow`, `Answer`, `GiveUp`, `Proceed` |
| `IpService` | what IP promises its users (abstract) | `Send`, `Succeed`, `Fail`, `Give` |
| `Ethernet` | `net.c`, `ethernet.c`, the receive side of `raw/` | registration and allocation; `ethernet_open/run/stop/close`, `Joined`, `BadJoin`; the receive thread: `RxStart`, `RxTest`, `RxNothing`, `RxFrame`, `RxReturn` |
| `Stack` | the threads of `Ethernet`, `tcp.c` and `arp.c` together, IP interfaces | `ip_netif_register`, `tcp_api_connect`, `Lock`, `ConnectRefused`, `ConnectStale`, `Resolve`, `TimedOut`, `ArpResume`, `ConnectReturns`; `arp_rx`, `arp_rx_closed`, `tcp_rx`, `tcp_rx_quiet`; `Close`, `Join` |
| `ArpRxProofs`, `ArpProofs`, `IpFragmentProofs`, `TcpProofs`, `UtilProofs`, `IpTransferProofs`, `StackTxProofs`, `StackProofs` | | the theorems |
| `MCArp`, `MCIpFragment`, `MCTcp`, `MCIpTransfer`, `MCStack` | | values for TLC |

A critical section is one action: every other thread is kept out, and what the
section calls (patrol, update, broadcast, the transmit) is part of the action.
Threads interleave where the code releases a mutex.

*Arp.* An entry is a record with the fields of `struct arp_entry`. A thread in
`pthread_cond_timedwait` is `waiting` on a slot; a broadcast makes it
`signalled`, the deadline `timedout`, and it continues later, when it has the
mutex. Packets are model values; `fate` and `frames` record what became of each.
`arpOut` is what the last step handed to a driver. `Announce` is the set of
bindings stations announce; an address may be announced with two hardware
addresses (a station that moved). No station announces the zero address: this is
an assumption about the stations. `arp_rx` does not check the sender's hardware
address, and with zero the entry would look like an unanswered query, so
`OneQueryPerAddress`, `AskedWhenWaiting` and `NoLostWakeup` rest on it. Callers and receive threads are separate
threads; a receive thread that calls `arp_resolve` itself can do less than that,
so safety carries over. `ArpService` is the life of a packet without table,
clock and threads; its `sent` is read off `frames`.

*IpFragment.* A datagram is a number of 8-byte units and the mask a set of
units, set and tested by `Util`'s `maskset` and `maskchk`. Any piece of any datagram arrives at any time on any thread, which covers
loss, repetition, reordering and overlap. Undefined behaviour is explicit:
`status = "corrupt"` once the patrol has freed an object it goes on using: the
list then ends before the expired object, because what follows hangs on freed
memory (`RxCorrupt`). `heap = "overrun"` after `maskclr`, which gets bytes for
elements on every allocation (`ip.c:113`); from then on the next `malloc` or
`free` may or may not abort, as glibc does. The static `timestamp` of `ip_fragment_process`
(`ip.c:179`) is never written, so the patrol runs on every call. A sender does
not reuse an id while old pieces may arrive (`DatagramAssumption`).

*Tcp.* A control block has the fields the code reads; windows and urgent
pointers are never read. `Arrives` lets the network deliver at any time anything
a conforming peer may have sent: an acknowledgment of a SYN that was sent from
that port to that peer, now or earlier (`syns`), and anything without the ACK
bit, where the acknowledgment field means nothing and has any value of
`StrayAck`. Payloads have the lengths `PayloadLen`. Sequence numbers are `0 .. SEQ - 1` with wrapping addition; `random()` gives
the lower half. An interface is registered before the first call
(`DefaultIface`). `LISTEN` is unreachable: `bind` and `listen` have no body. The
`sprintf` to `stderr` at `tcp.c:195` is undefined behaviour that has no effect
with glibc, and is left out.

*Util.* Numbers are kept in 16 and 32 bits. `cksum16` starts from the sum of the
words; its loop over a buffer is that sum. A mask is the set of its bits, `WORD`
in an element; `maskset` and `maskchk` work on the end of one element, whole
elements and the start of another, as the code does, for `len > 0`.

*IpTransfer.* Two hosts with this stack. `tx` is where each thread is in `ip_tx`,
`result` what `ip_tx` returned, `wire` every piece sent, which the network
delivers never, once or often, in any order. The offset of a piece is `done` cut
to 13 bits (`OFF_MOD`), as in `ip.c:470`. `ip_tx` has no length check:
`SenderAssumption` leaves it to the callers that no datagram is longer than that. The receiver of `IpFragment` knows
datagrams by keys that do not clash; that ids may stand for these keys is the
invariant `IdsUnique`, for up to `ID_MOD` calls. A counter that wraps further can
meet a datagram still in reassembly: that is the code's limit and the bound of
the model. `given` of `IpService` is the set of datagrams a handler was given
whole.

*Ethernet, Stack.* `priv` counts the objects a device had, so that a thread with
the pointer of an earlier opening is seen; `thread` and `terminate` are its
fields. The calls that wait (`stop`, `close`) are two actions around
`pthread_join`. `status` names undefined behaviour and stops the model. The
loop rereads `terminate` on every turn, as it must after a call through a
pointer. `Stack` keeps of ARP and TCP what a thread can block on or dereference;
an ARP entry is unknown, asked for with a packet held for a device, or known.
The returns of `connect` and `tcp_rx` all unlock and are one operator (`Leave`):
which of the unlocks a return goes through is not told apart.
How the interface is used comes from the programs under `test/`: protocols
first, then devices; a device is closed when no other thread is sending. A
connection is never signalled (`tcp.c:475`), so `connect` only returns after a
spurious wakeup that finds the state changed.

## Runs

| Run | Result | What it shows |
|---|---|---|
| `MCArp` | holds | 2 slots, 2 devices (one with an IPv4 interface), 2 callers, 3 packets, 2 addresses and 3 hardware addresses, time 0..2, expiry after 1. Slots get full, expire, are recycled and resolved while callers wait. `ServiceImplemented` is the refinement of `ArpService` |
| `MCArpFew` | holds | 3 slots, 3 packets to one address over two devices: room for duplicates; two threads sleep on one slot while it is cleared and recycled (`NoLostWakeup`); `CallReturns` under fairness |
| `MCArpFound` | violated | a recycled slot gives a waiter another station's address (`arp.c:327`) |
| `MCIpFragment` | holds | 2 threads, 3 datagrams of up to 3 units, limit 2, time 0..3, expiry after 1: the limit is reached, objects expire, pieces overlap; `PartsKept`: what was received is only lost to a patrol that meets an expired object |
| `MCIpFragmentFull` | violated | `count` is not reduced on expiry (`ip.c:186`) |
| `MCIpFragmentPatrol` | violated | the patrol frees the wrong object (`ip.c:165`) |
| `MCTcp` | holds | 2 blocks, 2 ports, 2 threads, 2 interfaces, 4 sequence numbers, 2 different SYNs: blocks are reset, reopened and connected again, with segments of the first connection still arriving (`OldAnswersIgnored`), and SYNs without the ACK bit whose acknowledgment field is 0 or the largest number; `AnswersEnd`: from each reachable block, for every segment |
| `MCTcpAcked` | violated | a SYN without the ACK bit establishes the connection if its acknowledgment field is above `iss` (`tcp.c:209`) |
| `MCTcpWait` | violated | `connect` is never woken (`tcp.c:475`) |
| `MCIpTransfer` | holds | 3 datagrams of 3, 3 and 1 units in pieces of 2, 2 sending and 2 receive threads, 3 ids starting at the last, limit 2: calls interleave, fail half way, the counter wraps, the limit is reached, objects expire. 146,221 states |
| `MCStack` | holds | 2 devices, one opened twice, 2 interfaces, 1 connecting thread, 1 peer: stop, close and reopen against a receive thread in any place; a second interface is refused; threads wait for an address with the TCP mutex held. 82,335 states |
| `MCTcpPort` | violated | two sockets in use with one port (`tcp.c:431`) |

The violated properties state what a comment or a test of the repository says;
`PROJECT.json` quotes it. Everything else holds *beside* these defects: for
instance reassembly never delivers a wrong datagram as long as the process has
not been corrupted, and TCP resets its own connection only when two blocks
share a port. `MCStack` reaches three kinds of undefined behaviour.
`UndefinedOnlyKnown` permits these and says that there are no others: a packet held by ARP for a
device closed since, the join of a thread that could not be created, and a
connection over an interface that `ip_netif_register` freed.

Deadlock is checked in `MCTcp*`. In the others the clock, the packets or the
number of openings are bounded, or undefined behaviour stops the process.

**Bounds.** `MaxTime` stops the clock one patrol after everything could expire.
`MaxConnect` bounds the number of different SYNs, `MAX_OPEN` how often a device
is opened (twice, for a thread and a pointer of an earlier opening), `ID_MOD` the
number of ids, `StrayAck` and `PayloadLen` what a segment carries where the code
does not look closer. Two slots, blocks or objects
are the least for first-match searches, recycling and a list with a successor;
two threads of each kind the least for a race. Threads that only differ in name
are symmetric, and so are packets with one next hop and device, the two hardware
addresses of one station, and datagrams of one size. The theorems have no bounds.

**Fairness.** `CallReturns` assumes that the clock advances, that a timed wait
ends some time after its deadline, and that a thread that can get a mutex
eventually does: critical sections are short and nobody keeps a mutex while
blocked in ARP. Nothing is assumed of the network. `ConnectWaitEnds` assumes
that a woken thread runs. A spurious wakeup is possible but never assumed.
`JoinReturns` and `MutexReleased` assume that a thread that can run does run
(`poll` and the wait for an address end within a second) and strong fairness for
the TCP mutex: a thread that finds it free again and again gets it. Weak fairness
is not enough, because between two attempts of one receive thread another may
take and release the mutex for ever. ARP answers are not assumed.

## Theorems

All are for every value of the constants under the named `ASSUME`s (types of
the constants, distinctness of the null values, unique datagram keys, finitely
many devices with a netif in `Arp`).

*ArpRxProofs, ArpProofs.* The properties of the table are not inductive one by one: that a
recycled slot has no stale address needs that free entries are blank, and that
a packet is sent once needs that it is held once and that a waiter still owns
its packet. `IInv` is the conjunction of `TypeOK`, `TableInv`, `HeldExactlyOnce`,
`WaitersOwnPackets`, `SentExactlyOnce`, `SentToAnnounced` and `RxAnnounced`
(what an `arp_rx` between its two halves remembers was announced). One lemma per
action. `FreeBlank`, `HeldPending`, `BindingsAnnounced`, `OneQuery`, `PacketsHeldOnce`, `PacketsSentOnce`,
`PacketsSentToAnnounced` and the action property `BindingsKept` follow.

`WaitersAsked` is about what a step hands to the driver. `WakeupsReach` needs no
other invariant than types and that a cleared entry has no address: an entry gets
an address only in the step that wakes all who sleep on it (`BroadcastWakes`), be
it an update or an insert into a recycled slot, and nobody goes to sleep on an
entry that has one. `DuplicatesLimited`
counts: `DupInv` says that the entries of an address and the receive threads
about to insert it (`Learners`) are together at most one more than the devices
with a netif. An insert moves a thread from one side to the other; a thread
starts to learn, and a query enters an address, only when it has no entry. `ServiceRefined` is the refinement `Spec => Service!Spec`
(`ArpService`), one step per action (`ServiceStep`); it needs of `IInv` that
the bindings were announced, a held packet is held once and a waiter owns its
packet.

*IpFragmentProofs.* `ListInv` (own units only, unique keys, none complete) is
shown to be preserved by detaching, by the patrol, by a new object in front and
by storing a piece, each as a lemma on sequences; with `CountBoundsList` and
what the threads hold (`RxIntact`) it is inductive. `Reassembly` is the main
result: handlers get only whole datagrams. `PartsStay` is the converse: `KeptIn`
relates an object before and after detaching, patrol and storing, so a step
takes away an object that is not complete only when it, or an object before it
in the list, has expired. The second case is the defect at `ip.c:165`, which loses
live objects behind an expired one; `NothingLost` says that there is no other.

*TcpProofs.* `EventSound` says what `tcp_event_segment_arrives` does to one block,
and `Blocks` lifts it to the table. It needs that initial numbers have 31 bits:
the plain comparisons at `tcp.c:180` are right only because `iss + 1` does not
wrap (`AddIss`). `OldAnswersHarmless` needs that every SYN's number has 31 bits
(`SynNumbers`): then `iss < ack <= snd.nxt` leaves one number only, and that is
not the answer to another SYN. `ResetsSound` uses that `tcp_rx` takes the first match and that a
block with a port has the routed interface. `AnswersBounded` ranks segments by
their flags: a reset without acknowledgment causes no answer, a SYN at most
four in a row. It needs that `snd.una` is set (`tcp.c:209`) before it is compared
with `iss`: a SYN with an acceptable acknowledgment gets an ACK, not a SYN again.

*UtilProofs.* `NetworkOrder`: `hton` and `ntoh` undo each other. A fold keeps the
sum modulo 65535 (`FoldCongruent`), so a checksum is accepted exactly when two sums
agree modulo 65535 (`AcceptedWhen`); `ChecksumAccepted`, `ChangeNoticed` and
`TcpChecksumAccepted` follow. The last one says that what `tcp_tx` sends is
accepted by `tcp_rx` exactly when the two addresses agree in their lower halves,
because `tcp.c:275` adds our own half twice. `MasksetExact` and `MaskchkExact` say
that the three parts of a range make up the range, for every `WORD`; the proofs
about `IpFragment` use them.

*IpTransferProofs.* `ServiceRefined` is the refinement `TransferSpec =>
Service!Spec`. It needs that every unit in a mask, in a thread's hands or
delivered was sent (`ReceiverInv`, with `IpFragment`'s `IInv`), that a call has
sent only units before `done`, and that a failed call left a unit out
(`SenderInv`): then a datagram whose `ip_tx` failed cannot become complete.
`IdsDistinct` uses the age of an id, its distance behind the counter: the ids in
use have different ages, all at most `issued` (`IdInv`). `ReceiverRefined` is
`TransferSpec => Spec`: the composition implements `IpFragment`, because every
piece on the wire lies inside its datagram (`SenderTypeOK`); `TransferReassembly`
carries its theorems over.

*StackTxProofs, StackProofs.* `EthInv` says of the devices that a receive thread
has the device's `priv` and can be joined, and that only a device with a waiting
call is told to terminate. `StackInv` says of the threads that a receive thread
in TCP is in its handler, that the mutex is held inside (`MutexHeldInside`), that
while a device closes nobody sends through it, and that a default interface that
was not freed has a device. Neither is inductive without the
other: a device is not freed under a sender because `close` starts when the
senders are quiet, and a sender starts only when no call is under way.

*What the defects need.* The violated properties cannot be proved of the
code; these theorems prove them of every behaviour in which the named cause does
not occur, so there is no other way to them. The hypothesis is about the
behaviour or about what peers send, and ordinary use meets it: answers that come
in time, datagrams completed in time, no reset, peers that leave unused fields
zero, devices closed when ARP is quiet.

| Theorem | Without | Holds |
|---|---|---|
| `FoundUnlessCleared` (ArpProofs) | an entry cleared under a waiter (`WaitedEntryKept`) | `FoundAfterWaitAnnounced` |
| `LimitExact` (IpFragmentProofs) | an object that expires (`NoneExpired`) | `RefusedOnlyWhenFull`, `PatrolFreesExpiredOnly` |
| `NothingLost` (IpFragmentProofs) | an object that expires (`NoneExpired`) | `NothingLostStep`: `PartsKeptStep` without its exception |
| `EstablishedUnlessStray` (TcpProofs) | a segment without the ACK bit whose acknowledgment field is not 0 (`StrayAck \subseteq {0}`) | `EstablishedAcked` |
| `PortsApart` (TcpProofs) | a block freed with its port (`FreedBlocksBlank`) | `PortsUnique` |
| `CleanUseDefined` (StackProofs) | a second interface on a device, a thread that cannot be created, a packet held by ARP for a device that is closed (`CleanUse`) | `status = "run"`: no undefined behaviour |

The last one strengthens `UndefinedOnlyKnown`: with `CleanUse` every address that
is asked for was asked for through a device still open (`HeldOpen`), and
`AskedThroughOpen` shows that no action asks through any other.

*Only model-checked:* `CallReturns`, `ConnectWaitEnds`, `JoinReturns`,
`MutexReleased` (liveness, out of the prover's reach). All other properties of
the passing runs are theorems; the violated ones are in the table above.

## Not modelled

- Dumps, `hexdump`, `maskdbg`, `*_ntop` print; `*_pton` parse text that the
  programs give as literals.
- The system calls of `raw/`: a frame, no frame or an error is all that the
  models tell apart. Frame and header layout, and header checks that drop a
  packet, are left out.
- `tcp_api_bind`, `listen`, `accept`, `recv`, `send` have no body, `tcp_api_close`
  an empty one: there is nothing to model.
- Two registrations at the same time (`net.c` has no lock): the programs register
  before the first thread runs.
- `dev->addr` is compared uninitialised in `ethernet_open` (`ethernet.c:88`);
  hardware addresses of our own devices are abstracted.
- `maskset` with `len = 0`, a shift by 32 (`util.c:119`), and lengths in bytes
  that no conforming sender produces (`ip.c:208`).
- An id that is used again while pieces of the older datagram are still around
  (`ip.c:440`): the model stops after `ID_MOD` ids.
- The patrol of ARP runs only inside `arp_rx`: without ARP traffic an expired
  entry stays. Nothing in the repository promises otherwise.
