# Models and proofs of DSWifi

DSWifi is the WiFi library of the Nintendo DS. It runs on two processors. The
ARM9 runs the application and the functions of `dswifi9.h`; the ARM7 owns the
WiFi hardware. They share one struct, `WifiData`
(`src/source/common/wifi_shared.h`), wake each other with FIFO messages and have
no operating system between them: most fields are shared without a lock, the
ARM7's interrupt handler interleaves with its update function, and the other
end of every conversation is a radio. That is what these modules are about.

Line numbers below are those of the commit under `src/`; `PROJECT.json` maps
every definition to the lines it models.

## 1. Inventory

| Component | State | Operations | Hard behaviours | What makes it correct |
|---|---|---|---|---|
| Inter-processor lock (`common/spinlock.s`) | one word per locked struct | `SLasm_Acquire`, `SLasm_Release` | a losing contender overwrites the owner's value for a moment; release does not expect it | mutual exclusion, no lock left behind |
| Packet buffers (`arm7/ipc.c`, `arm9/ipc.c`, `arm7/ntr/rx_queue.c`, `arm9/ntr/rx_tx_queue.c`, `arm9/wifi_arm9.c`, `arm7/ntr/tx_queue.c`) | `rxbufData`, `txbufData`, a read and a write index each | allocate, write, publish; read, handle, advance | lock-free; wrap marker; full and nearly full buffers | a queue of whole packets in order; every packet arrives |
| Transmission (`arm7/ntr/tx_queue.c`, `arm7/ntr/interrupts.c`, `ieee_802_11/other.c`) | `wifi_tx_queue`, MAC RAM buffers, `W_TXBUSY`, `W_TX_RETRYLIMIT`, `W_TXBUF_REPLY1/2` | queue, flush, retry, prepare a reply | hardware and interrupts act between steps; one buffer for two channels | frames go out as written, retries are bounded, queues drain |
| Access point list (`arm7/access_point.c`, `arm9/access_point.c`, `ieee_802_11/beacon.c`) | `aplist[32]`, a lock, an age and flags each; scan flags | add, clear, age; count, copy | the ARM9 searches without the lock; `Wifi_AccessPointTick` takes none; replacement when full | unique entries, coherent copies, only what the scan asked for, removal only after silence |
| Station (`arm9/access_point.c`, `arm7/ntr/update.c`, `ieee_802_11/authentication.c`, `association.c`) | `wifi_connect_state`, `reqMode`, `curMode`, `curAp`, `authlevel`, `authctr` | connect, poll, disconnect; mode machine; frame handlers | lost, late and repeated frames; timeouts; ARM9 and ARM7 change modes concurrently | "associated" is true; searches end |
| Multiplayer host (`arm7/ntr/multiplayer.c`, `arm9/ntr/multiplayer.c`, `arm7/ntr/update.c`, `ntr/beacon.c`) | table of clients, mask, count, kick requests, beacon fields | join, leave, kick, close, start, stop; copy, look up | table changed in interrupt and update and read by the ARM9; sessions of different sizes | count, mask and list agree; granted AIDs are kept; closing works |
| Initialization and shutdown (`arm9/ipc.c`, `arm7/ipc.c`, `arm7/setup.c`) | `WifiData` on either side, `WFLAG_ARM7_ACTIVE`, FIFO messages | init, deinit, `WIFI_SYNC` | handshake by FIFO and polling without timeouts; stopping and starting again; two builds | both processors use one struct, waits end, frames are handled |
| Network interface, library modes (`arm9/lwip/netif.c`, `wifi_update_thread` in `sys.c`, lwIP's `dhcp.c`) | link, use of DHCP, addresses, DHCP state, library mode | connect, set an address, change mode; DHCP | the thread samples `curMode`; packets of one network handled in another; lost and late answers | the address belongs to the network, is obtained, is kept when set by hand; modes are reached |
| DSi station (`arm7/twl/update.twl.c`, `twl/ath/wmi.twl.c`, `twl/ieee/wpa.twl.c`) | mode, WMI flags, PMK, PTK, scan index | mode machine, WMI events, WPA2 handshake | card events in any order; updates nested in the calculation of the PMK; both processors write the key | WMI, the card and the mode agree; requests are served; keys are installed |
| DSi card (`twl/card.twl.c`, `sdio.twl.c`, `ndma.twl.c`, `ath/htc.twl.c`) | registers, mailbox | upload firmware, send and receive packets | hardware protocol | a pair of queues in `TwlStation`; the rest not modelled |
| lwIP glue (`arm9/lwip/sys.c`, `rx_tx.c`, `posix.c`) | mailboxes, semaphores | post, fetch, wait | cooperative threads, timeouts that need a wake-up | only `wifi_update_thread` is modelled |
| WFC settings (`arm7/wfc.c`, `flash.c`) | saved access points | read, look up | none (sequential) | Station uses the set of saved access points |
| Hardware setup (`mac.c`, `baseband.c`, `rf.c`) | registers | write in fixed order | none | not modelled |
| Vendored lwIP, mbedTLS | | | | third party; `Netif` has the DHCP client, `TwlStation` the blocks of PBKDF2 |

How they interact: the ARM9 writes requests (`reqMode`, `reqFlags`, `curAp`,
`reqKickClientAIDMask`) and packets into `WifiData` and sends `WIFI_SYNC`; the
ARM7 answers with `Wifi_NTR_Update`, which compares requested and current mode,
serves requests and flushes the transmit queues. The WiFi interrupt handles
received frames (station, host, access point list) and ends of transmissions.
Data frames go to the ARM9 through `rxbufData`, read by the ARM9's
`Wifi_NTR_Update`, which lwIP's build calls from `wifi_update_thread` and the
other build from the handler of `WIFI_SYNC`. On a DSi in DSi mode `Wifi_TWL_Update`
takes the place of `Wifi_NTR_Update` and the WiFi card that of the MAC hardware.

## 2. Modules

| Module | Models | Granularity |
|---|---|---|
| `Spinlock` | `spinlock.s` and its callers | one access to the lock word per action |
| `SpinlockProofs` | theorems about `Spinlock` | |
| `PacketFifo` | abstract: a queue of whole packets, each of which is taken | |
| `PacketRing` | both circular buffers, `Direction` selects which | one access the other processor can see per action |
| `PacketRingProofs` | theorems about `PacketRing`, refinement of `PacketFifo` | |
| `TxQueue` | the ARM7's use of the transmit hardware | a call per action; storing a reply in four steps |
| `TxQueueProofs` | theorems about `TxQueue` | |
| `AccessPointList` | `WifiData->aplist` | ARM7 calls under a lock are one action; clearing goes entry by entry, ageing access by access, the ARM9's copy step by step |
| `AccessPointListProofs` | theorems about `AccessPointList` | |
| `Station` | connecting to an access point or host | one call of `Wifi_NTR_Update`, one frame handler or one ARM9 step per action |
| `StationProofs` | theorem about `Station` | |
| `MPHost` | the host's table of clients | one action per access that another activity can separate from the next |
| `MPSession` | extends `MPHost` by the consoles that join, the frames between them and the packets handed to the host's application | one update, one frame handler or one call of an application per action |
| `MPSessionProofs` | theorems about `MPHost` and `MPSession` | |
| `TwlStation` | a DSi connecting to an access point | one call of `Wifi_TWL_Update`, one card interrupt, one block of the PMK, one step of the ARM9 or of the card per action |
| `TwlStationProofs` | theorem about `TwlStation` | |
| `Netif` | network interface, DHCP client, library modes | one function of the ARM9 (its threads are cooperative) or one update of the ARM7 per action |
| `Library` | extends `Netif` by start and stop and by who handles frames | a function up to where it waits; a FIFO message; the ARM7's two stores when it stops |
| `LibraryProofs` | theorems about `Library` and the `Netif` in it | |
| `MC_*` | values for constants only | |

How they fit together. `Library` composes the life cycle with `Netif`: its
next-state relation lets `Netif`'s actions happen only while the struct they
work on exists. `Netif` takes from `Station` and `TwlStation` that the ARM7 gets
to `connected` or `cannotconnect`, from `AccessPointList` that a search may find
an entry, and from `PacketRing` that `rxbufData` is a queue. `MPSession`
composes the actions of `MPHost` with the client half of `Station`: each frame of
a console triggers the host's handler, whose answer travels back, and each console
the host drops is sent a goodbye. It takes from `TxQueue` that the management
frames of a sender stay in order and from `PacketRing` that `rxbufData` is a
queue. `Spinlock` and `PacketRing` are what `MPHost`, `AccessPointList` and
`TxQueue` assume of locks and buffers.

State carries the names of the code (`authlevel`, `reqMode`, `aid_mask`, ...);
`pc7` and `pc9` say where the function of each processor is when it takes more
than one action, other local variables have the code's names. History variables
are marked as such; no guard that models code reads one: what a host told a console
(`told`), that a frame was ignored because `curAp` had changed (`missed`), accepted packets
(`accepted`, `at`, `got`), the last CMD (`lastCmd`, `tries`) and that a frame was written
over it (`over`), a reply fetched while it was replaced (`replaced`), silence (`silent`),
a connection asked for too early (`unseen`), a connection begun with the link
down (`fresh`), the packet given to the application (`given`), who was told each
AID last (`player`), consoles
whose frames got lost or that stopped without a word (`apart`).
The length of `accepted` also bounds the run: `MaxPackets` limits the packets
accepted in `PacketRing`.

Data is abstract. A packet of `PacketRing` is a length and a few words that
include the two marker values, because a reader that lost its place could take
them for markers. Elsewhere a frame is its kind and what the handlers look at. In
`TwlStation` a key is the access point it belongs to and a handshake message is
live as long as the card's connection it belongs to; in `Netif` an address is the
network that leases it and an answer is live as long as its transaction.

Definitions headed *Faulty variant* are bugs one could make in that line. They
are used by no specification; `PROJECT.json` names the run and the property that
detects each.

## 3. Runs

| Run | Bounds | Shows |
|---|---|---|
| `spinlock` | two processors, with and without the hold time | `MutualExclusion` always; `NoOrphanedLock` and `SomeoneGetsIn` with the hold time of 10-20 cycles that `spinlock_asm.h` asks for |
| `rx_ring` | 9 words, packets of 3 or 4 words in all, 5 packets | every wrap position, full and empty buffers; the buffer implements `PacketFifo`, liveness included |
| `tx_ring` | 12 words, frames that fit MAC RAM and one that does not, 5 frames | the same for the other reader; a frame waits for ever only behind one that MAC RAM cannot take |
| `host` | 2 consoles, sessions of 1 and 2 clients, WiFi interrupt inside the update, ARM9 readers, one of which looks up AID 2 in sessions of either size; kicks of AID 2 | `TableConsistent`, `GrantedAidIsKept`, `LeavesHostMode`, `ClosingOpenBeaconKicks` |
| `session` | 2 consoles (symmetric), 1 slot, 1 retry, 1 lost frame, 1 packet in `rxbufData`, 1 frame waiting in each direction, 4 calls of applications | `Agreement`, `RightSender` |
| `station` | a lossy place with an open and a silent access point, 2 application calls and a deauthentication; a quiet place with six: insisting on rates, WEP, full, refusing, silent, and one that authenticates and then stays silent (mute); 1 retry | `AssociatedIsMember` in both, `SearchSucceeds` and `GivesUp` in the quiet one |
| `access_points` | 3 access points of different sorts, one without an SSID in its beacons, 2 entries, timeout 1, two filters, one mode besides the scan, interrupt nested or not | `UniqueBssid`, `CopyOfOneAp`, `OnlyWhatWasAsked`, `RemovedAfterSilence`, `ClearEnds` |
| `tx_queue` | host and client, 3 frames of each processor at any time, 2 retries | `SentIntact`, `CmdIsLast`, `MgmtInOrder`, `ReplyIntact`, `Drains` |
| `tx_overwrite` | a host, 2 frames of each processor, 1 retry | violated: see 5 |
| `twl_station` | a WPA2 access point, saved in the WFC settings, and an open one; 2 channels; 2 inputs: calls of the application (connect either way, disconnect, disable) or faults (lost frames, lost connections, failed attempts, card errors, new group keys) | `SettledAgrees`, `RequestServed`, `CleanAttemptSucceeds`, `EveryChannelScanned` |
| `library` | both builds, `WIFI_LOCAL_ONLY` in the one without lwIP; 2 networks, one without DNS server but with an IPv6 router and a saved address; 2 starts, 2 frames, batches of 1; 3 inputs: calls or faults (lost, late and negative answers, lost connections, lease times) | `SameStruct`, `LeaseOfThisNetwork`, `ManualIsKept`, `AddressObtained`, `AcquiringEnds`, `ModeReached`, `WaitsEnd`, `FramesHandled` |
| `local_only` | the build with lwIP and `WIFI_LOCAL_ONLY` | violated: see 5 |

Each module's type invariant is the first conjunct of one of these properties
(`TableConsistent`, `Agreement`, `AssociatedIsMember`, `UniqueBssid`, `SentIntact`,
`SettledAgrees`, `LeaseOfThisNetwork`, `SameStruct`).

Why the bounds are enough. Two processors are all there are. In the ring, 9
words hold two packets and let the write index stand at every distance from the
end and from the reader, and five packets go round the buffer twice. Two consoles
compete for one slot or fill both, and AIDs pass from one to the other; three
access points for two entries force replacement, and two ticks reach the
timeout. One retry and one that is too many cover the counter. In
`session` four calls are: host, connect, what ends the membership (kick, close,
idle or leave), and another console or the same one connecting. For a packet to
reach the application under a wrong name a slot must pass from one console to
another, which two consoles and one slot force. In `twl_station`
two inputs are a connection and one thing that goes wrong or changes the plan,
nested where it may; in `library` three inputs are a connection, what disturbs
it, and a move to another network or mode. By hand, TLC also checked the
invariants of `Library` with 4 inputs (1.6 million states) and, with one start and one
frame, 5 (4.8 million). The remaining
constants only repeat these cases, and for the properties
proved in section 4 the bounds are not needed at all.

Where a property leaves something out, it names it, and the run reaches it.
`SentIntact` and `CmdIsLast` name a management frame written over a CMD on the air
(`over`; `tx_overwrite` states the rule without the exception), `ReplyIntact` a reply
that was fetched while the ARM7 replaced it (`replaced`), `LeavesHostMode` and
`ClosingOpenBeaconKicks` the lock that a look-up left behind, `GivesUp` the access
point that never answers a request to associate, `AssociatedIsMember` a goodbye that
was ignored because the ARM9 had changed `curAp` (`missed`), `CopyOfOneAp` the name of
an access point whose beacons have none, `SettledAgrees` and `RequestServed` a
connection asked for too early (`unseen`). Section 5 describes each.

What the runs do leave out: `RemovedAfterSilence` is stated for an update that the WiFi
interrupt does not interrupt; the other properties of `access_points` hold either
way. `GrantedAidIsKept` leaves out a client accepted between
`Wifi_MPHost_ClientKickAll` and the change of mode: it is in the table until the next
session clears it. `Agreement` leaves out
consoles that lost a frame or stopped silently since they began to connect
(`apart`) and those that have given up (`"error"`): nothing in the protocol tells
the host of either. `session` has one size of session. `CleanAttemptSucceeds` leaves out half keys,
`LeaseOfThisNetwork` and `AddressObtained` moves that `wifi_update_thread` did
not see (`fresh`); `library` assumes that no VBlank interrupt is taken inside the
ARM7's `Wifi_Deinit` (`NestedIrq`) and gives `WIFI_LOCAL_ONLY` to the build
without lwIP only. `Netif` follows `Wifi_NTR_Update`: local multiplayer and
library modes exist on a DS only.

`tx_ring`, `tx_queue`, `twl_station` and `library` do not check for deadlock: when
all frames or inputs of the bound are used nothing remains to be done, and behind an oversize frame the reader
really stops.

### Fairness

- *The ARM7's update* (`WF`, and `SF` where it spins on a lock): the ARM9 sends
  `WIFI_SYNC` from its timer and on every queued packet, `dswifi7.h` asks for
  `Wifi_Update` every VBlank, and a spinning processor re-reads the lock word all
  the time, so it does not for ever miss that the word is free.
- *`wifi_update_thread`* (`WF`): it is woken by every FIFO message, and the ARM7
  sends the state of the keys every frame. The DHCP timers run in it.
- *The ARM7's update on a DSi* (`SF`): it is called again and again by a timer
  and between events, while the mode flips under it.
- *The calculation of the PMK* (`WF`): it goes on whenever what is nested in it
  returns.
- *Functions that were called return* (`WF`): no thread preempts them.
- *Handlers of received frames* (`WF`): interrupts.
- *Polling* (`WF`): the documentation tells the application to call
  `Wifi_AssocStatus` until it succeeds or fails. Calls that start something
  (connect, kick, scan) are not fair: the application may stop.
- *The environment* (`WF`): in the quiet place of `station` access points that answer do so
  and keep sending beacons; the WiFi hardware ends a transmission, a CMD at the
  latest when `W_CMD_COUNT` reaches 0. The WiFi card serves its commands, connects
  unless a fault is counted, and an access point repeats its part of the WPA2
  handshake until it is answered and throws out who answers wrongly; a DHCP
  server answers what reaches it; the FIFO delivers.

No property assumes that a joining console, a deauthentication or a CMD arrives.

## 4. Proofs

`tlapm` checks all theorems; none rests on an unproved step.

**Spinlock** (no constants). `MutexInv` adds two facts to mutual exclusion: the
value a loser will swap back is the owner's (`SwapBackIsOwner`), and the word
names the owner unless a loser is about to swap back (`OwnerOnWord`). Mutual
exclusion alone is not inductive: a contender that finds the word 0 would get in
beside an owner whose value was overwritten. `HoldInv` says that with the hold time
no contender is between its two swaps when the owner releases. From these:
`SpinlockMutualExclusion` and `SpinlockNoOrphan`. That a copy under the lock is whole
does not follow for every locked struct: `Wifi_MPHost_KickByAID` and
`Wifi_AccessPointTick` write without it. `CopyOfOneAp` is about the second of these.

**PacketRing**, for every `Size`, `Lengths`, `Data`, `Burst` and `MaxPackets`
that satisfy `RingAssumption`. `RingInv` describes the buffer as a chain: each
live packet starts where the one before ended, or at 0 behind a wrap marker; live
packets are intact; the word behind the last one is 0; the area the writer
was given lies outside the chain (`WriterInv`); the reader stands at the next
packet or at the wrap marker in front of it (`ReaderInv`). `RestInv` types the
remaining variables. Order of delivery alone is not inductive, since it says
nothing about where the words that will be read come from. There is a lemma per
action (`AllocStep`, `WriteWrapStep`, `WriteSizeStep`, ...); `StoreFrame` and
`ReaderFrame` collect what a store outside the chain and a step of the reader
leave alone. Theorems: `RingTypeCorrect`, `RingDelivers` (`DeliveredInOrder` and
`UnreadIntact`, the latter also on its own as `RingUnreadIntact`), `RingEmptyTakesAny`, and `RingImplementsFifo`: initial states
map to initial states of `PacketFifo` and each step to one of its steps or a
stutter. They assume `NoOversize`, that `txbufData` gets no frame longer than
the MAC RAM buffer; TLC checks `tx_ring` without it.

**Library and Netif**, for every `Net` with its subsets, every `SelectTries`,
`Batch`, `MaxInputs`, `MaxStarts` and `MaxFrames` that satisfy
`NetifAssumption` and `LibraryAssumption`.

`LifeInv` says, for each phase of the application, what the ARM7 is doing and
what is in the FIFO: nothing once the library is off, at most the address of the
new struct while it starts, requests for updates while it is on, and the request
to stop behind them while it stops. `SameStruct` alone is not inductive: it says
nothing about the message that will set the pointer of the ARM7 next.
`LibrarySameStruct` assumes `NestedIrq = FALSE`, that the ARM7 takes no VBlank
interrupt between the two stores of its `Wifi_Deinit`.

`LibInv` has these parts: without DHCP, or without a link, the client is off, has
asked nothing, and no answer in the buffer counts for it (`ClientOff`); a lease is
held only in the states bound, renewing and rebinding, and in a connection that
began with the link down each lease held or answer that counts is of this network
(`LeaseInv`); the network of a connection is known and nothing is asked outside of
one (`ModeInv`); and lwIP runs only in a library that is on. `LeaseOfThisNetwork`
alone is not inductive: the answers still in the buffer decide which lease is taken
next. From these: `LibraryLease` and, by a case on each action, `LibraryManual`.

**MPHost and MPSession**, for every `Mac`, `MaxClients` and bound that satisfy the
modules' assumptions.

`HostInv` says of a slot that its AID is its own number or not given yet and that a
client in it has an address nobody else has (`SlotInv`), and of the count and the
mask that they describe the clients plus the one slot that
`Wifi_MPHost_ClientKickByAID` has emptied and not yet taken off them
(`CountInv`, `Kicked`). `TableConsistent` alone is not inductive: it is stated between
the two halves of a kick, and a reset has to find nobody who was told an AID
(`GrantInv`). That `+ 1` and `- 1` follow the set of clients is `StateChange`, from
the library's theorems on cardinality. Theorems: `HostTableConsistent` and
`HostKeepsGrants`, with the WiFi interrupt nested in the update or not.

`SessionOK` adds that an associated slot belongs to the console that was told its
AID last (`PlayerInv`) and that a packet being looked up is the first one in the
buffer, with the AID of a slot (`LookupInv`); `SessionIsHost` shows that each step of
a session is a step of the host or leaves it alone, so that `HostInv` carries over.
From these: `SessionRightSender`, whatever is late or lost.

`LinkInv` is what makes `SessionAgreement` inductive. `Agreement` speaks only of the
moment when nothing is on its way; `LinkInv` says for every moment what is. The last
request of a console that waits is still in front of the host, or the host has
forgotten the console (after an authentication) or its answer or a goodbye is on the
way back (after an association request) (`RequestOK`); a success that is the last
frame on its way names the AID the host keeps (`AnswerOK`); a host that has closed
down said goodbye to everyone last (`ClosedOK`). It is proved for
`NestedIrq = FALSE`, as the run `session` has it: with an interrupt inside the update a
console may be accepted between the kicks and the change of mode, and is then
dropped without a goodbye.

**Station**, for every set of access points, any retries, calls, losses and
repetitions. `member` is the access point's own record: it is set when it accepts a
request to associate and cleared when it throws the console out or hears it leave,
whether or not the frame arrives. `StationInv` says that a console which asks for a
connection has chosen an access point (`ChosenInv`), without which the step that starts
to connect could begin with none, and that from the moment the console is
*authenticated*, not only when it is associated, the access point counts on it or a
request, refusal or goodbye between the two is outstanding, or was ignored because
`curAp` had changed (`MemberInv`): this is what
makes the success that arrives next one to believe, be it late or repeated.
Theorem: `StationIsMember`.

**AccessPointList**, for every `MaxAp`, `Ap`, `Timeout` and set of filters, nested
interrupt or not. `ListInv` consists of: channel and security of an entry, its name if
that access point sends one, and the Nintendo information under its flag are from the
beacon of the access point whose BSSID it has (`EntryInv`); the ARM9 holds the lock of the
entry it copies, no other, and what it has copied is still in it (`ReaderInv`);
while the list is cleared only the entries behind the index may be of an earlier scan
(`FilterInv`); an entry in use has not timed out unless the tick is about to notice
(`AgeInv`), and its age is the silence of its access point, or one less until the tick
under way has passed it (`SilenceInv`). A copy that is half done
and a list that is half cleared are what the properties themselves leave out, so that
none of the last three is inductive alone. `OldestExists` shows that the entry to be replaced
exists. Theorems: `ListUnique`, `ListCopies`, `ListFiltered`, and the action property
`ListPatient`.

**TxQueue**, for every number of frames and every `RetryLimit`. `QueueInv` says that
CMD frames are a host's and replies a client's wherever they are, and that the frame
being copied is the first one in `txbufData`. `MgmtInv` bounds the numbers of sent and waiting
frames: `TxMgmtOrder`. `CmdInv` says that between the end of a CMD and its retry the
shared buffer still holds it, and that tries and remaining retries add up, unless a
frame of the ARM7 was written over it; `OverInv` that what then takes its place is a
management frame: `TxSentIntact` and `TxCmdIsLast`. `ReplyInv` says that the buffer a
reply is stored into is not the one in `W_TXBUF_REPLY2`, unless the hardware fetched it
in the middle of that: `TxReplyIntact`. None of them restricts what the two processors
send, or when.

**TwlStation**, for every set of access points, any number of channels, calls and
faults, and any depth of calculations of the PMK nested in each other.
`SettledAgrees` speaks of the moment when both directions of the mailbox are empty; the
invariant `TwlInv` says what the messages in them will bring about. The last event
about a connection, or else `ap_connected`, tells what the card does
(`ConnectionInv`); in a mode without a connection the last command about one ends
it, or the card has none (`ModeInv`), which is why every way out of `connecting` and
`connected` has to send the command. Messages of the WPA2 handshake that belong to
an earlier connection come before those of the present one in either direction, and
once one of these was handled no earlier one is left (`OrderInv`); the access point and
the ARM7 take turns (`TurnInv`); from the moment message 2 is accepted the PTK is
the right one, and keys are made from it (`KeyInv`).
Without `OrderInv` a late message 1 of the connection before would spoil the PTK of
the present one. `AskedInv` relates the card to `curAp`: unless the ARM7 has not seen
the end of an earlier request, the last command to connect, or the connection once all
commands are served, is for `curAp` (`ApInv`); only an access point with WPA2 sends
handshake messages (`WpaInv`); so `wmi_post_handshake`, which looks at `curAp`, puts the
key behind each message 4 (`LoadInv`). Theorem: `TwlSettledAgrees`.

Only model-checked: liveness, that is `SomeoneGetsIn`, `SentUnlessBlocked`,
`LeavesHostMode`, `ClosingOpenBeaconKicks`, `SearchSucceeds`, `GivesUp`, `ClearEnds`,
`Drains`, `RequestServed`, `CleanAttemptSucceeds`, `EveryChannelScanned`,
`AddressObtained`, `AcquiringEnds`, `ModeReached`, `WaitsEnd`, `FramesHandled`, and
`PacketFifo`'s fairness under the refinement (`FifoSpec`): liveness under fairness is out of
the prover's reach. Every safety invariant and action property that a run checks is
stated by a theorem.

## 5. Disagreements between the code and its documentation

Shown by a run:

1. `local_only`: with `WIFI_LOCAL_ONLY` the build with lwIP creates no
   `wifi_update_thread` (`arm9/ipc.c:127-133`), and its handler of `WIFI_SYNC`
   does nothing (`arm9/ipc.c:38-42`): received frames stay in `rxbufData` for
   ever, although the flag is offered for games that only use local multiplayer
   (`dswifi9.h:57-66`, `local_multiplayer_mode.md:66-75`).

2. `tx_overwrite`: `Wifi_TxArm7QueueAdd` looks at LOC3 only, concludes "No active
   transfer" (`tx_queue.c:101-103`) and copies a management frame over a CMD frame
   that is on the air; `Wifi_Intr_MultiplayCmdDone` may then send it again as a CMD.

Reached by a passing run and named in its properties:

3. `host`: `Wifi_MultiplayerClientGetMacFromAID` returns for an AID above
   `curMaxClients` without releasing the lock (`arm9/ntr/multiplayer.c:87`, and line
   119 likewise). The ARM7 then spins for ever at the next frame (`spinlock = "left"`).
4. `station`: with an access point that authenticates and then stays silent each
   successful authentication resets `authctr` (`authentication.c:182`), so "Give up
   after too many retries" (`update.c:94`) does not happen.
5. `access_points`: an access point whose beacons have no SSID is listed, in an entry
   that was used before, under the name of the former one (`access_point.c:145`).
6. `tx_queue`: "If there is a pre-existing packet that hasn't been sent to the host
   yet, it will be replaced by the new one" (`dswifi9.h:653-655`), but a CMD that
   arrives while the ARM7 copies the new reply over it fetches a mixture.
7. `session`: a host refuses a console it does not know twice, because
   `association.c:286-290` does not return; the second refusal takes the console past
   its fall-back to `"error"`.
8. `twl_station`: after a connection was asked for too early (`unseen`),
   `wmi_post_handshake` looks at the new `curAp` (`wmi.twl.c:976`) and, if that is open,
   installs no keys for the old connection.

Shown by TLC with other constants than a run's:

9. `MC_Library.cfg` with `NestedIrq = TRUE` breaks `SameStruct`: between the two
   stores of `arm7/setup.c:54-55` the ARM9 may free the struct while an update
   nested there still reads it.

Met while modelling, visible in the actions named, without a run of their own:

- A kick requested between `ReadKickMask` and `ClearKickMask` is lost
  (`update.c:440-442`); the mask has 8 bits while AIDs go to 15
  (`arm9/ipc.c:344`); requests survive into the next session; the table is
  changed without the lock (`multiplayer.c:237`), so that
  `Wifi_MultiplayerGetClients` may copy a client that was kicked after its state
  was checked.
- A frame too long for MAC RAM is skipped by its size word only
  (`tx_queue.c:196-203`): the next word is the 0 of its header, so nothing behind
  it is sent (`TxReject`).
- `Wifi_AssocStatus` can report the connection to the previous access point as
  the one to the new: it sets `curAp` before the ARM7 has seen the request to
  disconnect (`FoundAp`, `arm9/access_point.c:306`).
- A lost connection is still reported as associated (`NextState`,
  `arm9/access_point.c:384`); thrown out while connected, the ARM7 sends one
  request and retries nothing (`ConnectionLost`, `update.c:391`); leaving while
  connecting sends no deauthentication (`StopConnecting`, `update.c:325`).
- `Wifi_ScanModeFilter` with other flags during a scan changes nothing, because
  the flags are read only when a scan starts (`StartScan`, `update.c:222`).
- Bit 0 of the AID mask, documented as always set, is cleared with the table
  (`multiplayer.c:105`); closing a host whose beacon does not invite kicks nobody
  (`UpdateAllow`, `update.c:450`); a beacon starts with a player count of 1
  (`arm9/ntr/beacon.c`) and may be set up after host mode has ended
  (`FlushBeacon`, `tx_queue.c:389`).
- A goodbye of the previous session that arrives late, or a repeated request
  that a closing host refuses as full, makes a console give up without a word
  while the host keeps its slot as associated (`Goodbye`, `AuthReply`). A late
  refusal of the association revives an attempt that had given up (`AssocReply`,
  `association.c:191`). A packet with an AID of an earlier, larger session makes
  `Wifi_MultiplayerClientMatchesMacAndAID` return with the lock held
  (`CheckPacket`, `arm9/ntr/multiplayer.c:119`). A packet of an earlier
  association of the same console with the same AID is accepted as one of this.
- `SLasm_Release` does not wait for the value to be reverted
  (`spinlock.s:45`, against `spinlock_asm.h:10-12`); `NoOrphanedLock` and
  `SpinlockNoOrphan` therefore ask for the hold time.
- In `Wifi_TxArm9QueueFlushByReply`, `end` is an offset and not a size
  (`tx_queue.c:333`), and `hwords` is compared with a size in bytes
  (`tx_queue.c:89`).
- DSi: as on a DS, a connection asked for before the ARM7 has seen the request to
  disconnect leaves it with the old access point (`FoundAp`, `unseen`).
  `Wifi_ConnectSecureAP` clears the PMK while a handshake may need it
  (`ConnectAP`, `arm9/access_point.c:202`), and a calculation that was abandoned
  still stores its blocks, so that the next attempt finds half a key and does not
  calculate a new one (`PmkReady`, `wmi.twl.c:889-897`). A `DISCONNECT` event of
  the attempt before ends the next one (`OnDisconnect`). The scan visits the
  entry behind the last channel (`NextIndex`, `wmi.twl.c:858`), which is 0 and costs a
  tick, but no channel (`EveryChannelScanned`). "WPA2 needs to
  complete its handshake before doing anything else" (`wmi.twl.c:86`) asks the
  security of the new `curAp`, so that an old connection counts without one.
- A console that leaves a network and joins another before `wifi_update_thread`
  has run, or across a change of the library mode, keeps its link and its lease
  (`ThreadSetsDown`). `Wifi_SetIP(0, ...)` after an address was set by hand leaves
  that address until the next connection (`SetIP`, `dswifi9.h:767`). An old IPv6
  address or DNS server makes `Wifi_AssocStatus` say ASSOCIATED before DHCP has
  answered (`StatusAddress`); without a server it says ACQUIRINGDHCP for ever
  (`dswifi9.h:413` tells the application to poll until it succeeds or fails).
- `Wifi_AutoConnect` looks at `curLibraryMode` before the ARM7 has left host mode
  and then never scans (`AutoConnect`, `arm9/access_point.c:282`). Leaving a
  connection by a change of the library mode sends no deauthentication
  (`ntr/update.c:357`).
- Timed waits in `arm9/lwip/sys.c` (287-312, 410-432) look at the clock only when
  they are woken, so that lwIP's own thread runs no timers while it sleeps.
- `Wifi_CheckInit` still returns 1 after `Wifi_Deinit` (`dswifi9.h:133-137`),
  `wifi_connect_state` survives a restart, a `Wifi_InitDefault` with
  `WFC_CONNECT` that fails leaves the struct allocated, and a second
  `Wifi_Deinit` reaches an ARM7 without a struct. (`Wifi_Deinit` after Internet
  mode does not work, as `internet_mode.md` says; `Library` does not call it.)

## 6. Plan

Order: what both processors share first, then what decides whether a console is
connected, then the rest.

1. Done: `Spinlock`, `PacketRing` with `PacketFifo`, `MPHost`, `Station`,
   `MPSession`, `TxQueue`, `AccessPointList`, `TwlStation`, `Netif`, `Library`;
   the proofs of section 4.
2. Worth modelling next:
   - an abstract connection (disconnected, searching, connected, failed) that
     `Station` and `TwlStation` implement.
   - the handler of packets from the host (`arm9/ntr/multiplayer.c`), which
     compares addresses only.
3. Then, prove: that the abstract connection of item 2 is implemented, and
   `AssociatedIsMember` for a composition of `Station` with `MPHost` as its access
   point, for which `MPSession` has the host's half.

## 7. Not modelled

- Register writes of the hardware setup (`mac.c`, `baseband.c`, `rf.c`), the SDIO
  register protocol and the upload of the firmware to the DSi's card: fixed
  sequences whose only counterpart is hardware that is not described here.
- Byte layouts of frames, the reading of the WFC records in flash, RC4, AES and
  SHA: sequential conversions with no state to interleave.
- Mailboxes and semaphores of `arm9/lwip/sys.c` and the socket functions: under
  cooperative threads each call is atomic up to a yield. Their wake-ups are
  described in section 5.
- lwIP and mbedTLS, about nine tenths of the 130 000 lines of the repository. They
  are third-party code, and a model of TCP or of a cipher would say nothing about
  this library. Of the library's own sources (`src/source`) the map covers about
  half of the lines; of the whole repository some 5 %, and that share cannot
  grow much without modelling code that is not DSWifi's.
