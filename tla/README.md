# Verification of RiptOPL (Open PS2 Loader, MMCE fork)

This directory holds TLA+ models of the parts of the loader whose correctness
depends on the order in which things happen: threads of different priority on
one EE core, IOP threads and interrupt handlers, callbacks, a network that loses
packets, shutdown while work is in flight. TLC checks the models on small
instances; TLAPS proves the safety invariants of the I/O manager, the art cache,
the drive emulation, the background music, the block-device pages and the network
socket for every instance.

Paths are relative to the repository root, so `src/src/ioman.c` is the file
`ioman.c` of the loader's own `src/` directory as the map in `PROJECT.json`
names it.

## 1. Inventory

Modelled so far: the I/O manager, the art cache, cdvdman with the reads of
cdvdfsv, the UDPFS network drivers, the pages of hot-plugged block devices, and
background music. `PROJECT.json` lists every component with its status and, under
"hazards", the places where the order of events can go wrong.

| Component | State it keeps | Operations | What is hard |
|---|---|---|---|
| I/O manager (`src/ioman.c`) | request list, handler table, blocked/terminate flags, two semaphores, HUD counters | put, remove, register, block/unblock (timed), end; worker loop | node linked before filled, head used across the handler, lost wakeups, drain against handlers that enqueue, shutdown after a timed-out drain |
| UDPRDMA (`modules/network/udpfs_*/src/udprdma.c`, `udpfs_core.c`) | peer, sequence numbers, receive window, event flag, retry count | discover, send, receive; interrupt-side packet handler; alarms | loss, duplication and reordering; one NACK per gap; timeout against late ACK; a receive buffer left registered after a failure |
| UDPBD (`modules/network/smap_udpbd/src/udpbd.c`) | reply state, reconnect watchdog | read, write, info | retries, reconnect racing a late answer |
| Art cache (`src/texcache.c`) | cache entries, art queue, epochs, in-flight slot | request, worker load, tick, invalidate, shutdown | entry recycled while its load is in flight, lost wakeup, shutdown with a wedged device |
| cdvdman (`modules/iopcore/cdvdman`) | read request, stream ring, sync event flag, callbacks | sceCdRead, streaming, file I/O | a callback that starts the next read, stop during a fill, abort |
| cdvdfsv (`modules/iopcore/cdvdfsv`) | RPC servers | S/N-commands, search | two RPC threads sharing one drive |
| mcemu (`modules/mcemu`) | card image, page cache, flags | page read/write/erase, autosave | reset and abort between page operations |
| Sound (`src/sound.c`) | music decode and play threads, ring, terminate flags | start, stop, quiesce, mute, end | two threads and two semaphores; a stop with a time limit; a session that ends by itself |
| Block-device pages (`bdmsupport.c`, `libview.c`, deferred updates of `opl.c`) | page per slot, generation, miss counts, lists, views | hot-plug, poll, publish, hide, scan, switch view, apply settings | the GUI between any two steps of a poll; devices that answer late; settings applied under a poll |
| Other device supports (`hddsupport.c`, `ethsupport.c`, `mmcesupport.c`, `udpfssupport.c`, `httpsupport.c`, `appsupport.c`, `favsupport.c`) | game lists, mode flags, update signature | need-update, update, launch, shutdown | hot-plug while a list is in use |
| GUI, menus, dialogs, themes, fonts | widgets, navigation | draw, input | deferred I/O polls a volatile flag |
| Teardown (`src/opl.c` deinit) | order of the shutdown steps | launch, exit, NBD server | which device may still be used by whom |
| HTTP streaming (`modules/network/httpclient`, `common/httpstream.inc`) | connection, parser, read-ahead window | open, read, seek | partial replies, reconnect |
| NBNS (`modules/network/nbns`) | request slot, alarm | resolve | answer against alarm |
| Virtual memory cards (`src/vmc_groups.c`, `modules/vmc`) | group table, images | create, group | partial creation |
| Configuration (`src/config.c`, `favsupport.c`) | key/value lists, modified flag | set, remove, read, write | partial writes |
| RetroAchievements (`src/ra*.c`, `modules/network/raudp`) | hash, session, watch list | identify, stream | loss, long sequences |
| EE core, elfldr, asm patches | game patches | | register-level code |
| Pad emulation (`modules/pademu`, `ds34bt`, `ds34usb`) | controller state | | USB/BT hardware protocols |
| Vendored code (lwIP fork, lz4, libraries), PC tools, labs | | | not this program's own core |

How they interact. In the loader, the EE runs threads of strict priority: the GUI
(31) owns the menus and calls ioman; the ioman worker (32) runs the handlers that
scan devices and load lists; the art worker (72) loads covers; sound has two
threads of its own. They share lists, slots and counters with few locks, and rely
on "who can interrupt whom". All reach devices through IOP modules by RPC. In the
game the loader is gone: cdvdman replaces the drive on the IOP, fed by a device
driver (BDM, HDD, SMB, MMCE), called by the game's own IOP threads and by cdvdfsv
on behalf of the EE; mcemu replaces the memory cards beside it.

What makes each component correct:

- ioman: a request is served once, in order, on a written node, or dropped on
  purpose; a complete drain leaves silence; shutdown leaves nothing.
- art cache: a row never shows another row's picture; a claimed slot is always
  handed back; a cache is freed only when nothing points into it; teardown ends.
- cdvdman: a drive that says ready has finished; a shared buffer is parsed only by
  whoever filled it; a stream delivers every sector once and in order, and moves.
- UDPRDMA/UDPFS: a request is carried out at most once; a call reported as done was
  carried out and holds its own, complete answer; every call ends; a lost device
  returns.
- block-device pages: a row is read through the view it was built for; page, list and
  driver modules catch up with the devices and the settings; a device that was turned off is
  neither shown nor written to.
- sound: only whole chunks are played, in order; the track is not closed under a read;
  a session starts over another only when a stop had to give it up; a stop ends both
  threads; the exit does not wait.
- not modelled yet: UDPBD (an answer belongs to the request that waits for it); mcemu
  (a page operation is whole across a reset); NBNS (the answer or the alarm, never
  both); configuration (a failed write loses nothing that was on the card).

## 2. Modules

| Module | Models | State and actions against the code |
|---|---|---|
| `IoMan` | `src/src/ioman.c` | variables are the file's static variables plus one program counter per thread; an action ends where another thread can run or look |
| `MCIoMan` | | the instance for TLC |
| `IoManProofs` | | the theorems about `IoMan` |
| `TexCache` | `src/src/texcache.c` and its callers in `themes.c`, `lang.c`, `opl.c`, `menusys.c` | caches, slots, rows, queue, and three threads |
| `MCTexCache` | | instances: which operations the callers perform |
| `TexCacheProofs` | | the theorems about `TexCache` |
| `CdvdMan` | `src/modules/iopcore/cdvdman` (`cdvdman.c`, `ncmd.c`, `ioops.c`, `searchfile.c`, `streaming.c`), `cdvdfsv/ncmd.c` | drive lock, event flag, reading thread, alarms, ring, and two client threads |
| `MCCdvdMan` | | the kinds of game that call it |
| `CdvdManProofs` | | drive, buffers, event flag, and which thread of a stream may be where |
| `CdvdManRingProofs` | | the ring of a stream, on top of `CdvdManProofs` |
| `UdpFs` | `src/modules/network/udpfs_bd`, `udpfs_ioman` (`udprdma.c`, `udpfs_core.c`, `udpfs_bd.c`, `udpfs_ioman.c`) | socket, event flag, alarm, the calling thread and the watchdog; the network and the server are external |
| `Exchange` | | what a request/answer transport promises; `UdpFs` is shown to implement it |
| `UdpFsProofs` | | why the socket needs no lock |
| `UdpFsAnswerProofs` | | why an answer is one's own, and the proof that `UdpFs` implements `Exchange`, on top of `UdpFsProofs` |
| `MCUdpFs` | | the instance for TLC |
| `Bdm` | `src/src/bdmsupport.c`, `libview.c`, `folderbrowse.c`, parts of `opl.c`, `gui.c`, `supportbase.c` | a page per slot; the GUI thread, the I/O worker, the devices |
| `BdmProofs` | | the theorems about `Bdm` |
| `MCBdm` | | the stick and the settings for TLC |
| `Sound` | `src/src/sound.c` and its callers in `gui.c`, `opl.c` | ring, semaphores, flags, and three threads; it is its own instance for TLC |
| `SoundProofs` | | the theorems about `Sound` |

The components of the console share one idea: strict priorities. `Runs(t)` (in Sound:
`PlayRests`, `GuiRuns`) says that every thread above `t` waits, and each action is
guarded by it. Dropping it would accuse the code of races it cannot have; assuming that
code is atomic would hide the ones it has. In Bdm the GUI thread may run between any two
steps of the worker. Interrupts (`DIntr`/`EIntr`, `CpuSuspendIntr`, alarm handlers) make
one step. In each module a definition commented "Mutant" is a wrong version of the
one below it; it is never part of the specification, and it is there to show that a
property would notice that mistake.

### IoMan

A request is its rank among the requests ever linked, and the linked list is a set
of ranks, oldest first; a node is in the list before its type is written
(`PutRequestLink`, `PutRequestFill`). The two semaphores are their holders.
`ioPutRequest` also runs on the worker, from inside a handler. `BlockOpsBegin`,
`BlockOpsWait` and `BlockOpsReturn` are `ioBlockOpsTimed`: priority 90 during the
drain, a timeout that may expire with a handler still running. `ioEnd` may
follow such a drain. The priority is put back if `ReferThreadStatus` had given it
(`haveStatus`); that call is about the calling thread, which exists, so it is taken to
succeed. A request's data is left out.

### TexCache

A slot has `qr`, an age, `UID`, the value it was claimed for and the picture it holds.
Copies of epoch counters are only compared with the counter, so a copy is a Boolean "still
current"; frame stamps are only compared with each other, so they are ages that saturate.
A request is an address that `malloc` may return again. The unlocked `activeRequests--` is
a load and a store (`CountLoad`, `CountStore`), and `cacheClearItem` a memset and later
stores (`Zero`, `ClearItem`), because a thread above can run in between; the memset itself
is one step, although the GUI thread could look at an entry that is half zeroed. `Call(t,
o)` starts a cancel, a filtered abort, a theme or language change, a reload of the theme,
or teardown on the GUI or the I/O thread; their bounded waits may end early or late. A
language change and `thmReinit` (`reinit`, when the share that holds the theme is
connected again) load a theme without giving the rows new ids (`KeepsRows`). A filtered
abort takes the whole queue as its `chain`, moves what it does not drop to `keep`
(`SetAside`) and pushes that back (`PushKept`).

### CdvdMan

`sync_flag`, the event flag bits 1 and 8, `cdread` and the semaphores are as in the
code; `ring` records which sector lies where, `holds` whose read a shared static
buffer was filled for, `unfinished` whose accepted read has not been carried out.
`ReadAsync` and `ReadSync` are the two ways to start a read, `ReaderWakes`,
`DeviceReads`, `ReaderDone` and the actions after it the reading thread,
`EventAlarm` the completion alarm with the game's callback (which may start the next
read), `Fill`, `FillGoes` and `StmCallback` the streaming code. Clearing `sync_flag`
and setting the event flag are two steps, as in `cdvdman_signal_read_end`. The game
is an assumption: a profile says which calls each of its threads makes, whether it
chains reads, whether it reads while it streams, whether its threads are above the
reading thread, and in which counts it reads its streams. A read of the device delivers;
with a failed one the buffer keeps what it held, and the properties of its contents say
nothing. `StmCallback` tests `StIsReading` just before its bracket; the model makes this
one step, which leaves out a thread above the reading thread that stops its stream in
between.

### UdpFs and Exchange

Socket state, sequence numbers, the registered receive buffer and the bits of the event
flag are as in the code; `WaitEventFlag` with `WEF_CLEAR` clears the whole flag.
`Transmit`, `SendWakes`, `SendGot` are the loop of `udprdma_send_ll`, `RecvWakes` and the
three actions after it `udprdma_recv`, `Check` what a caller looks at; `DogChecks` to
`DiscoverRetries` are the watchdog and `udprdma_discover`; `Ist*` is the packet thread,
`TimeoutCb` the alarm, which may also fire after the wait has ended and before
`CancelAlarm`. `mkdir`, `remove`, `rmdir` and `close` do not look at the type of a reply
(`Verdicts`). A short or an empty result, which `udpfs_core_bread` takes for a full one,
is left out: the server answers in full or with an error. A call is a number, so that an
answer can be told from another call's. The difference of two sequence numbers is masked
before its sign is tested, as in the code (`AckAccepted`), so every acknowledgement counts
as new.

The server is not in the repository. It is modelled as the client needs it: it opens a
session on DISCOVERY, adopts the numbers of the first packet, takes requests in order and
once, and sends an answer in windows, again on a NACK or its timer. bdm, which calls the block
device, is not in the repository either: it uses a device only after it was registered
(`BdCalls`), the driver tests only the connection. Packets are lost and
repeated, the server restarts and refuses, an alarm fires just before the packet it
waited for; these faults are counted together. Packets are not reordered: client and
server are on one Ethernet segment. An alarm otherwise expires only when nothing is under
way, for it is longer than an exchange.

`Exchange` has two variables, how a call ended and how often it was carried out. `UdpFs`
keeps both under the same names, so the refinement mapping is the identity and the
property `Exchanges` is `X!Spec`. The run checks it and `UdpFsAnswerProofs` proves it.

### Bdm

`BdmGeneration` is only compared with copies of itself; the model keeps which copies are
equal to it (`current`, `noticed`, `tried`). A poll of a slot is `NeedsUpdateGate`,
`NeedsUpdateLoad`, then the outcome of `bdmUpdateDeviceData` (`Restore`, `Connect` with
`Publish` or `NoIdentity`, `Missed`, `NoChange`), `Unchanged` or `CreateFolders`, and the
rebuild (`clearMenuGameList`, `CommitView`, `bdmUpdateGameList`, `AppendRows`): a step ends
where the worker waits for the IOP or where the GUI thread can change what it uses.
`bdmLoadBlockDeviceModules` and the two second probes are the load request, which `ioPutRequest`
may refuse; then the generation is not noted and a later poll has to ask again. `NicTaken`
says whether another driver has the network adapter, so that `udp` cannot be loaded. `job.vis`
is whether the poll found the page shown, by itself or through `Restore`. `Mount`,
`Unmount` and `Identified` are the devices. The list of a device is the device itself, and
rows record for which view they were built.

### Sound

`bgmIoThread` decodes into the ring and `bgmThread` plays from it; chunks are numbered, so
that the model sees which chunk lies where, and a chunk being decoded is `Partial`.
`bgmQuiesce`, the two waits of `bgmStop` (`JoinIo`, `JoinPlay`) and `audioEnd` are as in
the code, called for a theme, for the network server and at the exit. A wait may run out,
at any of these stops, while the thread is inside a call of the IOP (`MayLeave`): a read
of the device, or audsrv. The stop then leaves the session behind (`abandoned`). If music
is started again after it, `bgmStart` makes its threads on the stacks of the old ones; the
model stops there (`overrun`), since what runs then is not defined. A session ends by
itself when the music is turned off or a read fails.

## 3. Runs

Passing runs:

| Run | Instance | Checks |
|---|---|---|
| `ioman` (71,330 states) | 2 request types, 2 handlers, 3 requests, drains of 0 or 1 ticks or without limit | the served head is written and listed; silence after a drain; no request lost; clean exit; order of service; every request settles, unlimited drains end, the worker ends |
| `art_browse` (174,172) | 2 rows, one on the controller's bus and the other with a name too long for a slot's key, 1 slot, 2 UIDs, list rebuilds, view toggles, new fail generations, held directions | no row shows another's picture; every claimed slot is handed back once the pad is released |
| `art_life` (492,553) | 2 rows, a one-slot background cache, 2 themes; two operations out of cancel, abort, theme switch or reload on the GUI or the I/O thread, and teardown; a device read may never return | a freed cache has no request pointing into it; a claimed slot has a holder; reference count exact; teardown ends |
| `cdvd` (79,665) | 10 kinds of game, 2 threads, a ring of 2 banks of 2 sectors | ready means done; a parsed buffer is one's own; ring counters and contents; the drive is freed, a stream moves and `sceCdStRead` returns, but for two hangs |
| `udpfs` (194,105) | both drivers, 2 calls, 2 faults, 8 sequence numbers, windows of 2, answers of 3 packets, writes of 2, 2 tries | one user of the socket; an answer reported as good is one's own and complete; the transport implements `Exchange`; every call ends; the device returns |
| `bdm` (375,317) | 1 slot, two sticks, three settings (on; manual start with only the SD slot on; off), 1 visit to Game Sources, 1 press of L3, a refused request | rows match the view; no folders on a device that is not shown or was turned off; page, list and modules catch up; L3 settles |
| `sound` (138,510) | a ring of 3 chunks, 3 things the user does, then perhaps the exit; any wait of a stop may run out | chunks whole and in order; track open under a read; one session unless a stop gave up; reserve exact; stops end both threads; the threads do not wait for each other; the exit ends |

Runs that exhibit a disagreement between the code and what it says of itself:

| Run | What it shows |
|---|---|
| `art_language` | A language change reloads the theme (`lngSetGuiValue`) and drops the result; `applyConfig` then does not reset the rows, the new cache counts UIDs from 1 again, and a row shows another game's cover. |
| `cdvd_seek` | The alarm of `sceCdSeek` (registered callback) marks the drive ready in the middle of the next read. |
| `udpfs_size` | `udpfs_bd_try_connect` says the watchdog will retry a failed query of the size, but the session stays connected and the watchdog only acts on one that is not: the device never appears. |
| `udpfs_stale` | `udprdma_discover` does not clear `EF_RX_INFO` before it waits. With four faults (an INFORM delivered twice, a send whose alarm just beats the acknowledgement, the answer lost, the next DISCOVERY lost; one try for each packet) a search counts as connected because of the old INFORM, and the server's repetition of the old answer is taken for the answer to the next call, although `udprdma.h` says that `udprdma_discover` waits for the INFORM that answers it and `udprdma_packet.h` calls the transport reliable. |
| `bdm_off` | Start mode Off with a network transport selected: `bdmUpdateDeviceData` restores the page of a stick shown before, although its own comment says that page stays hidden. |

`NoWrongArt`, `ReadyMeansDone`, `DeviceReturns` and `AnswerIsOwn` occur in passing and in
violated runs: they hold for every operation, and every number of faults, but what the
violated run adds.

Several properties name exceptions, because the code does not do better. Without each of
them TLC finds the property violated; a mutant shows that what is left still has content.

- `FreedIsUnused` and `CountExact` stop at a cache whose `activeRequests` lost an update
  (`lost`): `activeRequests--` on the art thread can swallow a claim of the GUI thread, and a
  theme load on the I/O worker then frees a cache a request still points into. They say that
  there is no other way to that.
- `DriveFreed`: a thread that carries out an unaligned read waits for
  `cdvdman_searchfilesema`, and its holder waits in `sceCdSync` for that read (`Circle`). The
  game `Crossing` gets there: the unaligned read is accepted between the other thread's search
  read and its `sceCdSync`. Every other wait ends.
- `StReadReturns` and `StreamFlows`: a blocking `sceCdStRead` that does not ask for whole banks,
  or for more than the ring holds, empties the ring while no bank is under way and waits for
  one that only the code after its loop would start (`Hangs`; the game `Starving`).
- `ReadyMeansDone` says nothing of the event flag, and `StreamInOrder` and the second half of
  `RingCounted` nothing at all, in games that read while they stream: such a read's end is
  accounted as the end of a bank, which the comment in `StmCallback` calls a bug.
- `OneSession`: a session is made over the last one after a stop that gave up on a thread.
- `WithheldUntouched`: a page shown without the gates of `Publish`. The placeholder of manual
  start is already visible when a device turns out to be behind it, so the transport's own
  setting is not looked at and its folders are made, although the comments in
  `bdmNeedsUpdate` and `bdmUpdateDeviceData` say that a transport the user turned off is not
  touched; likewise a page that `Restore` put back. A change of the settings under a poll is
  the other exception.
- `ListComes`: a page that was scanned keeps the list of the stick that was there before, when
  another one of the same transport comes within the debounce or is restored; the comment at
  the restore takes it for the same device. A list that failed to be read is covered.
- `LoadFollows`: a refused request is put again by the next poll that gets that far, as the
  comment there says; if every slot is settled, none does, until the next generation.
- `PageFollows` speaks of a device that in the end stays or stays away; under Off it promises
  nothing: no poll looks at a page then, which is what `StaysHidden` is about.

Disagreements that were met and have no run of their own; `PROJECT.json` lists the ones
with the worst effects as hazards. "No such
file", found before `cacheInvalidateFailMemo`, parks a row in the new generation. In
cdvdman `sceCdStRead` on a paused stream leaves `StIsReading` set. `udprdma_send` accepts
any acknowledgement, so it can return before its packet has arrived; the receive that
follows then times out, and the call fails. In sound, `audioEnd` does not find a session
that ended by itself, which leaks its semaphores, threads and file.

Bounds. Three requests are the least that have a served head, one in the middle to remove,
and one half-written at the end. Two rows and one slot, or two, are the least with
eviction and a competing claim, two addresses the least at which a freed request returns
under a new owner, two themes the least with a switch, and two UIDs with a slot claimed
twice. A ring of two banks wraps, fills and empties, with reads that are and are not whole
banks; sector numbers are counted modulo a number larger than the ring, so that two
sectors in the ring never look the same. A single client or row would reach none of these.
Symmetry is used for request addresses only, which the code compares only for equality,
and not in the runs with liveness. Two faults are the least that hit both directions of an
exchange, or an answer and its repetition; 8 sequence numbers wrap within two calls and
are more than can be under way at once, as 4096 are. One slot is enough for Bdm, whose
slots share only the generation and the queue; one visit to Game Sources and one press of
L3 are counted separately, so that a view is staged under settings that change; a request
is refused at most once until a load runs; two sticks are the least with a list of another
device; and the three settings reach every branch of the start mode. In `art_browse` and
`art_life` a slot may be evicted as soon as it is claimed (`StaleFrames` is 0), which only
adds behaviours. A ring of three chunks has one being played, one waiting and one being
decoded; three changes are a stop, a start and a stop of the second session. Deadlock is
checked except in `art_life`, where the program ends, and in the runs of Bdm, where
everything may be off and the user idle.

Fairness. IoMan: the GUI thread blocks on the vertical blank every frame, so the worker
runs again and again (strong fairness, for the guard `Runs` comes and goes with the
frames), a GUI call once begun is finished, and handlers return. TexCache: each thread
that can run does, frames go on, and in `art_browse` a device read returns; `art_life`
does not assume that, since the teardown's budgets exist for this case. CdvdMan: threads
that can run do, the device answers, alarms expire, and the game's callback does not chain
reads for ever. UdpFs: threads run, packets that are not lost arrive, alarms and the
server's timer expire; faults are bounded, since nothing can be promised on a dead wire.
Bdm: the worker runs, settings are applied when the dialog closes, and a device that stays
mounted is identified in the end (weak fairness); again and again the user sits still for
a second at a frame that polls every slot and refuses nothing, and a list that is read
again and again is read once without an error (strong fairness, for other requests come
between). Sound: threads that can run do, and audsrv takes its samples; a read of the
device ends except at the exit, where it may hang. It may outlast any wait of `bgmStop`
(`MayLeave`). No fairness is placed on calls that a user or a game begins.

What the passing runs of CdvdMan do not say. The profiles leave out combinations with
which TLC finds an early "ready": `sceCdSync` polled by a thread above the reading thread,
or a read that such a thread starts between the two halves of `cdvdman_signal_read_end`, is
told of the end of the previous read; in the ALT_READ mode the end is signalled twice, which
matters with two threads. `Crossing` makes no call that waits on the reading thread, or the
whole game would stand still at the circle instead of being refused for ever.

## 4. Proofs

No proof assumes fairness or a bound of the instances. All are of the form: an inductive
invariant, `Init` establishes it, every action preserves it, it implies the property.

`IoManProofs` proves for every set of types, number of requests, handler table size
and drain limit (assumptions `TypesAssumption` and `BoundsAssumption`: the base type is
a type, `NULL` is not one, the sizes are natural numbers):

- `TypeCorrect`, `HeadServed`, `BlockedQuiet`, `RequestsAccounted`, `ExitClean`:
  `Spec => []P` for the invariants of run `ioman`;
- `ServiceOrder`: `Spec => ServedInOrder`, an action property.

All rest on `InductiveInvariant`, `Spec => []IInv`. None of the invariants is inductive
alone. That the served request is written needs `UnwrittenIsNew` (only the newest
node, and only inside `gEndSemaId`) and `LocksHeld` (which program counter holds which
semaphore, and that the GUI thread has the drain's priority exactly during a drain):
outside the drain a GUI thread between link and fill outranks the worker. That it is
still listed needs the worker to hold `gProcSemaId`, which `ioRemoveRequests` takes.
That a drain leaves silence needs `PhasesOrdered`: nobody is inside `ioPutRequest` when
it completes. One lemma covers the calls, one `ioPutRequest`'s two steps on either
thread, one the GUI's other steps and one the worker; each splits by action and then by
conjunct.

`SoundProofs` proves, for every ring of at least two chunks (`RingAssumption`) and any
number of changes, the types (`TypeCorrect`) and the four invariants of run `sound`:
`RingInOrder` (`PlaysDecoded`), `TrackStaysOpen`, `SessionsApart`, `ReserveAgrees`. Two
arguments meet in `IInv`. `ThreadsOfSession` says who may be alive when: a playing thread
shows itself by `bgmIsPlaying`, a decoding one too or else somebody waits for it, and the
GUI thread gets past the waits of a stop only when both are gone or it gave up on one that
is inside a call of the IOP (`abandoned`). From a session that is started over an
abandoned one nothing is promised (`Overrun`, the second half of `IInv`). `RingSound` says
that, until a session is told to stop, the two semaphores and a chunk in either thread's
hands never exceed the ring, the write index is ahead of the read index by the filled
chunks, and these are the next ones of the track. After the stop the counts mean nothing
any more; the chunk being played is still whole because nobody decodes.

`TexCacheProofs` proves, for any number of slots, rows, themes, UIDs and request addresses
and any set of calls, the types (`TypeCorrect`) and the four invariants of the art runs:
`ClaimHeld`, `FreedUnused`, `CountIsExact`, `OwnPictures`. `Holding` carries the first
three. `OnePlace` and `AllHeld` say that an allocated request is in exactly one place: in
the queue, with the art worker, in the chain of a canceller, or among those it keeps;
without that, two threads could release the same request, or nobody would. `Claims` says
that the request a slot names is allocated, names that slot and has its UID, until
somebody starts to release it; it is stated only before the teardown, which sets aside a
read that hangs. `Counted` ties `activeRequests` to the number of requests that point into
a cache, one apart while a release is between its load and its store, and not at all once
an update was lost: `FreedUnused` and `CountIsExact` have that exception, as the
properties do. `OwnPictures` needs `Showing` besides: UIDs of a cache are handed out in
order (`UidsBelow`), so an old request never agrees with a slot that was claimed again,
and the rows' ids are those of the cache in use except on the thread that is about to
reset them. It assumes that no call reloads the theme without resetting the rows
(`RowsAreReset`), that is, no language change and no `thmReinit`: run `art_language` shows
that the conclusion is false with one.

`CdvdManProofs` and `CdvdManRingProofs` prove their theorems for every set of threads, every
ring (`StBankmax` banks of `StBanksize` sectors) and every game, where a game's profile
says which calls each of its threads makes. What is promised depends on the profile, because
the code is not right for all of them (see above):

- a `Regular` game makes reads, file calls, searches, EE reads and streams from any number of
  threads of any priority, with callbacks that chain reads, but no command such as
  `sceCdSeek` and no compatibility reads; a `Single` game makes its calls from one thread
  below the reading thread, without a callback, `sceCdStandby` or reads while it streams; a
  `Silent` game does not stream.
- `BufferOwn`: in a Regular or Single game a shared buffer is parsed by whoever it was read
  for. The argument (`Semaphores`, `Buffers`): `cdrom_io_sema` or `cdvdman_searchfilesema` is
  held from the read to the use, the double copy takes the second one, and `sceCdSync` ends
  only when one's own read has been carried out.
- `DriveReady`: in those games a clear `sync_flag` means that every accepted read was carried
  out (`Drive`: the lock is taken by one accepted read, and only the thread that carries it
  out frees it). `ReadyMeansDone` also speaks of bit 1 of the event flag; that half
  needs that nobody takes the drive between the two halves of `cdvdman_signal_read_end`, so
  no thread above the reading thread, and no stream unless the game has one thread (`FlagClass`).
- `RingRight`, `StreamRight`, `TypeCorrect`: the write pointer, the read pointer and the count
  of sectors agree in every game (`Aligned`, `Distance`); in a game that streams from one
  thread the count stays in the ring, a bank is not read over sectors that wait, and they lie
  there in order (`Within`, `RingInOrder`, `RingReads`). This needs to know where a read in
  flight is going when the stream is stopped under it: `Streams` says that the reading thread
  is at rest whenever a client takes the drive, or resets the ring, after its wait.

Of the ten games of run `cdvd` all but three are instances of all these theorems. Only
model-checked are the event flag's half of `ReadyMeansDone` for `Outranking` and `Starving`, and
the contents of the ring for `Starving`, which asks for the drive's state on a second thread;
and `TypeCorrect` does not cover `Mixing`.

`UdpFsProofs` proves `SocketHasOneUser` (`OneUser`) for all sizes, any number of calls and
every behaviour of network and server. `Turns` is the protocol nobody wrote down: callers
act only in a session; the watchdog only without one, or for the first request of a
session before the device is registered.

`UdpFsAnswerProofs` proves `AnswersAreOwn` (`AnswerIsOwn`) and `TransportExchanges`
(`Exchanges`, the refinement of `Exchange`): for any windows, lengths of answers and writes,
retries, numbers of calls and faults, and every sequence space larger than an answer and a
write together (`SizesAssumption`; 4096 in the code). Neither property is inductive, for what
is stored in a buffer depends on what the wire and the server still hold. `WireInv` says it in
parts:

- `Sessions`: a DISCOVERY is never behind a request on the wire, and what the watchdog hears
  while it searches leads to a session that is not used yet (`Searching`). Either a session
  is `Opening` or it is `Synced`, and the other parts say what holds in each.
- `RequestSide`: the packets of the call in progress carry the numbers from its first one on
  (`Own`), those of earlier calls lie behind it (`Past`), and the server's next number is in
  between, at the end exactly if the call has been carried out (`Line`). So a packet that is
  sent again under its own number never counts as a new one. After a failed call
  its packets may still be under way, which is why `Line` is also kept for a session that is down.
- `AnswerSide`: the buffer holds the first n packets of the answer (`Received`), what is under
  way continues it or lies behind it (`Answers`), what the server keeps is what is missing
  or not yet acknowledged (`Pending`), and no acknowledgement under way is ahead of the
  client or older than the server's (`Heard`, with `Lag` as the distance to the
  number the client expects).

A step of refinement then needs little: a call ends with success only in `Check`, where the
received answer shows that it was carried out, and the server carries out a request only
where `Line` says that it has not been.

Both theorems have the hypothesis `NoStaleInform`: when the session is down, a flag left by an
INFORM does not belong to a session that the server has used and still keeps. It is the one
thing the code leaves to chance (section 3, `udprdma_discover`), and without it both
conclusions are false. TLC finds it true in every state of run `udpfs`'s instance, whose two
faults are too few, and false with three. The proof uses it in one place, the start of a
search (`NextSearching`).

`BdmProofs` proves `RowsBelongToView` (`RowsMatchView`) and `FoldersOnlyWhereShown`
(`WithheldUntouched`) for any number of slots and devices, any settings and presses. The
first needs `RowsGone`: between the moment the rows go and the moment they are built, which
is when the view may change, the page has none. The second needs `PollsEnabled` and
`PollStarted`: a poll begins only with the devices started and not off, so that a setting
applied under it either moves the generation or leaves its page alone; and `StaysAway` and
`GatesPassed`: a page that the poll found hidden is shown only by `Publish`, whose gates look
at the user's settings. The exceptions of the property are those of section 3.

Only model-checked: all liveness properties (the prover does not do fairness), the event
flag for games above the reading thread, and streams in games of several threads. `TypeOK`
of UdpFs and Bdm says what the state is made of; no run or theorem lists it.

## 5. Left out

Component by component in `PROJECT.json`. Inside the modelled files: formatting, the print
lock and the unused counters of ioman; file names, archives and decoding in the art cache
(the outcome of a read is a choice); ZSO, pacing of accurate reads, TOC and position
arithmetic, status and error registers and failed device reads in cdvdman (`cdvd_readee`
stops early after `sceCdBreak`'s `SCECdErABRT`; `UseBuffer` may stop after any read); the
power-off thread. Two theme loads at the same time, which the code does not exclude, are
not part of TexCache. UDPFS: the table of file handles, short or empty reads that count as
success, sizes of disks, packet layouts. Bdm: launching a game, lookups by device type,
the Mixed view, the elements of a list; file dates are left out because wherever they are
looked at the list is read anyway. Sound: effects, volumes, and the threshold below which
other reads of the device wait.

The GUI, themes, fonts and dialogs are drawing and input of one thread; the EE core, pad
emulation and hard disk drivers are register-level code; lwIP, lz4 and the PC tools are not
this program's own. They make up most of the repository's lines and are not planned.

## 6. Plan

1. `McEmu`, then `Nbns` and `UdpBd` (one request slot, an answer and an alarm).
2. Teardown: `opl.c`'s order of deinit over an abstract IoMan (block, drain, end), an
   abstract TexCache and an abstract Sound, stated as specifications the detailed modules
   implement.
3. Configuration, favourites, VMC groups: long sequences of calls with failing writes.
4. Proofs: streams of games with several threads; the abstract specifications of item 2.
