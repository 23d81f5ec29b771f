# Tuning Studio in TLA+

Specifications of the parts of Tuning Studio that are concurrent, that talk to
a device over a link that may fail, or that keep a promise over several steps,
and of the algorithms whose mistakes would show a user the wrong number.
Each definition is translated from the Rust source; `PROJECT.json` names, for
each, the lines it stands for.

- [The system](#the-system)
- [What is hard](#what-is-hard)
- [Modules](#modules)
- [Runs](#runs)
- [Fairness](#fairness)
- [Proofs](#proofs)
- [Disagreements between code and documents](#disagreements-between-code-and-documents)
- [Only model-checked, and not modelled](#only-model-checked-and-not-modelled)
- [Plan](#plan)

## The system

Tuning Studio shows and changes values of a running firmware. It reaches the
firmware through a debug probe (target memory, with SEGGER RTT rings in it) or
over a serial port (a framed protocol). One session runs at a time, on a thread
of its own; what it samples goes to the user interface, to a recording and to
clients of a local TCP stream.

| Part | State | Operations | Talks to |
|---|---|---|---|
| RTT rings, `studio-carriers/src/rtt.rs` | offsets and buffer in target RAM; the descriptor the host cached | `Ring::read`, `Ring::write`, attach | target memory, with the firmware at the other end |
| Requests over RTT, `studio-core/src/rtt_tuning.rs` | sequence number, pending replies with deadlines, `leased_at`, `lease_refused` | `attach`, `submit`, `poll`, `close` | two rings; called by the probe session |
| Probe session, `studio-core/src/session.rs`, `tune.rs` | watches, sampler, `failing_since`, tuner and its `CatalogCheck`, queued requests | commands, sampling, reopening, `verify`, cell writes | its command queue, target memory, the sink |
| Framed link, `studio-core/src/link.rs` | decoder, pending replies, wanted and active watches, batch, missed samples | handshake; commands, frames, tickers, expiry, farewell | a byte stream, the sink |
| Tap, `studio-core/src/tap.rs` | subscribers with bounded queues, watch names, link state, info | `subscribe`, `set_watches`, `samples`, `event` | sessions publish; recorder and stream subscribe |
| Stream, `studio-app/src/stream.rs` | clients with bounded line queues, loss counts, columns announced | fan-out, `offer`, `reap`, state reports | the tap, TCP clients |
| Recorder, `studio-app/src/record.rs` | the recorder's slot, queue, stop flag, file | start, stop, end with the session, the recorder's thread | the tap |
| Application, `studio-app/src/session.rs`, `elf.rs` | the session slot, last watches, the open ELF, tuning table | `connect`, `disconnect`, `set_watches`, `open_elf` | everything above |
| Stdio server, `studio-server/src/main.rs` | an outbox of 256 messages | one thread per slow call, quick calls in order | the application, the VS Code extension |
| VS Code extension, `vscode/src` | session state, debug sessions, guard | connect, release of the probe | the server |
| Wire, `studio-core/src/wire.rs` | bytes not decoded yet | `feed`, `encode` | the framed link |
| Sampling, `studio-core/src/plan.rs`, `schedule.rs`, `frame.rs`, `stats.rs` | regions, the ticker, the batch being built, a window of tick times | `with_limits`, `sample`, `poll`, `take` | the probe session |
| Tuning catalog, `studio-core/src/catalog.rs` | none | find and read the firmware's table, encode a request | the sessions |
| Debug information, `studio-dwarf` | the table of types, symbols put off, caches of variables; then read-only | parse an ELF, browse it as a tree, resolve a reference, read tasks | the application, the catalog |
| Frontend, `src/src` | React state, sample buffers | rendering | a host |

A tuning request shows how they interact: the application sends it with a reply
channel to the session's command queue; the session thread takes it, gives it to
`RttTuning` (probe) or frames it itself (serial); a lease must be held for it;
the firmware answers by sequence number; a time-out or the end of the session
answers instead. Samples go the other way: the session builds batches under a
set of ids, the tap adds names and copies them into each subscriber's queue,
the stream turns them into lines for each client.

## What is hard

`PROJECT.json` lists the hazards line by line. They come in nine groups.

- *Two writers on shared memory.* The host reaches a ring by several probe
  accesses while the target runs, and the target may reset between any two.
- *Replies that come late, never, or to the wrong request.* Both request paths
  match by sequence number, time out, and lose reply channels when a link ends.
- *A lease that is asked for and used in one breath.* Requests travel behind a
  LEASE whose refusal is not known yet.
- *A subscription that changes under the samples.* Samples do not say which set
  they belong to; a batch spans a change; a refusal for budget may answer the
  last but one command.
- *Judgements kept too long.* The check of the target's table, the names of a
  column, a client's losses.
- *Calls on threads of their own.* The server runs `connect`, `disconnect`,
  `open_elf` and the recording calls side by side; each takes several locks one
  after the other, and some join a thread meanwhile.
- *Parts of a sample that belong together.* A value, its id, its time and the
  rate it is shown with come from a plan, a ticker and a batch that change at
  different moments; a stream of bytes must be cut into frames again after damage.
- *Debug information in any order.* A type or a variable may be referred to before it
  is known, from another unit, or through a declaration that is never completed; what
  the user browses must be found again by its reference.
- *Queues at their limit.* Tap subscribers and stream clients lose messages by
  design and must be told exactly what they lost.

## Modules

**TuneRequests** is the abstract specification of a tuning request: from idle
to waiting to one final answer; "ok" means carried out exactly once, a refusal
means never carried out, and only an unknown outcome (late, closed) may still
turn into either. `RttTuning`, `LinkSession` and `ProbeSession` each implement it
(`KeepsContract`), through the mapping `Known` from the replies a request was
given to what its asker knows. `ProbeSession` in turn uses the contract as its
picture of `RttTuning`.

**RttRing** is one ring. Each memory access of `Ring::read` (`ReadLoad`,
`ReadTail`, `ReadHead`, `ReadCommit`) and of `Ring::write` (`WriteLoad`,
`WriteFirst`, `WriteRest`, `WriteCommit`) is an action. The host plays either end,
the firmware the other by the same discipline. `HostFails` aborts the host's access,
`Reset` leaves any words in the offsets until `FirmwareInit`. Bytes are numbered in
the order pushed. The history variables `torn` and `stale` say when a reset
has put the ends out of step: an access that began before a reset stores an
offset of the ring before it.

**RttTuning** is `RttTuning`: `submit` in two halves (LEASE, then the request),
`poll` in three (renewal, one action per frame, expiry), `close`, and a second
session on the same channels. The firmware, the other tools and what may go
wrong are external; the constant `Faults` says which of it may happen.

**LinkHandshake** is `Worker::start` of the link up to `Connected`: HELLO with
its attempts, LEASE, and catalog pages, each a `call` that takes only the
reply with its own sequence number and command.

**LinkSession** is `run` of the link. `pc` follows the loop: commands, frames,
tickers, expiry; then the farewell. `active`, `period`, `lastSample` and `batch`
are the fields of the worker. Frames travel in two queues the environment may
lose from. The firmware's byte budget is `Affords`.

**ProbeSession** is `run`/`serve` of the probe session and the `Tuner`. `failing`
and `opened` are ages of the instants the code keeps; the target may vanish,
come back or be reflashed.

**Tap** is the tap with its subscribers' queues and its cache of column names.
**Stream** extends it with the fan-out thread and its clients. The two tries
of `offer` (notice, line) are two reads of a queue that its writer empties
meanwhile.

**Recorder** is the recording calls and the recorder's thread (`Write`,
`SeeStop`, `Drain`, `Close`, `WriteFails`). It shares with the session what the
tap publishes (`Publish`), reduced to batches, the begin, the connection and
the end of a session, and anything else. Its history counts the batches
published since a recording began (`offered`) until a session ended, and
names the recordings the code cannot promise anything about (`excused`).

**AppSession** extends it with `connect`, `disconnect`, `set_watches`,
`set_rate` and `open_elf`. `pc` says how far each call got: an action ends where
a lock is let go or a thread is joined. `slot` is `SessionState::session`,
`storing` the connect that joins a displaced session while the slot is locked
(`*lock() = Some(session)` drops the old one before the guard). A session's thread
is its status and its samples; what it does with its commands is ProbeSession and
LinkSession. `told` is the last of what it was sent. `overtaken` names the
sessions that a change passed by, between what their `connect` read and stored.
`set_watches` reads the ELF and its table in one step.

**Workbench** extends AppSession with its client, the VS Code extension:
`current` is `StudioSession.session`, `debug` the debug sessions of `ProbeGuard`,
`pipe` the server's outbox with what is on its way to the extension. `Serve`
lets a step of the server that writes happen only when there is room, as
`Out::json` blocks. Merged into one step: the tap's and the sink's half of an
event, and the releases by `createDebugAdapterTracker` and
`onDidStartDebugSession`. A release is assumed to be shorter than
`PENDING_TIMEOUT_MS`.

**Wire** is `Decoder::feed` and `encode`. A stream of bytes is fed in reads of any
length; `Drained` is the loop of one call. After a bad checksum only the mark is
skipped (`AfterBad`).

**ReadPlan** is the plan: items sorted and merged into regions (`Plan`), each region
read once, each item decoded from its region's bytes or no number (`Sampled`).
**Sampler** extends it with the part of the probe session's loop that samples: the
ticker, whose deadline is made from the low bits of the tick's number (its remainder by
`TickWrap`), the batch, and
the rate measured. `Pass` is time going by; `Tick`, `FrameTick`, `Watch` and `Rate`
are the loop's steps and the commands that restart the sampler. What the memory holds
depends on the address and the time, so that a value tells where and when it was read.
`ValueAt`, which `BatchTrue` holds the batches against, does not use the plan: it reads
the bits an item names one by one where they are.

**TypeTable** is the table of types as operators: types by id, the keys they are known
by, placeholders, aliases, forward declarations and their resolution, sizes and the
types behind typedefs and qualifiers. **Dwarf** takes the entries (DIEs) of all units
one per step, as `parse_die` does: types, with their members, variants and bounds;
variables, with their locations, put off when their declaration is not known yet; and
at the end the second pass, forward declarations and inheritance. **Elf** adds the
linker's symbols before it and merges both after. **Tree** is the tree of nodes:
`Children`, and `ResolveNode`, which walks a reference through levels of wrappers.
**Tasks** finds the slots of task pools, decodes their state and reads the
counters the firmware keeps. **Catalog** finds the tuning table by its types, reads it,
and encodes what is requested. In these modules a string is a sequence of segments or a
token, and memory maps addresses to whole fields.

**RttRingProofs**, **RttTuningProofs**, **LinkSessionProofs**, **ProbeSessionProofs**,
**StreamProofs** and **WorkbenchProofs** each extend the module they are named after and
hold its theorems; WorkbenchProofs has those of AppSession and Recorder, which only run
as part of Workbench, and StreamProofs that of Tap. **AcquisitionProofs** has those of
LinkHandshake and Sampler, with the lemmas about ReadPlan.
**LinkContractProofs** extends LinkSessionProofs with what rests on the numbers of
frames. **MCLinkSession** and **MCStream** give
values that a configuration cannot write (watch sets, watch lists). **MCAcquisition**
runs LinkHandshake, Wire and Sampler side by side, a behaviour being one of
the three, with streams, items and memory, and states `FramesRecovered` against what
was sent.
**MCSymbols** writes eight small programs with labels and lays them out: every order
of a program's entries (for long ones every rotation, forwards and backwards),
cut into two units at every place. Its reference definitions (`Whole`,
`SizeOf`, `Own`, `OfBases`, `Definitions`) read what the entries say without a table; `Lost`
says which references do not survive, those by section offset into a later unit.

## Runs

| Run | Question | Bounds, and why they suffice |
|---|---|---|
| RttRing | bytes once and in order, nothing seen half done, no access outside the buffer, all delivered, heals after a reset | 3 slots and reads of 2: wraps at each offset, reads shorter than what is pending; 5 bytes go round nearly twice; 1 reset with any offsets after it |
| RttTuning | the contract with one answer each, true reasons, everything answered | 2 requests in one pipeline, 2 sessions, a channel of 2 frames so that LEASE and a request fill it; all faults but leftovers, which break the contract (below) |
| Acquisition | handshake: connected means leased, right version, whole catalog; always ends. Wire: whole frames come out, once, in order, and no other. Sampling: every value under its id and time; no tick up to the last read is lost, reads are not bunched up, and the rate shown exceeds the one set by less than a period over its window | handshake: 3 attempts, 3 entries in pages of up to 2, so pages differ in size. Wire: 2 frames with any of 7 kinds of noise before, between and after, reads of up to 5 bytes. Sampling: 2 lists of 4 of 5 items (bit field, signed, unaligned, longer than a region), regions of 4 with gaps of 1, periods 2 and 3, 6 units of time, 3 ticks, numbers modulo 4, a window of 3, so that the rate is of two periods |
| LinkSession_requests | contract with one answer each, everything answered, amid polls and a WATCH | 2 requests, sequence numbers to 4, all link faults, lease lapsed and stolen |
| LinkSession_watches | labels, missed samples, batches, last command wins, clean stop | 2 commands among sets of different and of equal size, periods around the budget, counter modulo 2 so that it wraps twice, lost samples |
| LinkSession_mislabel | what a lost WATCH reply does to labels | 2 sets of one size |
| ProbeSession | contract; writes only into a verified target; given up only after LINK_LOST_AFTER and a reopen, and then for certain; all answered | a Set and a Discard, one of which is sent, 2 builds, catalog replaced, 1 disappearance, single reads that fail; LINK_LOST_AFTER of 2 reopen times (the code: 8) with rounds of 1, so both clocks run out in either order |
| ProbeSession_reflash | writes after a reflash | 2 builds, one reflash |
| Stream | names, announcements, exact losses, totals, tap losses told | queues of 2 (notice and line compete), limit 1, 3 changes among three lists of two watches, which exchange names and order |
| Workbench | no session without owner, last watches and table reach it, whole recordings, every call returns | any 3 calls out of a probe and a serial connect, 2 disconnects, a recording and its stop, an `open_elf`, watches set and emptied, the rate, and a debug session on top: two calls that cross and a third that depends on both; outbox of 1, so every message can block its writer; a recorder's queue of 2; lost links, vanished files, failing disks |
| Symbols | variables with a location listed under the name and type of their declaration; structs have their own fields once and in order behind those of their bases, a type named from an earlier unit is unknown and never wrong; tree nodes resolve to themselves; tasks' states and counters; tuning tables read or refused | eight programs: a declaration and its definition, an inlined variable, two levels of bases, several bases and a shared one, a type defined twice and declared, nested wrappers, variants, bit fields, unions and pointers, every form of location, a task pool in both forms of header, a tuning table; all their layouts in two units, for the task pool and the tuning table only those in which no entry names a type of a later unit, as their properties are about the words in memory and not about lost types |
| Workbench_release | is the probe free when a launch was resolved | one connect, one release |

Type invariants other than RttRing's stand in the modules, are proved (below) and left out
of the configurations, which state what could go wrong. Every property of a passing run also has a mutant: an operator beside the
original that changes it as a plausible slip would (`Taker_Oldest`,
`Farewell_KeepsLease`, ...), with which TLC finds the property violated.
Deadlock is not checked: each of these systems may stop, when its session ends
or when the bounded supply of bytes, commands or sequence numbers is used up.

What the runs show, in the words of the code:

- A reset during a host's access can commit a stale offset, after which bytes
  are repeated or skipped; the code makes no other claim, and the ends are back
  in step as soon as the ring has been emptied (`Heals`). Without a reset
  everything holds unconditionally.
- A late reply never answers a second time, since whatever times out is removed
  first; it can only be taken for another request when the sequence numbers
  start again, with a new session or, in the code, after 65536 frames.
- A refusal is explained truthfully only while replies are prompt, which is the
  condition `prompt` in `RefusalExplained`.
- `FramesRecovered` holds for damage that is not itself a frame.
- The ticker loses no tick up to its last read, whatever its number (`TicksKept`). As long
  as the numbers fit in the bits of the deadline (in the code, 32) it reads none twice
  either, and a deadline lies between any two reads. A first read of the window that comes
  late still makes the reported rate (`stats.rs:63-75`) higher than the one set, by less
  than one period over the window: with a period of 2 and reads at 3 and 4 it is twice as
  high. Ticks that come due between the last read and a restart of the ticker are
  neither read nor counted.
- A struct's own members come once and in order. Inherited ones do if its bases have
  none of their own; deeper, they are complete and in their places, but repeated
  (below).
- A type that is referred to by section offset from an earlier unit stays unknown there,
  and is never taken for another.
- The last watch command wins unless its WATCH or the reply is lost: the code
  never repeats a WATCH by itself, so `Settles` is checked without that loss.
- `MissedCounted` holds up to whole turns of the counter, which is the most a
  16-bit difference can tell.

## Fairness

Weak fairness of the host's own loop steps stands for a thread that keeps
running. Strong fairness is used where a step is enabled again and again because the
loop comes round: expiry of a given request (its deadline is past at some
later round), taking frames from a link that may fail between rounds, and the
next access of a read that may fail now and then (a probe whose accesses
always fail ends the session instead). A firmware is fair only where a property
is about its coming up again (`RttRing`) or about agreeing on a watch set
(`LinkSession`). `Answered` of `RttTuning` needs nothing from the
firmware. In `Workbench` every thread of a call, a session or a recorder goes on
when it is not blocked, a session that opens comes up or fails, and the
extension reads what it is sent; nobody has to call, to sample or to fail. Users,
other tools and clients are never fair. The handshake in `Acquisition` is fair only in
`CallTimesOut`: a call has a deadline, and nothing else has to happen. In `ProbeSession` requests handed
to `RttTuning` are answered in the end, which is `Answered` there.

## Proofs

Every safety invariant of RttRing, RttTuning, LinkHandshake, LinkSession, ProbeSession,
AppSession, Recorder, Tap and Stream that a run checks is also proved, for all values of the
constants, and so are their type invariants, `TicksKept` and `BatchTrue` of Sampler, the
action property of Stream, and that each of the three request paths implements `TuneRequests`.
No run checks `TypeOK` of modules other than RttRing, nor what `BatchesReckoned` and
`WaitsJustified` state, which is defined beside their proofs.

| Theorem | States | Under |
|---|---|---|
| RttRingProofs `TypeCorrect`, `ReadsInOrder`, `PendingKept`, `AccessesInside` | `TypeOK`, `InOrder`, `PendingIntact`, `InsideBuffer` | `RingAssumption` |
| RttTuningProofs `TypeCorrect`, `Refines`, `RefusalsExplained` | `TypeOK`, `KeepsContract`, `RefusalExplained` | `TuningAssumption`, `CleanChannels` |
| AcquisitionProofs `TypeCorrect`, `KnowsAll` | `TypeOK`, `ConnectedKnowsAll` | `HandshakeAssumption` |
| AcquisitionProofs `TicksCounted` | `TicksKept` | `SamplerAssumption` |
| AcquisitionProofs `BatchesTrue` | `BatchTrue` | `SamplerAssumption`, `ReadPlanAssumption` |
| LinkSessionProofs `TypeCorrect`, `EachRowSunk`, `LossesCounted` | `TypeOK`, `RowsReachSink`, `MissedCounted` | `LinkAssumption` |
| LinkSessionProofs `LeavesNothing` | `StopsCleanly` | `LinkAssumption`, `NoLoss` |
| LinkContractProofs `Refines` | `KeepsContract` | `LinkAssumption` |
| LinkContractProofs `LabelsRight` | `RowsLabelled` | `LinkAssumption`, `Prompt` |
| ProbeSessionProofs `WritesWhereVerified` | `WritesMatch` | `ProbeAssumption`, `NoReflash` |
| ProbeSessionProofs `TypeCorrect`, `LostForGood`, `Refines` | `TypeOK`, `LostIsReal`, `KeepsContract` | `ProbeAssumption` |
| StreamProofs `NamesAreLatest`, `ColumnsAreAnnounced` | `LatestNames`, `ColumnsAnnounced` | `TapAssumption`, `StreamAssumption` |
| StreamProofs `LossesBalanced`, `DropsOnlyGrow` | `LossesAddUp`, `DropsNeverFall` | `TapAssumption`, `StreamAssumption` |
| StreamProofs `TypeCorrect`, `BatchesReckoned` | `TypeOK`, `EveryBatchCounted` | `TapAssumption`, `StreamAssumption` |
| WorkbenchProofs `NoneOrphaned`, `LastWordTold`, `WholeRecorded` | `NoOrphan`, `LastWordHolds`, `RecordsWholeSession` | `RecorderAssumption`, `AppAssumption`, `WorkbenchAssumption` |
| WorkbenchProofs `TypeCorrect`, `WaitsJustified` | `TypeOK`, `Locks` and `JoinsEnd` | `RecorderAssumption`, `AppAssumption`, `WorkbenchAssumption` |

### What is assumed

The constants' assumptions say that bounds are numbers, sizes are positive, and sets that
stand for different things are disjoint (the kinds of calls; a request is none of the
words a frame's kind may be). Those that say more:

- `LinkAssumption`: two sequence numbers at least, for the farewell.
- `ProbeAssumption`: a round of the loop is shorter than `LINK_LOST_AFTER`, which is 2 s
  (`session.rs:30`) against a period of at most 1 s, as rates below 1 Hz are raised
  (`session.rs:258`, `:449`); and there is a build.
- `StreamAssumption`: finitely many clients, over which the drops are added up.
- `SamplerAssumption`: a watched item has an address, a type and, for a field, bits counted
  from 0; a byte of memory is below 256.
- `TapAssumption`: the ids of one list differ. The interface numbers its watches from a
  counter (`nextId`, `src/src/live/useWatches.ts`). With an id twice in a list, the
  later name would be the id's and the list shown would still have both.

Four theorems have a hypothesis on the faults. In each case the property fails with
the fault, and a run or the list below says so.

- `CleanChannels`, no reply is left over from a session before: such a reply has a
  number the new session may be waiting under.
- `NoReflash`, no other build is flashed while a session runs: run `ProbeSession_reflash`.
- `NoLoss`, no frame is corrupted: with a farewell frame lost the firmware goes on
  sampling, or the lease stands until it lapses.
- `Prompt`, only samples get lost and no reply comes after its limit: run
  `LinkSession_mislabel`.

### How the proofs go

*RttRing.* The type invariant is not inductive alone: that `Wrap` stays a slot needs
the loaded offsets in range and the lengths bounded by what they allow. The inductive
invariant says, for a ring in step, that the bytes between the read and the write
offset are the ones pushed and not consumed; for a write under way, that its slots
lie in the free part of the offsets it loaded and those read so far are written; for a
read under way, that its buffer holds a prefix of the pending bytes as of its load,
which a write cannot reach because the read offset has not moved. A reset suspends the
parts about contents (`torn`, `stale`) but not those about ranges, which is why no access
leaves the buffer even with offsets from a block never initialised.

*RttTuning.* Numbers are given out once and a frame is known by its number (`Numbered`);
whoever waits under a frame's number waits for that frame (`Matched`); a request has one
frame or reply under way at most (`Once`), waits for it or was given up (`Tracked`),
under one number (`WaitsOnce`) and before its answer (`Unanswered`); replies and answers
say what became of the request (`RepliesTrue`, `AnswersTrue`). No part is inductive
without the others: that a reply answers the right request is `Matched`, which a new
frame keeps only because its number is new. From it every step is a step of
`TuneRequests` or a stutter. `RefusalsExplained` needs in addition that, while nothing
was lost or late, the replies under way will lead the host to exactly the ruling the
firmware went by (`InStep`): each reply has a prefix of the channel before it, and the
last LEASE reply in it decides.

*LinkHandshake.* The call under way is the only one with its number, and its page goes
on where the catalog read so far ends (`Asked`, `Told`), so a reply to an earlier attempt
is never taken for it.

*LinkSession.* `RowsReachSink` is inductive with the types. `MissedCounted` needs a
numbering of the samples on the way: `Counts` gives the number of the next sample behind each
frame, and the last recorded one precedes it by the gap, modulo the counter
(`Follows`); the rest is arithmetic of remainders, in lemmas. `StopsCleanly` needs what is
left of the farewell in the queue (`Leaving`). The contract rests on `Wiring` (frames and
replies in the order of their numbers, each matching what waits under its number) and on
`Placed` (for each request: where its frame, its reply and its waiting entry are, and what its
answers say). `RowsLabelled` rests on `Wiring` and on `Labels`: what each frame asks for still
waits, so no confirmation is ignored, and the confirmations on the way lead from the
session's set to the firmware's, every sample between them being of the set confirmed last
before it (`Leads`). A lost or late reply breaks the first half, which is the disagreement
TLC shows. `TypeOK` rests on the numbering of the samples too: the last number taken is one
of the counter's only because every number on the way is.

*ProbeSession.* The verdict of the tuner is about the build that runs (`VerdictTrue`); the time
since the first failure is never more than the time without a sample, and until the
memory was opened anew one read has failed at most (`Aging`); a request is in one
place, the channel, the queue or the firmware's hands, or answered once (`Placed`).

*Tap and Stream.* The list shown and the columns kept for the next batch are those the
names last given make of their ids (`LastNames`), which is why a batch after a renaming,
a new list or a lost link cannot have an old name. For the columns: of the lines a client
is still to be offered, those with columns have the ones announced last, and if it was
told of others it is offered the announcement before any sample (`ColumnsKnown`).
The losses rest on two sums. What a queue is worth (`Worth`) is a recursive function, of
which the proofs establish that it exists, what an appended line adds and what a taken one
leaves; what the clients lost together (`Lost`) is a fold over a set, which is shown not to
depend on the order, to grow with the set and to split where clients go. Both go by
induction, derived from the well-foundedness of the numbers (`Least`, `SetInduction`).
Then a client's account balances line by line (`Accounted`), given that a client not yet
on has lost nothing and that of notices only the tap's are ever offered. On the tap's side,
while the stream runs, the batches numbered, those that wait in its queue and those counted
as lost grow together by what is flushed (`EveryBatchCounted`, `StepReckoned`), so that what
the clients' accounts are kept of is what the session measured; and it bounds the numbers by
the batches flushed (`Numbered`), which `TypeOK` needs.

*Sampler.* Deadlines are those of the ticks' true numbers as long as no number has reached
`TickWrap`; the tick read last came at or after its own deadline and before the next one
(`OnTime`). That no tick is lost does not need this: the number is always that of the
deadlines passed (`Reached`), and what is read and skipped is never less (`Unlost`), also
when the deadline of a number past the width lies in the past. While numbers fit, a
deadline lies between any two reads of the window (`Apart`), and the ticks of the window
lie each in a tick's time of its own (`Earlier`), which bounds the rate measured. Quotients
and products are in lemmas about plain numbers.

*ReadPlan, and what Sampler sends.* `BatchTrue` is not inductive: what has been collected must
be rows of the items that are watched, each what one read of the plan gave at its time
(`Collected`), as nothing says later what they were read for. That a row is right
(`RowRight`) has two halves. The plan is a fold that takes the items in the order of the
sort, so its results for the sets of the first items are followed one item at a time:
those placed so far lie in regions that cover them, no longer than `MaxLen` unless they
hold one item only, and the last region begins with one of them (`PlacedAll`), from which
the next item's start, which is not smaller, has its place in it. And the number that bytes
make has the bytes' bits, each at its place (`NumberBits`), so that what is cut out of it is
what the item's bits make one by one (`DecodeTrue`); a field may begin and end inside a
byte. Powers of two are those of the counted subsets (`FS_SUBSET`), from which
`2 ^ (n + 1) = 2 * 2 ^ n` follows.

*AppSession and Recorder*, in Workbench. A running session is the slot's, its connect's until that
stored it, or some call's that joins it (`Ownership`). A session not passed by is told of every
change from its first word on, and while an `open_elf` stands between telling and
keeping, the table it told is the one that is to be kept (`LastWord`). What was offered
to a recording is written, dropped or still queued before the session's end (`InStep`), a
disconnect reaches the recording after the session it joined is gone (`Lifetimes`), and
only a user's stop ends one earlier (`Whole`). A lock that is held across a wait is held by one
call, and that call is still at the wait (`Locks`); whatever a call waits for, a session or
a recorder, was told to stop (`JoinsEnd`). The latter needs `Whole`: a recorder in the slot
was not told to stop yet, so no two calls wait for one. This is the part of `CallsReturn`
that does not rest on fairness.

## Disagreements between code and documents

Each is a run that TLC finds violated.

- `LinkSession_mislabel`, `link.rs:521`: with the reply to a WATCH lost, samples
  of the new set are recorded under the old names if both have the same size.
- `ProbeSession_reflash`, `tune.rs:64`: the check of the target's table is made
  once per catalog, not before any write.
- `Workbench_release`, `vscode/src/session.ts:92`: a release for a debug session
  overtakes the connect it should undo, and the debugger is let loose on a probe
  that is then taken.

Seen while modelling, with no statement of the code or its documents to hold
against them: a lease granted after a refusal cleared `leased_at` is not
released at the end (`rtt_tuning.rs:173-180`); a budget refusal for an
older WATCH slows a newer set (`link.rs:465-473`), and if that repeated WATCH
cannot be written, the error is only displayed (`link.rs:470-472`). A new
`RttTuning` starts its sequence numbers at 0 and takes replies to the last session,
still in the channel, for its own (`rtt_tuning.rs:123`; the fault "leftover" of
RttTuning, with which `KeepsContract` fails). A notice that fits clears the count
of batches a client lost in a row though the batch behind it may be lost
again, so a client that takes one line per batch is never cut off
(`stream.rs:240`). A watch list set after a `connect` read the old one and before
it stored its session reaches neither (`session.rs:245-257`; `overtaken`). A
recording that passed its check as the session ended waits for the end of the next
one (`record.rs:720-733`; `excused`). A disconnect's answer marks whatever session
the extension knows by then as over (`vscode/src/session.ts:93`, `:194`).

In the parser of debug information, of things no document promises otherwise: a
reference by section offset to a type that comes later leaves a placeholder,
which `register_alias` does not replace (`dwarf_parser.rs:1426-1437`); the layouts of Symbols
have such references, and its properties say what becomes of them (`Lost`). A struct that
has a base and is one gets its inherited members once more for each derived struct that
reaches it, so B of `C : B : A` has those of A twice, as the set of visited structs is
made anew for each struct (`dwarf_parser.rs:1285-1305`; `OneLevel`). A definition that leads to its type over a middle
entry without one is dropped. `mangled_name` is never set
(`dwarf_parser.rs:1084-1095`). A variable in pieces may be called readable
at address 0 (`dwarf_parser.rs:72-78`). Only the first subrange of an array counts, so an
array of two dimensions is too small. A UTF type of any size is a char of one byte.
A later symbol's short name replaces the full path of another
(`elf.rs:221`); children with equal names all resolve to the first; linker symbols
at one address all take the type of the last variable there. `ElfImage` leaves out a section
at address 0.

In sampling: the ticker's deadline multiplies the low 32 bits of the tick's number
(`schedule.rs:35`), so at 2 kHz, after 25 days, every poll is due at once; the rate
shown may be above the one set after a late read (above); a signed bit field
of 64 bits is read as unsigned (`plan.rs:184-191`); and the decoder delivers a
frame found inside the payload of a damaged one (`wire.rs:123`).

## Only model-checked, and not modelled

What stays with TLC, and why:

- Liveness (`AllDelivered`, `Heals`, `Answered`, `HandshakeEnds`, `RequestsAnswered`,
  `Settles`, `NoticesLoss`, `TapLossTold`, `CallsReturn`): it rests on fairness, and so on
  ENABLED, which the proof system does not handle.
- `FramesRecovered`: the decoder (`Drained` of Wire) is a RECURSIVE operator, for which the
  proof system has no arithmetic; and the properties of Symbols, whose algorithms are
  recursive as well.

Not modelled: the sections' bytes (attributes are given as what their encoding yields),
the spelling of type names and demangling, labels and diagnostics of the parser, and
`rebuild.rs`; rendering, the probe and serial libraries, the wording of messages, the
defmt decoder. Left out of modelled parts: see the notes of the components in
`PROJECT.json`; in short, statistics other than the rate, the log, one-off reads, the
device clock, the accept thread, the contents of a recording, frames in the outbox
and the restart of the server. The carriers, the Tauri shell and the log decoder
forward to libraries or to the parts above; the frontend draws what it is sent.

Finer things that an action or an operator abstracts from, so that the properties say
nothing of them:

- `Tick` of Sampler reads all regions at the instant of the batch's time stamp. The code
  takes the stamp first and then reads region after region while the target runs
  (`session.rs:463-468`, `plan.rs:153-168`), so in the code a value is of a time a little
  later than its row's. `BatchTrue` tells one pass of the loop from another, not the moments
  within one.
- `Decode` of ReadPlan has the numbers themselves where the code has them as `f64`; a field
  always has both a bit offset and a bit size. `EncodeCell` of Catalog does not round an
  F32, and the values of the run need no rounding.
- `HostFails` of RttRing: a probe access that fails has changed nothing, the store of an
  offset included (`rtt.rs:78`, `:102`). If a probe reports a store as failed that was made,
  bytes already read are lost.
- `FrameFails` of RttTuning: a write that fails (`rtt_tuning.rs:222`) and a channel without
  room (`:221`) are one step, with nothing sent.
- `ServeCells` of ProbeSession: every request names an entry of the catalog with a value
  that can be encoded; the refusals of `tune.rs:137-141`, which change nothing, are left
  out.
- LinkSession: the device does not reset while it samples. RttTuning: without the fault
  "leftover" the channel up is empty at a connect, though `close` does not wait for the
  reply to its RELEASE.

## Plan

Done: RttRing, TuneRequests, RttTuning, LinkHandshake, LinkSession, ProbeSession,
Tap, Stream, Recorder, AppSession, Workbench; Wire, ReadPlan and Sampler; TypeTable,
Dwarf, Elf, Tree, Tasks and Catalog; proofs of RttRing, RttTuning, LinkHandshake,
LinkSession, ProbeSession, Tap, Stream, AppSession, Recorder and Sampler.

Next, the most important first:

1. **Link**: the handshake and the session of a framed link composed, the lease
   of a handshake that fails carried into the next.
2. The outbox's other half: frames dropped when it is full, and counted by the
   session. The frontend's sample store.

The abstract specification worth stating besides `TuneRequests`: a session
slot (at most one holder, last command wins) for AppSession.
