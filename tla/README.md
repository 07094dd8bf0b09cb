# TLA+ models of ebpf-packet-loss-exporter

The exporter estimates TCP packet loss between network zones. A BPF program on
the egress hook of every transit interface sees each packet, decides whether its
sequence number was seen before (a retransmit), and sends one event per packet
to user space. A Go program counts the events per destination zone, polls the
counts at a fixed interval, smooths them and publishes them to Prometheus.

This directory holds TLA+ models of that program, the TLC configurations that
check them, and TLAPS proofs about all of them. `PROJECT.json` lists, for every
definition, the source lines it stands for, and for every property a plausible
bug (a definition commented `Mutant:`) that violates it.

    tlc -workers 2 -config MCStatsPipeline.cfg MCStatsPipeline
    tlapm StatsPipelineProofs.tla

## The system

| Component | State | Operations | Interacts through |
|---|---|---|---|
| Classifier, `path_egress` in `bpf/packet_loss.bpf.c` | nine per-CPU debug counters | parse, early returns, zone lookups | LPM maps, Bloom filter, ring buffer |
| Retransmit detector, `bloom_*` in the same file | maps `bloom_epoch` (gen, start_ns) and `bloom_bits` (two banks of tagged words), shared by all CPUs without a lock | roll the epoch, test and set a key | called by the classifier on every zoned packet |
| Event pipeline, `stats_rb` and `cmd/.../main.go` | ring buffer, accumulator (segs, rets per zone) | reserve, submit, read, record, snapshotAndReset | ring buffer; atomic counters shared by two goroutines |
| EMA store, `internal/metrics/ema.go` | per zone: ring of samples, running sums, percents, two timestamps | Update, Snapshot | called by `publish` |
| Exporter, `internal/metrics/exporter.go` | three gauges per zone | Publish, scrape | HTTP |
| Attachment, `internal/tcattach/attach.go` | egress filters in the kernel, handles in the process | CleanupEgress, AttachAll, Close | netlink; outlives the process |
| Configuration, `internal/config/config.go`, `internal/bpf/load.go` | zone numbers, prefix tables | Load, Validate, assignZoneIDs, LPM entries | read once at start |
| Interface discovery, `internal/config/interfaces.go` | none | TransitInterfaceNames | sysfs; called once at start |
| Tick summary, `cmd/.../logsummary.go` | last body and tick printed | emitTickSummary | log |

The hard behaviours are these; `PROJECT.json` lists them line by line under
`hazards`.

* **CPUs without a lock.** Every CPU runs `path_egress`; the filter relies on
  three compare-and-swap or fetch-and-add instructions and on one plain store.
* **Lazy clearing.** An epoch roll clears nothing: a word's tag says whether its
  bits count. The bank of a generation is reused two rolls later.
* **Two goroutines without a lock.** The reader adds to two counters, the poll
  swaps two counters, and nothing makes either pair atomic.
* **Blocking, draining, ticks and signals.** The reader alternates between a
  blocking read and a drain loop with a deadline in the past; main waits on a
  ticker and a signal at once.
* **Sums over a ring.** Unsigned running sums, irregular intervals, empty polls.
* **Gauges without a lock.** Publish sets the series of a zone one by one, creating
  and setting are two steps, and a scrape reads them one by one.
* **A host that changes.** Interfaces come, go and come back while the exporter
  looks for them and while its filters are on them.
* **Conversions.** Addresses and sequence numbers change their byte order, keys drop
  bits, zone numbers and accumulator places are counted differently.
* **Crashes.** Filters survive the process. `log.Fatalf`, SIGKILL and panics run
  no deferred call; systemd restarts the service (`Restart=always`).

## Modules

| Module | Models | Extends or instantiates |
|---|---|---|
| `RecentBits` | what the detector promises: two sets of bits that age | |
| `BloomFilter` | the detector, one packet per step | refines `RecentBits` |
| `BloomFilterSMP` | the detector, one map access per step, several CPUs | |
| `BloomFilterRun` | the same, seen between packets | extends `BloomFilterSMP`, refines `RecentBits` |
| `BloomFilterProofs` | theorems about `BloomFilter` | extends it |
| `BloomFilterSMPProofs` | theorems about `BloomFilterSMP` and `BloomFilterRun` | extends both |
| `StatsPipeline` | ring buffer, reader, accumulator, poll loop, shutdown | |
| `StatsPipelineProofs` | theorems about it | extends it |
| `PathEgress` | the exits of the classifier, the debug counters, their reading | |
| `PathEgressProofs` | theorems about it | extends it |
| `EMAStore` | window, loss, average | |
| `EMAStoreProofs` | theorems about it | extends it |
| `TcAttach` | the filters over many lives of the process | |
| `TcAttachProofs` | theorems about `TcAttach` and `TransitInterfaces` | extends both |
| `ZoneConfig` | from the configuration file to the zone of an event | |
| `RetransKey` | the key of a segment, under a TCP sender | instantiates `RecentBits` |
| `RetransKeyProofs` | theorems about `RetransKey` and `ZoneConfig` | extends both |
| `Exporter` | the gauges against a scrape | |
| `TickSummary` | what a poll logs | |
| `PublishProofs` | theorems about `TickSummary` and `Exporter` | extends both |
| `TransitInterfaces` | which interfaces get a filter | |
| `MC*` | constants for TLC | |

### The retransmit detector

`RecentBits` is the abstract specification: the bits of the current epoch and
those of the one before. The first packet more than `BLOOM_EPOCH_NS` after the
epoch began ages them; a key has been seen if each of its bits is in either set.

`BloomFilter` has the maps as they are: `bloom_bits[bank][word]` with a tag and
bits, `gen` and `start_ns`. `bloom_test_and_set(k)` is `path_egress` on a packet
with payload or a SYN without ACK; `NoLookup` is any other zoned packet, which
still may roll the epoch. The hash function is a constant (any function from keys
to three bits). `lastSeen` and `gap` are history: the age of the last
packet's previous lookup. The refinement mapping sends `current` to the bits that
a lookup in `gen` finds, and `previous` to those of `gen - 1`; both are computed
from the tags, so a bank that is about to be reused maps to the empty set. The
64-bit generation is a natural number (a roll takes at least 1.5 s); the wrap
`0 - 1` of the first `prev_gen` is the integer -1, which like 2^64 - 1 is odd and
the tag of no word.

`BloomFilterSMP` splits a packet into its loads, compare-and-swaps, the clear and
the atomic OR, with `cpu[c]` for the registers. The plain loads are those of the
compiled object `internal/bpf/packetloss_bpfel.o`, in which `epoch->start_ns`
and `w->gen` are loaded once; the C source does not force that, and the mutant
`ReloadedStart` shows that a compiler that reads `start_ns` again would break
`RollSpacing`. Memory is sequentially consistent: every store but `w->bits = 0` is
an atomic instruction, and that one is followed by an atomic OR of the same CPU.
The clock may advance by at most `MaxRun` while a packet is being handled, and
`2 * MaxRun <= BLOOM_EPOCH_NS`: a TC program takes microseconds and an epoch 1.5 s. With
a longer `MaxRun` a CPU can be delayed across two rolls and `TagsNeverRegress` is false. The history
variables record complete insertions (`inserted`), bits set per generation
(`fresh`) and bits taken away again by a clear of the same generation (`wiped`).

`BloomFilterRun` adds `settled`, the maps as they were when no packet was in
progress, and refines `RecentBits` for as long as packets stay `apart`: no two CPUs
in the filter at once and no clock tick inside a packet. The order of the map
accesses then makes a packet one step. After the first overlap `settled` no longer
moves, and what holds is what `BloomFilterSMP` says.

### The event pipeline

`StatsPipeline` has one action per step that another actor can come between.
`bpf_ringbuf_reserve` and `bpf_ringbuf_submit` are two steps of a CPU, and a
record behind one that is reserved and not submitted cannot be read. The reader's
program counter is `read` (blocking), `process`, `retrans`, `drain`, `returned`;
main's is `segs`, `rets`, `publish`, `select`, `shutdown`, `exited`, with the
zone the loop of `snapshotAndReset` is at. `ReadError` and `ReaderReturns` are the
two error paths; an error of the blocking read leads back to the same read and is a
stutter. `Tick` drops a tick that finds the channel full. The history
variables `taken`, `total` and `before` sum up what left the ring and what was
published: they start at the ring, and an event that found the ring full is in none of
them. Every event names a known zone (`EveryEventHasItsZone` of `ZoneConfig`, so
the `unknown` counter stays zero), and a sample is always `statsEventSize` long.

### The classifier and its counters

`PathEgress` takes a packet as the answers to the questions `path_egress` asks of
it. `FirstCount` and `SecondCount` are its exits, `debug_inc` counts one of them in
the CPU's own slot of that counter's map. The poll's `ReadSlot` reads one slot of
one map; the maps come in the order of `ReadDebugCounters`. `ReadFails` is the
error return, after which `publish` keeps `prevTCP` and `prevZoned`. The subtraction
that follows a complete reading is unsigned in the code and an integer here.

### The EMA store

`EMAStore` counts percents in units of 100 / `Scale`, and the weight `1 - Alpha(dt)` of
the old average is `Weight[dt] / Unit`, any fraction between 0 and 1. In the run
time is counted in units of `EMAHalfLife * ln 2`, which turns
`1 - Alpha(dt) = exp(-dt / EMAHalfLife)` into `2^-dt`, and `Scale` is a multiple of every
window sum and of one factor two per time unit, so that no division rounds (`Exact`,
an assumption of `MCEMAStore` that TLC evaluates). `Averaged` is the average as a function
of the history alone, with the time between the last two polls as its `dt`. The history `polls` keeps, for every poll, what was found up to it, so that
the sum over a window is a difference of two entries. The counters include torn
snapshots with more retransmits than segments. `Update` runs under a mutex that
nothing contends for: `publish` is its only caller, and `Snapshot` runs after it in
the same goroutine.

### The attachment

`TcAttach` keeps the egress filters of each interface in the kernel and the state
of each instance: `list`/`delete` for `CleanupEgress`, `pick`/`add` for
`AttachAll`, `run`, then `close` (main's deferred loop) and `closeLinks`
(`Collection.Close`, which closes the same objects again), or `rollback` when an
attach failed. Any request may fail (`*Fault`), and the process may `Die` anywhere.
`FilterAdd` refuses a handle that is taken. Instances of different versions may be
alive at the same time, as in an upgrade; `Rivals` says whether instances of one
version may be too. The requests that attach a filter
before it is added (interface lookup, `clsact` qdisc, its verification) change no
filter and are one point of failure. `Recreate` replaces the device behind an
interface's name by one with a new index and no filters; `ForeignAdd` lets another
program take a free handle at any time, under the exporter's name. A request that
names a device by its index (`idx`, `ifaceIdx`) fails when that device has gone. A handle is
taken by one filter per interface here, in the kernel by one per priority. The exporter's
filters have priority 1, the first that is listed, so that a `Close` which goes by the handle
meets its own filter before one with the same handle at another priority. The
model does not let others delete the exporter's filters. `detachStaleTCXLinks` has no action: nothing
attaches TCX links, because `attachTCXEgress` has no caller, and closing a
descriptor obtained from the iterator detaches nothing that another holder keeps.

### The zones

`ZoneConfig` takes the configuration file as its input: which zones there are, each
with a list of subnets, which of them is the source, and whether the host is
little-endian. `LoadConfig` validates and builds the two lists of entries, in any
order of the zones, as Go's map iteration gives it. `PutZone` and `PutSrcZone` store
one prefix each and may be refused; `Attach` ends the loading. `path_egress` is one
packet: its two lookups, and the name its event is counted under. An address is a
sequence of bytes and a byte a sequence of bits. `lpmKeyFromNet` makes an address a
`uint32`, which the model writes as its bytes from the most significant one (`Uint`),
and the trie sees the bytes that number has in the memory of the host (`InMemory`).
`Subnet` is what `net.ParseCIDR` can return: an IPv4 prefix is no longer than an address,
and one in IPv4-mapped notation keeps its length from 96 up, which the kernel refuses.
An identifier is a `uint8`, with `IdValues` values. `Owners` is the reference, written
from the configuration and not from the keys: the zones with the longest configured
subnet around an address. An IPv6 subnet is around no IPv4 address there. What
`lpmKeyFromNet` makes of one, the key of every address, is thus outside
`LongestSubnetWins`, which is about IPv4 zones and about the packets that an IPv4
subnet claims, and the subject of `CountedBetweenSubnets`.

### The sequence key

`RetransKey` composes `seq_key` with `RecentBits` in which every key has a bit of its
own, so that what goes wrong is due to the key and not to hash collisions. One flow
sends a SYN, new segments and retransmissions that may start at any edge of an
earlier segment and have any length; positions count from the SYN and sequence
numbers wrap. A sequence number is a pair of halves with `Half` values each, which the
little-endian load exchanges, and the shift by four bits is the division by `Block`. `Control` is a FIN, RST or SYN-ACK without payload.

### The exporter

`Exporter` splits `Publish` into the creation of a series (`With`), its update
(`Set`) and the skipped timestamp of a zone that has had no traffic (`Skip`). The zones
come in any order in each poll (`ZoneOf`), as `Snapshot` ranges over a Go map. A scrape
collects the three vectors in any order; a collector lists the series first, and the
values are read later, in any order. What the EMA store hands over is any percent
from a set, held or updated in this poll. A poll's time is its number.

### The tick summary

`TickSummary` has one action, `publish`, from the reading of the counters to
`emitTickSummary`. A body is the record of what its text shows, at the resolution it
shows. `fresh` says whether the kernel has counted packets that no successful reading
has covered. The history variables `shown` and `quiet` are the log as its
reader sees it; `told` says that the
silence has been explained, `hidden` that packets were counted since a body without
`no-tcp`. How `%.1f` rounds a tie is not modelled.

### The interfaces

`TransitInterfaces` looks up configured names one at a time, or lists the devices and
inspects them one at a time, while `Change` takes devices up and down, adds and
removes them. `ever` and `always` record what was eligible at some time and all the
time. The ignore patterns are the set of names they match. The order in which the
kernel lists devices is any, and `Sorted` is what `sort.Strings` may leave: the
rearrangements of the names that are in order. `AttachAll` is one step here; what its
requests do one by one is in `TcAttach`.

## What TLC checks

| Run | Bounds | Checks |
|---|---|---|
| `bloom_filter` | 3 keys sharing bits and words, epoch 2, clock to 7 | `TypeOK`, `MissOnlyAfterEpoch`, `ImplementsRecentBits` |
| `bloom_filter_smp` | 2 CPUs, 4 packets, one word per bank, epoch 3, `MaxRun` 1 | `MissOnlyIfWiped`, `RollSpacing`, `TagsNeverRegress`, `HitsAreFresh`, `PacketIsAtomic` |
| `pipeline` | 2 CPUs, 1 zone, ring of 2, 3 events, `FairSpec` | `TypeOK`, `Conservation`, `RetransHasSegment`, `LeadLastsOnePoll`, `EventuallyPublished`, `SignalEndsProgram` |
| `ema_store` | window of 3 polls, 5 kinds of poll, gaps of 1 and 2, time to 6 | `TypeOK`, `WindowSums`, `HeldFromLastTraffic`, `AverageFollowsPolls` |
| `tc_attach` | 2 interfaces, 2 versions, 3 handles, 3 starts, 1 fault, 2 events on interfaces | `OneFilterWhileRunning`, `NothingLeftBehind`, `ForeignUntouched`, `LeftoversBounded` |
| `tc_attach_two_instances` | 1 interface, 2 instances of one version | `RunningKeepsFilters` is violated |
| `path_egress` | 2 CPUs, 8 kinds of packet, 3 packets, 2 polls | `CountedOnce`, `ReadingExplains`, `DeltasNeverWrap`, `SkewLastsOnePoll` |
| `zone_config` | up to 4 zones over 12 lists of subnets, addresses of 2 one-bit bytes, tables of 3, both byte orders | `EveryEventHasItsZone`, `LongestSubnetWins`, `NothingSilentlyUnzoned` |
| `zone_config_ipv6` | 2 zones, one of which has only an IPv6 subnet | `CountedBetweenSubnets` is violated |
| `retrans_key` | 6-bit sequence numbers, blocks of 4, segments of 1, 4 and 32 bytes, 4 packets, epoch 2 | `RepeatIsFlagged`, `FullSegmentsNotFlagged` |
| `publish` | gauges: 1 zone, 3 polls, 2 scrapes, 2 percents; log: 1 zone, 5 kinds of tick, heartbeat 3, breakdown every 4, 10 ticks | `ScrapeIsRecent`, `TimestampPersists`, `LogIsCurrent`, `SilenceExplained`, `HiddenTrafficShows`, `LineOnChangeOrHeartbeat` |
| `transit_interfaces` | 5 devices in any state, 6 lists, 2 changes | `OneFilterPerDevice`, `AllConfiguredAttached`, `DiscoveryIsComplete` |

`TypeOK` is checked where it says more than the types (the unsigned sums of `EMAStore` do not
fall below zero) and where it was the first thing proved. The inductive invariants (`FilterInv`, `PipelineInv`,
`SMPInv`, `RunInv`, `AttachInv`, `SoleAttachInv`, `StoreInv`, `KeyInv`, `SummaryInv`,
`ExporterInv`, `SearchInv`, `ZoneInv`) are not listed
with the runs: they are proved, together with their consequences that are. TLC accepts
each of them as a further `INVARIANT` of its run; in `MCBloomFilterRun` and `MCTcAttach`
the sets `Nat` and `Int` under a quantifier or `SUBSET` must be replaced by ranges for that.
`ReadInv` of `PathEgressProofs` is the exception: it speaks of functions into `Nat`.

Why the bounds are enough to meet the cases:

* The clock of `bloom_filter` allows three rolls, so each bank is reused; keys
  share single bits, so false positives occur.
* In `bloom_filter_smp` four packets on two CPUs reach a roll that races another
  roll, a CPU delayed across a roll, and the clear race. Misses caused by a wipe
  do occur, and so do both exceptions of `HitsAreFresh`. The window
  `BLOOM_EPOCH_NS - 2 * MaxRun` of `MissOnlyIfWiped` is tight: one unit more is
  violated. The two CPUs are symmetric, and the temporal properties checked there
  are step properties and a refinement, which do not name a CPU. Packets that follow
  one another go through three generations, which is what `PacketIsAtomic` needs.
* In `pipeline` an event can fall before, between and after the two swaps; a ring of
  two is full with one reader delay. One zone leaves room for the liveness properties;
  the invariants are proved for any number of zones.
* Time 6 in `ema_store` lets the window of three wrap twice and run empty again.
* Three starts in `tc_attach` allow a crash, a failed start or a version change, and a
  clean run in one behaviour, with the other version alive throughout; the fault can
  hit any request, of the first close of a filter or of the second; two
  events are a device created anew and a foreign filter on it, or two foreign filters
  that take every handle.
* Two one-bit bytes are the smallest addresses whose byte order matters; a table of
  three is full with the pool's longest list, and overflows with two zones.
* Two segments of 32 bytes go once round the 6-bit sequence space; clock 4 with epoch
  2 lets a key age out.
* In `publish` two polls can begin during one scrape. Zones share no series, so one
  is enough; the theorems are for any number of zones, in any order. Ten ticks hold
  three heartbeats and two breakdowns. `MCPublish` explores the gauges with the log at
  rest and the log with the gauges at rest, since neither reads what the other keeps.
* Three packets on two CPUs in `path_egress` are one more than the two in flight
  that `ReadingExplains` allows for; two polls are what a difference needs.

Deadlock is not checked where the system stops: the pipeline exits, and the
bounded clock, packets, polls and starts run out. In `MCBloomFilter` packets keep
coming and deadlock is checked.

### Fairness

`FairSpec` of `StatsPipeline` assumes: a BPF program that reserved a record submits
it (the verifier rejects one that could leave it, and programs are not
preempted for ever); the Go scheduler runs the reader and main
(weak fairness on `Reader`, `Poll`, `SelectTick`, `Exit`); the timer keeps ticking;
a closed reader makes `ReadInto` return; and `select`, which picks uniformly among
ready cases, does not pass over the signal for ever (strong fairness on
`SelectDone`). Since an error of the blocking read is a stutter, weak fairness on `Reader`
includes that this read does not fail for ever: without it the reader would spin and
publish nothing. Of errors in the drain loop nothing is assumed, nor of new packets or
signals.

## What the runs found

**An IPv6 subnet takes IPv4 packets** (`zone_config_ipv6`). `README.md` of the repository says
that segments are counted between the zones' subnets, and that only IPv4 is counted.
`Validate` accepts an IPv6 subnet all the same, and `lpmKeyFromNet` returns the zero key for it,
which is 0.0.0.0/0: its zone is given every packet that no other zone's subnet contains, and
if it is the source zone packets from any address count. `LongestSubnetWins` bounds the
damage: packets to an IPv4 subnet of length 1 or more stay with its zone.

**A second instance disables the first** (`tc_attach_two_instances`).
`CleanupEgress` cannot tell a leftover from a filter that is in use, so the start of a
second instance of the same version leaves the running one without filters and without
an error.

The other runs pass. Several of their properties are the strongest that hold of the code
where a reader of the documentation might expect more:

* **Loss above 100 percent.** The reader records a retransmit between the swap of `segs`
  and the swap of `rets`: the poll publishes the retransmit without its segment.
  `LeadLastsOnePoll` shows the damage is limited: one poll later the segments published
  cover it. Swapping `rets` before `segs` would let the loss err on the low side only.
* **More zoned packets than packets.** `debug_tcp_zoned` is read after
  `debug_tcp_payload`. `SkewLastsOnePoll` shows that the next reading makes up for it,
  and `ReadingExplains` that the order is the right one for the log of drop reasons.
* **New data counted as retransmits.** Segments that start in the same 16 bytes share a
  key. `FullSegmentsNotFlagged` says when that cannot happen: no segment shorter than a
  block, no turn round the sequence space, and an initial sequence number that is not
  itself a key of data.
* **A timestamp of 0.** A scrape can fall between the creation of a series and its first
  value; `ScrapeIsRecent` allows this 0 and no other.
* **A failed reading looks like silence.** The body says `warn=no-tcp` and nothing logs
  the error; `HiddenTrafficShows` is that the next reading that succeeds makes up for it.
* **A quiet zone's average moves.** `README.md` of the repository says that it holds its
  last value; it does so only once the whole instant window is empty. `AverageFollowsPolls`
  states when the average moves and when it stays, `HeldFromLastTraffic` the same of
  the percent and the timestamp.

Read in the source and not the subject of a run: a zone without loss alternates between
`idle` and `loss0.0%/ema0.0%` in the log when its traffic stutters; discovery attaches to
a VLAN or bond and to the device below it, so a packet passes two filters; the repository's
`README.md` promises TCX on recent kernels while only clsact is used; `ema_half_life` is
the time constant of the exponential, after which a value has decayed to 1/e and not to
1/2; `detachStaleTCXLinks` detaches nothing.

## What is proved

The theorems hold for every value of the constants that satisfies the named
assumptions: any keys, bits, hash function, word size and epoch length for
the filter; any number of CPUs, zones, ring slots and events for the pipeline; any
number of CPUs and any packets for the classifier; any interfaces, versions, handles and
foreign filters for the attachment; any window, counters, gaps and weights for the EMA
store; any initial numbers, lengths and blocks for the sequence key; any observations
and intervals for the log; any zones and percents for the gauges; any devices, patterns
and lists of names for the discovery; any configurations, widths and table sizes for the
zones. The bounds (`MaxNow`, `MaxEvents`, `MaxPackets`, `MaxPolls`,
`MaxStarts`, `MaxFaults`, `MaxTime`, `MaxTick`, `MaxScrapes`, `MaxChanges`) are arbitrary natural numbers.
Each `THEOREM` is the property itself, under the component's specification alone: `Spec`,
or `TransitSpec`, `ExportSpec` and `ConfigSpec` for the three components whose proofs share a
module with another's. The one further hypothesis is
`~Rivals` in `TcAttachProofs`, that instances of one version do not overlap, without
which the three theorems that have it are false (`tc_attach_two_instances`).

Every invariant, action property and refinement that a passing run checks is the
statement of a theorem.

**`BloomFilterProofs`.** `MissOnlyAfterEpoch` speaks of the last packet only and is
not inductive. `FilterInv` adds where the bits of each key are: in the current
generation if it was last looked up since the epoch began, in the
previous one if at most an epoch length before; and that no tag is ahead of `gen`,
without which a roll would revive old bits. The lemmas `SetBitCurrent`,
`SetBitPrevious` and `SetBitTags` say what `bloom_set_bit_gen` does to the bits
visible in a generation, `InsertEffect` lifts them to three bits, `RollEffect`
says what a roll does to the two ages. From these follow `FilterInvariance`,
`TypeCorrect`, `NoMissWithinEpoch` and, step by step, `FilterRefinement`: the
tagged words implement `RecentBits`.

**`StatsPipelineProofs`.** `LeadLastsOnePoll` compares two polls; `PipelineInv` adds
what holds inside one: a zone whose segments were swapped out has the segments of
everything published before, and a zone not reached yet contributes nothing. With
`Conservation` and `RetransHasSegment` this is inductive (`PipelineStep`, one step
per action, `FrameInv` for the actions that touch none of the numbers).
`PipelineInvariance` gives `PipelineTypeCorrect`, `EventsConserved`, `NoOrphanRetransmit` and
`TornSnapshotRepaired`.

**`PathEgressProofs`.** `CountedOnce` relates the counters of each CPU and the packet
in its hand; with that term it is inductive as it stands. `NextCountMeaning` says
which counters can follow which, and `CountedStep` goes through them.
What a poll reads is a sum over CPUs of values that were current at different times.
`ReadInv` says that there are partial sums `P` of the slots `R` read so far that lead to
what the reading has, and likewise for the reading before. Against these, `Now(R, k, c)`,
the slot as it was read or, if it has not been, as it is, does not change when it is
read and only grows when packets pass. `SumOrder` compares two sums slot by slot; it is
an induction over the CPUs, made by taking the least CPU at which the order fails. Then
`DeltasAreCounts` follows because a slot never falls, `SkewIsMadeGood` because every
slot of `tcp_zoned` was covered by `tcp_payload` when the next reading began, and
`ReadingsExplain` because the inclusive counters are read first.

**`BloomFilterSMPProofs`.** `EpochInv` is about time: a packet that arrived at `t` and has
read generation `g` is `Dated`, so that the start of the present epoch bounds how far
`gen` has moved since. That no two rolls are closer than an epoch (`RollsAreSpaced`)
and that a CPU is never two generations late (`NoTagRegresses`) rest on it and on
`2 * MaxRun <= BLOOM_EPOCH_NS`. `TagInv` says whose tag a CPU finds between its load,
its compare-and-swap and its OR. `BitsInv` ties the bits to `fresh` and `wiped`: a bit
under a tag was set in that generation or is about to be cleared, and a bit that was set
and not wiped is there as long as the tag is. `LookupInv` follows one packet: every hash it
has passed was seen, or the bit was wiped. `OnlyWipesCauseMisses` and `OnlyFreshHits`
are read off at the end. The proof goes through the steps of a packet, with one
lemma per step and part of the invariant.
`RunInv` is the invariant of `BloomFilterRun`, for one packet at a time: up to the lookup the
epoch is the settled one, half rolled or rolled (`RollPart`); the tests so far have found
exactly the bits that the settled maps had (`TestPart`); and the bits that count are those of
the settled maps and those of the key set so far, where the bits of a word that is retagged
and not cleared do not count (`SetPart`). `LiveStep` shows that the swap and the clear change
no such bit and the OR adds one. When the packet ends, `EndsWithLookup` or
`EndsWithoutLookup` is the step of `RecentBits`, and every other step is a stutter or a tick:
`PacketsAreAtomic`.

**`TcAttachProofs`.** `AttachInv` is what an instance knows whatever the others do: every
run has its number, every filter of a run that is still there is behind the handle its
instance holds for that device (`HandleInv`), and what a round of closing without errors
has passed is gone (`ClosedInv`). `ClosesWhatItOpened` needs no more, and holds with
rivals too. `SoleAttachInv` adds what no one takes away: the filter of an instance
stays until it closes it, what it listed as stale is what is stale (`SoleInv`), a cleanup
without a fault leaves nothing (`CleanInv`), and each fault saves at most one leftover
(`CountInv`, with the cardinality lemmas of `FiniteSetTheorems`). From it follow
`ForeignSurvive`, `RunsWithOneFilter` and `LeftoversStayBounded`.
The second half is about `TransitInterfaces`. `SearchInv` says what a search under way still
owes: the names attached or left are the configured ones (`ResolveInv`); a device that has been
eligible all the time is found or still to be inspected, and what is found or will be was
eligible when the devices were listed (`DiscoverInv`). Sorting keeps the devices and their
number. `NoDeviceTwice`, `ConfiguredAreAttached` and `DiscoveryMissesNone` are conjuncts of it.

**`EMAStoreProofs`.** Zones do not touch each other, so `ZoneStep` shows everything for one
zone and its history. The sums alone are not inductive: what leaves them is what a slot
holds, so `RingOf` says that the `i`-th poll is in slot `(i - 1) % windowCap` until
`windowCap` more have come (`ModAdd` shows that no two polls of a window share a slot),
and `TotalsOf` that totals do not fall, so that the sums are natural numbers.
`PolledOf` ties `LastPoll` and `LastUpdate` to the history, so that the step `Update` takes is
the one of `Averaged`: `AverageIsOfThePolls`. `AverageStaysWithin` is a consequence that no run
checks: the average lies between losses that windows have shown. `AverageBetween` is that a weighted mean lies between its arguments even when it is rounded
down, so that no theorem needs `Exact`.

**`RetransKeyProofs`.** `SeqKey` shows that the swap and the load cancel, `KeysApart` that
positions at least a block apart and a block short of the whole space have different
keys across the wrap-around, `DataKeyBound` that no data key reaches the SYN's. `AgeInv`
is the argument of `BloomFilterProofs` one level up: the key of a segment of this epoch
is in `current`, that of a segment at most an epoch old in either set, and no packet comes
after the end of an epoch without beginning the next. `KnownInv` is the converse, that only
keys of segments sent are known. `LastSeen` finds the last of the segments that
started at a position, as a least element. From these follow `RepeatsAreFlagged` and
`FullSegmentsPass`.
The second half is about `ZoneConfig`. `ZoneInv` follows the loading: an entry is still on its
list or its prefix is in the table, and a prefix in the table belongs to an entry with that
zone. What the trie compares is what the configuration wrote (`SameBytes`, `KeyMatches`): the
two reversals of a little-endian host cancel. `KeyLength` and `KeyCovers` say what the key of a
subnet stands for, which for an IPv6 one is everything; `LongestSubnetWins` follows because
such a key is shorter than that of any subnet in `Claimed`. `Flattened` says which entries `FlattenSeq` of the
zones' lists has, by an induction over the number of lists whose property is
a set of numbers (`NatSetInduction`), which the provers can instantiate; `Ranks` and `IdsDiffer` that no two
zones share an identifier, by counting the names below each, and `CountedForItsZone` that the index finds the zone an identifier
was given to. A longest match exists because prefixes are bounded (`Greatest`). From these
follow `EventsHaveTheirZone`, `LongestSubnetIsCounted` and `NoSubnetIsLost`.

**`PublishProofs`.** The properties of the log relate it to the state that `publish` and
`emitTickSummary` keep: `MemoryInv` (the body remembered is the one printed last, and
`quiet` is the distance to its tick), `EmptyInv` (a run of empty polls has had its
breakdown) and `HiddenInv` (what no body shows has not been read yet). One tick is one
step, and `SummaryTick` treats the conjuncts one by one.
The second half is about `Exporter`. `GaugeInv` says which poll set a series last: the one in
progress if `Publish` has passed it (its zone is no longer in `left`), else the one before. `GatherInv` says of a scrape under way
that what it has read was current at some time since it began; a series that it listed as
absent was not published before. `TimestampInv` orders the timestamps of the last scrape,
this one and the gauge, and rests on `PollInv`, that the store's timestamps do not go back.
With `ScrapeIsRecent` and `TimestampPersists` these are inductive (`ExporterInvariant`).

Only model-checked:

* liveness (`EventuallyPublished`, `SignalEndsProgram`): fairness is beyond the prover;
* `Exact` of `EMAStore`, that no division of the checked instance rounds: TLC evaluates it for
  that instance, and for other weights it is a choice of `Scale`.

The violations `RunningKeepsFilters` and `CountedBetweenSubnets` are TLC's, too.

## Not modelled

* Generated bindings, the install script and HTTP serving: no state of their own.
* The vendored libbpf headers under `bpf/headers`: third-party declarations. The program
  uses four helpers and the byte-order macros from them, which the models have where
  they are called (`bpf_map_lookup_elem` in `ZoneConfig`, `bpf_ktime_get_ns` as the
  clock, the ring buffer helpers in `StatsPipeline`, `bpf_ntohl` in `RetransKey`). They
  are nine tenths of the lines of C in the repository, so the mapped share
  of its C is small although all of `packet_loss.bpf.c` but its includes and licence is
  covered.
* The offsets at which `parse_ipv4` looks for a header: a raw IP packet whose source
  address has the bytes of an Ethernet type is read at the wrong place. `PathEgress`
  takes the header that `parse_ipv4` finds as given.
* Which network device is stacked on which. `TransitInterfaces` decides which devices
  get a filter and does not follow a packet through them.
* The hash function (a parameter of the filter), floating-point rounding, the wording of
  log lines, `--verbose` and pprof.
* The defaults of the configuration and its durations, which are constants of the modules
  that use them.

## Plan

Every component has its module, its run and its theorems. What is left:

1. Liveness of the pipeline, once the prover has `ENABLED`: `EventuallyPublished` by
   the number of records in front of an event, `SignalEndsProgram` from the strong
   fairness of `SelectDone`.
2. Two hazards without a property: the offsets at which `parse_ipv4` looks for a header, and
   devices stacked on devices. Both need a model of packets below `PathEgress`.
