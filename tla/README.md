# llm-rtc: TLA+ models and proofs

llm-rtc carries a full-duplex voice conversation over WebRTC: microphone PCM is
cleaned, Opus-encoded and sent; incoming RTP packets are reordered, paced,
decoded and handed to the application. This directory holds TLA+ modules of the
parts of that code in which order, time, concurrency or configuration decide
whether it is right, the TLC configurations that check them, and TLAPS proofs, for
every value of the constants, of all their safety properties. Source paths below are relative to `src/`.

## Inventory

| Component | State | Operations | What is hard |
|---|---|---|---|
| `JitterBuffer` (`crates/llm-rtc-core/src/audio/jitter.rs`) | packets and evicted slots by extended sequence number, cursor (`next_seq`, `next_timestamp`), anchor (timestamp, deadline), adapted target, counters | `push`, `pop_event`, `clear`, `has_pending`, `next_deadline`, `stats` | reordering, duplication, loss; 16- and 32-bit wraps; re-anchoring before playout; capacity eviction; DTX gaps; the schedule may move before playout and never after |
| `VoiceLlmSession`, incoming (`crates/llm-rtc-sdk/src/session.rs`) | per remote track a receiver task and a playout task, a `Notify`, a `watch` channel; one pipeline behind a mutex for all | `on_remote_audio`, `spawn_playout_task`, `close` | values read under the lock and used after it; wakeups; the tail after the receiver ended; pacing of a late task; two tracks on one buffer |
| `AudioPipeline` (`.../audio/pipeline.rs`) | codec, jitter buffer, processor, `pending_outgoing` | `push_incoming`, `pop_decoded`, `process_outgoing*`, `on_render`, `reset` | decode failure after the slot was consumed; two framing grids |
| `AudioProcessor` (`.../audio/processor.rs`) | `pending_capture`, `pending_render`, `carry_out`, the engine | `process`, `process_with_reference`, `process_render`, `reset` | alignment of the processed stream with arbitrary block sizes |
| Opus codec (`.../audio/codec.rs`) | libopus encoder and decoder, frame length in samples | `new`, `encode*`, `decode`, `decode_fec`, `validate` | libopus takes a few frame lengths only, to the sample; errors must surface in the constructor |
| `VoiceLlmSession`, construction | aligned configuration, peer, track, frame duration | `new` | several components that fail one after the other; a conversion that panics; two clocks |
| `VoiceLlmSession`, outgoing | the packet scratch vector | `send_audio*`, `write_packets` | a failed write drops the packets behind it |
| `PeerConnectionHandle` (`.../peer.rs`) | a webrtc-crate connection | `new`, `add_opus_track`, `on_track`, SDP calls, `close` | when callbacks come; otherwise wrappers without logic |
| DTLS and SRTP configuration (`.../transport/`) | none | validation | none |
| Python bindings (`python/src/lib.rs`) | none of their own | a wrapper per method | which exception an error becomes |
| Trace replay, jitter benchmark, loopback (`crates/llm-rtc-sdk/examples/`) | a simulated network, a mock clock, a playout timeline | `encode_trace`, `run_local_once`, `bench_jitter`, the demonstration's loop | stop conditions; a clock that lags |
| NetEQ comparison (`neteq_trace_sender.rs`, `benchmarks/neteq-comparison/neteq_receiver.js`) | processes, pipes, a start gate | the line protocol, timeouts, exits | calls that wait for each other; either end may die |

How they interact: the webrtc crate calls `on_track` for each remote track.
The session then runs two tasks. The receiver awaits `read_rtp`, locks the
pipeline, pushes the packet into the jitter buffer, compares the next deadline
before and after, unlocks, and calls `packet_ready.notify_one()` if it changed;
when reading fails it sends `true` on `receiver_done`. The playout task locks,
reads deadline and `has_pending`, unlocks, waits on a `select!`, locks, pops and
decodes one slot, unlocks, and calls the application. `send_audio` takes the same
lock for the outgoing path, which shares no other state with the incoming one.

What makes each part correct:

* jitter buffer: every slot from the first emitted one has exactly one event, in
  order, at or after its deadline; counters count everything once; eviction
  neither removes the packet the stream starts with nor one a recovery
  announced; the schedule is fixed once playout started; pending slots drain;
* session: no lost wakeup, frames delivered once, in order and at a bounded
  rate, the tail played, the task ended;
* audio processor: processed samples come back once and in order, none is lost
  unless a call failed, and less than a frame is held back;
* construction: what libopus cannot work with is rejected there, nothing legal is
  rejected or panics, and no error leaves an open peer connection;
* the programs that measure: nothing that should be played is left when they
  stop, calls are measured together and only while packets are written, and
  every process ends;
* outgoing path: every packet is one codec frame of consecutive processed
  samples; packets go out once and in order, also after a call that failed half
  way; less than a block waits between calls.

## Modules

| Module | Role |
|---|---|
| `JitterBuffer` | the jitter buffer, one action per way through each handler, with its properties |
| `PlayoutSchedule` | the abstract promise of a jitter buffer: slots in order, once, played or concealed |
| `MCJitterBuffer` | streams of packets and constants for TLC |
| `JitterBufferProofs` | theorems about `JitterBuffer` whatever is sent, and that its steps are steps of `PlayoutSchedule`; checked by TLAPS as are all the following `Proofs` |
| `JitterSenderProofs` | theorems that relate it to what a sender numbered and stamped |
| `VoiceSession` | receiver and playout tasks around an instance of `JitterBuffer` |
| `MCVoiceSession` | finite instances of it |
| `VoiceSessionProofs` | theorems about `VoiceSession`, from those about the buffer |
| `AudioProcessor` | the framing of the audio processor, as a queue of numbered samples, with its properties |
| `MCAudioProcessor` | block sizes around a frame |
| `AudioProcessorProofs` | theorems about `AudioProcessor` |
| `OutgoingAudio` | the pipeline's outgoing half and `send_audio*`, around an instance of `AudioProcessor` |
| `MCOutgoingAudio` | codec frames against processor frames |
| `OutgoingAudioProofs` | theorems about `OutgoingAudio`, from those about the processor |
| `SessionSetup` | the constructors of session, pipeline and Python class, and the calls of what they built |
| `MCSessionSetup` | settings at each limit |
| `SessionSetupProofs` | theorems about `SessionSetup` |
| `Replay` | trace replay, jitter benchmark and loopback demonstration around an instance of `JitterBuffer` |
| `MCReplay` | network profiles |
| `ReplayProofs` | theorems about `Replay`, from those about the buffer |
| `NeteqHandshake` | the NetEQ comparison's Node process, its calls and their sender processes |
| `MCNeteqHandshake` | both modes |
| `NeteqHandshakeProofs` | theorems about `NeteqHandshake` |

`VoiceSession`, `OutgoingAudio` and `Replay` take their component from a module of
proofs (`JB == INSTANCE JitterBufferProofs`, `AP == INSTANCE AudioProcessorProofs`,
`JB == INSTANCE JitterSenderProofs`), so that
the component's theorems are at hand when a step of the composition contains one
of the component; for TLC this is the component itself. `BufferAssumption` and
`FramingAssumption` repeat the component's assumption about the constants it is
given.

### JitterBuffer

Variables carry the names of the struct's fields. `packets` is a function from
extended sequence numbers to packets where the code keeps a sorted vector:
`first()` and `last()` are the least and greatest element of the domain.
Time, deadlines and latencies are all counted in ticks of the buffer's RTP clock,
so the conversions between ticks, milliseconds and `Duration` are exact scalings
and disappear; rounding of `f64` is not modelled. Whether that clock is the one the
sender stamps packets with is `SessionSetup`'s question. `Option<Instant>` fields that
are `None` only while `started` is false are 0 then, and read by nobody.

`push` is five actions that exclude each other, `PushFirst`, `PushLate`,
`PushEarlier`, `PushDuplicate` and `PushAhead`; each includes the transit
measurement, the adaptation of the startup target and the capacity eviction that
the code does on that path. (A packet that re-anchors the stream can not be a
duplicate, by `PendingAhead`, so `PushEarlier` has no such branch.) `pop_event`
is `PopPacket`, `PopEvicted`, `PopRecovered` and `PopMissing`. The code loops in
`enforce_limits`; since a push adds one packet, at most one is evicted, which
`WithinCapacity` confirms.

The network (`Arrive`) delivers any packet of `Sent` at any time after it was
sent, any number of times or never. `arrivals` and `log` are history variables:
the packets pushed and the events emitted since the last `clear`. `Tick` advances
the clock freely up to `MaxTime`, and after that only towards a pending deadline.

Left out: the RFC 3550 jitter estimate, which is written by `push` and read only
by `stats`; `pop`, which maps the result of `pop_event`. `validate`, which the
crates do not call, is in `SessionSetup`.

### PlayoutSchedule and the refinement

`PlayoutSchedule` knows nothing of time, timestamps, latency or capacity: a slot
may be opened, prepended before playout starts, accepted ahead of the cursor,
given up unless it is the cursor's, and then played or concealed in turn.
`JitterBuffer!Schedule` maps `Buffered` to `held`, `Evicted` to `owed` and the log
to `emitted`; `ImplementsSchedule` is the abstract specification with its
fairness, checked of `FairSpec`. That every step is one of the schedule's or leaves
it alone (`Schedule!Spec`, without the fairness) is proved.

### VoiceSession

An action is what one task does from one point at which another task may be
observed to the next: a critical section of the mutex, a read of the watch
channel after it, the completion of a `select!`, a callback. The locals that
survive such a point (`deadline`, `pending`, `next_decode_at`, `decoded`) are
variables, so a value that is stale in the code is stale in the model.
`packet_ready` is the single permit tokio's `Notify` stores; `receiver_done` and
`done_seen` are the watch channel's value and whether the playout task saw its
only change, after which `changed()` fails because the sender is gone. Both
branches of a `select!` may be taken when both are ready.

A payload in `Undecodable` makes `decode` or `decode_fec` fail; `pop_decoded` has
consumed the slot by then. `CloseTrack` may happen at any time the receiver reads
(any error ends it, the session's `close()` too).

`AddTrack` is the `on_track` callback of the webrtc crate; if `on_remote_audio` has
not registered its handler by then (`OnRemoteAudio`), the track is never served.
Two tracks share the jitter buffer, as `on_remote_audio` clones one `Arc` into
every callback; docs/architecture.md describes a session with a single audio
track. A receiver wakes only its own track's playout task, and two tasks may
deliver out of order, so `WakeupNotLost` and `DeliveredInOrder` speak of states in
which one track is served; they are not weakened otherwise, since a track that
is never served is a case the run contains.

### AudioProcessor

A near-end sample is a number, given when the processor takes it, and a mark that
says whether the engine has seen it; what the engine does to it is libwebrtc's
business. Far-end samples are only counted: nothing reads them back. `Process` is
`process`: `ProcessInPlace` is its direct path, which can stop at any frame and
leaves the ones before it processed in the caller's block; `ProcessBuffered` is
`drain_capture_frames` followed by `deliver`. `near_end` is the caller's block as
the call leaves it, `ok` whether it returned `Ok`. In `CaptureWithReference` the
far end comes first: if it fails, `process` is not called and the block is not
taken, so its samples get no numbers. `output` joins the blocks of the
calls that succeeded, `failures` counts the others; both are history variables.
`Reset` starts a new stream and forgets the old one's output.

A call that fails loses samples: the frame the engine rejected and, on the
buffered path, the frames processed before it in the same call. `Lossless` is
therefore a claim about streams without failures, and `InOrder` about all. Both
compare what came back processed (`Delivered`, the places in `output` the engine
has seen) with what is held back (`InFlight`).

### OutgoingAudio

The pipeline's processor is an instance of `AudioProcessor` with shared variables,
and `AP!Process` is a conjunct of the pipeline's actions. A packet is the block of
samples it encodes, so order, gaps, padding and raw samples are visible in it.
`ProcessOutgoing` is `process_outgoing_into`: `ProcessAligned` is its direct path,
`Gather` the early return, `ProcessGathered` the rest. `Gcd` is the loop of
`least_common_multiple` as a recursive function on pairs. `Encode` is
`encode_frames_into` with its padding. `SendAudio` is `send_audio` up to the first
await; `WritePacket` and `WriteFails` are the iterations of `write_packets`. A
dropped future has the same effect as a failed write: the remaining packets go,
and the storage is empty at the next call. The session is borrowed mutably by
`send_audio`, so calls do not overlap, but the pipeline's lock is free during the
writes. `OnRender` and `Reset` are the pipeline's; the session calls neither,
owners of a bare pipeline (the bindings) do. `errors` counts failures of the codec
and of the track.

### SessionSetup

One action per constructor, in the order the code runs them; each ends in the
next, in `failed`, or in `panicked`. Frame lengths are in tenths of a millisecond,
so 2.5 ms is a number, and sample counts truncate as the code's conversion does.
`frame_size_ms` is a floating point number: `NotFinite` are those of its values that
are no length (NaN, the infinities), and `DurationLimit` is the first length that does
not fit into a `Duration` (2^64 seconds). `IsDuration` is what `from_secs_f64` converts;
on everything else it panics, in `FrameDuration`, before the codec has looked at the
length.
libopus is three operators: which codecs it creates, which frames it encodes, and
which lengths it conceals. Rates and frame lengths are derived from libopus's own rule
(divisors of 48 kHz; 2.5 ms doubled up to 40, and 60), not from the code's lists; the
limits of bitrate and complexity are those the code's comments state as libopus's
(codec.rs:105, 144), so that "legal" is relative to these two. What is legal (`Legal`) is what libopus takes, with a
frame of whole samples: 2.6 ms at 8 kHz truncate to the 20 samples of 2.5 ms, which
libopus would encode, but no stream has such frames, and `validate` rejects them.
Everything else comes from the code, so that a
disagreement between the code's checks and libopus's shows as `bad_arg` in a later
call. `Fail` drops the peer connection without closing it, as the `?` operators
of `VoiceLlmSession::new` do; `RejectedForCause` says that it is not left open in the
caller's hands, not that it was closed.

### Replay

A program first draws its network (`EncodeFrame`, with delays and losses chosen
where the code uses a seeded generator) and then runs its loop. The replay
(`NextArrival`, `PushArrival`, `AdvanceClock`, `PollBuffer`) sets the mock clock to
each arrival; the benchmark leaves it where the last poll put it (`SetClock`),
which `StartupHeld` therefore grants one poll. The demonstration (`LoopBack`,
`Sleep`, `Play`, `LoopTail`) runs by the real clock, and sleeps may last longer than
asked for. The stop conditions are those of the code, evaluated on the new tick
and output. `run_llm_load` runs `run_local_once` once per thread on shared read-only
data; its check that every worker played `CONTENT_FRAMES` is what
`ContinuityComplete` establishes.

A profile bounds its delays by `jitter` and its losses by `loss_run`, the most frames
its generator drops in a row: the generators are seeded with constants, and the
code's seeds drop none (clean) or at most two (moderate, severe, and the benchmark).
`Slack` of a profile is the furthest playout can lag: the jitter of a packet and the
poll that sees it, behind a startup target at its ceiling or behind a row of losses.
`ReplayAssumption` relates it to the constants of the programs, with the values for
the severe profile and the default ceiling of 120 ms:

* the tail is no shorter than the slack: 165 ms, and `end_ms` adds 1000;
* what arrives while playout lags fits into the buffer: 165 + 40 ms, and 100 packets
  are 990 ms behind the first;
* the jitter is less than the content, so that no guard overtakes the first frame: 40
  and 10000 ms;
* the demonstration's 30 frames fit into its buffer of 100.

The proof asked for them. An earlier version of the module assumed that the buffer has
room for every frame, which the code does not grant (100 packets for 1010 frames), and
let the network lose any number of frames in a row; a row of more than a second would
end the replay before the content behind it is played, as would a `max_latency_ms`
given on the command line that is longer than the tail.

### NeteqHandshake

`sender` is a process that follows `run_neteq_sender`, `receiver` one invocation of
`runOnce` inside the Node process, `main` the function that starts and awaits
them. The pipes are sequences of lines. A sender may fail wherever the code has a
`?`, a `bail!` or a timeout; `println!` fails when the reader is gone
(`EmitProtocol` is disabled then, `SenderFails` is not). The Node process ends by
reporting or by a rejection: nobody handles `finished` before it is awaited, so a
sender that exits with an error ends the process at once (Node 15 and later; the
benchmark's Dockerfile installs Debian 12's Node 18). A line other than the expected one
is an exception in the receiver and an error in the sender; `TypeOK` shows that
neither ever happens.

Definitions marked "Slip" are variants of the definition that
follows, with a mistake one could plausibly make in the code. Nothing uses them;
each property below is violated when its variant replaces the real definition.

## Runs

| Run | Shows | Distinct states |
|---|---|---|
| `jitter_contiguous` | type, slot discipline, accounting, capacity, startup schedule, deadlines on continuous speech | 58 thousand |
| `jitter_refines` | a silent gap, a buffer of one: events never overlap, a recovery's packet is played next, the buffer implements `PlayoutSchedule`, pending slots drain | 82 thousand |
| `jitter_late_dtx` | violation: a packet dropped as late before its own deadline | - |
| `session_tracks` | up to two tracks: wakeups, pace, delivery once and in order; a playout task finishes once its receiver has and nobody feeds the buffer | 336 thousand |
| `session_tail` | violation: the tail is not always played | - |
| `processor_framing` | type, no loss, order and bounded delay for blocks of any size | 6 thousand |
| `processor_alignment` | violation: the output is not the input, sample by sample | - |
| `outgoing_frames` | what waits, what the packets contain and their order | 36 thousand |
| `replay` | programs that measure play everything, in order, not too early | 182 thousand |
| `setup` | constructors reject what libopus would, and nothing else | 58 thousand |
| `session_clocks` | violation: playout by another clock than the media's | - |
| `handshake` | calls start together and are measured while they send; everyone ends | 19 thousand |

Bounds. The streams have four frames, enough for a
loss in front of a loss, a packet behind both, and an eviction; capacity 2 lets
one packet wait while another is evicted, capacity 1 makes every disorder an
eviction. Up to six arrivals allow duplicates and late packets besides each
frame. `ContiguousSpeech` starts two below the wrap of the sequence space and one
frame below the wrap of the timestamp space, so both wrap in the middle of the
stream. The spaces (16 and 64) are large against the stream, as 2^16 and 2^32
are, so half-space comparison is never ambiguous. In `jitter_contiguous` the target latency is
below the ceiling and the ceiling below `MaxTime`, so the target is adapted, and
clamped, in some behaviours. `MaxTime` covers the last frame's transmission plus
the delays that make it late; deadlines beyond it are still reached, as `Tick`
continues towards them. `SpeechWithSilence` has a gap of two frame times in the
timestamps and none in the sequence numbers; the timestamps wrap in the gap.

`session_tracks` keeps two tracks small: two packets with a lost frame between
them (so that a recovery is due), two arrivals, ticks of one frame, and handlers
and tracks added at instant 0 in any order. That is enough for the tasks of both
tracks to compete for a slot, for a wakeup between any two steps, for a packet
that re-anchors, for an undecodable packet (frame 0) behind which a frame is
recovered and played, and for either track to end first or never to be served. `session_tail`
uses one track and three frames.

The processor's frame is 3 samples for 480: blocks of 0, 1, 2, 3, 4 and 6 samples
are then less than a frame, one, two, and a frame and a part. Ten samples (more
than three frames) let the carry-over grow and be consumed. One failure
is allowed, at any frame of any call; what matters is the calls after it. The
outgoing run uses codec frames of 1 to 6 samples that divide the processor's frame,
equal it, are its multiple (as 960 is of 480) or neither (as the 320 samples of
20 ms at 16 kHz are); 13 samples exceed the largest block,
12.

`setup` gives every field a value at, inside and outside its limit, and every
combination of them, sample rates that divide into frames and one (44.1 kHz) that
does not, and all frame lengths a remote Opus sender may use. Among the lengths given
are a negative one, two that are not finite and one that no `Duration` holds (the
bound, 700, stands for 2^64 seconds; it only has to lie beyond every legal
length). `replay` plays five
content frames and a guard (for 1000 and 10) in ticks of 2.5 ms: the three profiles
differ in delay, jitter and loss, the jittery ones reorder neighbours, and the lossy one may
lose all but the first frame (or, in the benchmark, all). The tail of 80 ticks
covers the greatest slack, 66 (a ceiling of 48, 16 of jitter, a poll of 2), and the
capacity of 24 (92 ticks) the slack and the jitter, 82. Six frames never fill a buffer
of that size; that a trace longer than the capacity does not either is proved, not
run. `handshake` has two
batches of three calls, so that two may be ready while the third fails, and the
second batch starts after the first; two packets suffice to distinguish before,
between and after. The runs do not check deadlock: a stream ends, a program
stops, and the model with it.

Fairness. `JitterBuffer!FairSpec` assumes that time passes and that someone polls
`pop_event` when a slot is due, which is what the playout task does.
`VoiceSession!FairSpec` assumes that time passes and that each playout task that can
go on, and each notification that is due, has its turn in the end, as tokio's
scheduler grants every task that is ready; it assumes neither that packets arrive nor
that a track closes. `PlayoutFinishes` is therefore about tracks whose receiver has
finished, and only about behaviours in which the buffer does not keep being fed by
another track for ever: where it is, the code's task does not end (`StillFed`; see
below). The instance has finitely many arrivals, so in the run no track feeds for
ever; the condition is there because the code's tracks may.
`NeteqHandshake!FairSpec` assumes that each sender process goes on while it can (its waits for ICE and for the connection have timeouts) and that Node's
event loop serves what is ready. It does not assume that anything succeeds: every
step that may fail is one alternative of the fair action.

## What the violations show

* `TailPlayed`: the playout task reads `pending` under the lock and
  `receiver_done` after it (session.rs:121-129, 151-170). If the receiver pushes
  its last packet and signals its end in between, the task stops with that packet
  buffered, although session.rs:107-108 says the tail is played.
* `LateAfterDeadline`: the deadline of an absent slot is one frame after its
  predecessor. When the absent packet is the first after a DTX gap, its slot is
  concealed at the start of the gap and the packet, arriving in good time for its
  own timestamp, is dropped as late.
* `SampleAligned`: a block that is not whole frames comes back partly raw, which the
  counterexample shows, and its samples come back again, processed, in later
  blocks; processor.rs:34-36 says the
  output is a 1:1 transform that preserves alignment. The session is spared
  this: its pipeline passes whole frames only (`ProcessorHoldsNothing`).
* `PlayoutAtMediaRate`: the session sets the jitter buffer's clock to the PCM rate
  and leaves its frame length alone (session.rs:190-192), while jitter.rs:66-68
  calls them the RTP clock, 48000 for Opus, and the duration of one encoded frame. With
  16 kHz PCM a 10 ms step of the stream's timestamps becomes 30 ms; with 20 ms
  frames an absent one is predicted to last 10 ms.

Three more disagreements between code and documents, seen in the definitions and not
given a run: a playout task leaves when its receiver is done and the pipeline has
nothing pending (session.rs:129, 170, `StillFed`), but all tracks share the pipeline, so
the task of a closed track goes on with the packets another track receives, and does
not end while they keep the buffer pending, where session.rs:238-239 has it exit after
the buffered tail; a slot whose packet was evicted is reported `Missing`
(jitter.rs:386-398, `PopEvicted`) also when the packet behind it is at hand, which
jitter.rs:129-131 excludes; and a packet that does not decode yields neither its frame
nor a concealed one (session.rs:153-159, `FrameOf`), where README.md:72-74 promises
one frame per slot. Also worth knowing: `VoiceLlmSession::new` converts the
frame length to a `Duration` before anything has validated it, and panics if it is
NaN, infinite, negative or too long (session.rs:203-204); `RejectedForCause` says
that none of these lengths is one the codec would have accepted. And
`PeerConfig::codec_mime_type` is read by nobody.

## Proofs

Each module of proofs states its theorems for every value of the constants that
satisfies the assumption of the module it is about. The assumptions say what the
constants are (frame sizes are positive, bounds are natural numbers, tracks are
finitely many, Opus packets have one of Opus's lengths) and nothing about the
behaviour; TLC evaluates them in every run. Each theorem follows from an inductive
invariant, called `IInv` where there is one for the whole module, with one step of
its proof per action.

### JitterBuffer, whatever is sent

`JitterBufferProofs`, for any stream, capacity, latency and size of the two number
spaces:

| Theorem | Property |
|---|---|
| `TypeCorrect` | `TypeOK` |
| `PendingAheadAlways` | pending slots are ahead of the cursor; `pop_event` never meets its `unreachable!` |
| `PrimedHeadAlways` | the packet that anchors the stream is held until playout |
| `OneEventPerSlotAlways` | one event per slot, in order |
| `RecoveredThenPlayedAlways` | a recovery's packet is the next one played |
| `StartupDelayAlways` | the startup deadline and its limits |
| `ScheduleNeverMoves` | no step moves a started schedule |
| `StreamAccountingAlways` | the counters count everything once |
| `WithinCapacityAlways` | the packet limit |

The argument is a chain of inductive invariants, each proved from those before it.
`TypeOK` comes first (it needs that the packet store and the evicted slots are
finite, for the cardinalities). `Quiet` says that nothing is logged or counted
before the first packet of a stream. `SlotInv` joins `PendingAhead` and
`PrimedHead`: neither is inductive alone, because eviction spares the anchoring
packet only if nothing lies behind the cursor, and re-anchoring keeps the order only
if the cursor's slot is held. `EventInv` adds the two invariants on the log;
`RecoveredThenPlayed` needs that the packet at the cursor is the least in the
buffer, so that evicting the last one takes it only from a buffer of one, which
cannot have more than one afterwards. `StartupInv` and `CountInv` carry the
remaining ones; the latter uses the library's theorems on finite cardinalities. The
action property follows from the definitions of the actions under the type
invariant.

The module ends with `BufferIsSchedule`: initial states map to initial
states of `PlayoutSchedule`, and under `SlotInv` each step maps to a step of it or
to none. This is `ImplementsSchedule` without its fairness.

### JitterBuffer and its sender

`JitterSenderProofs` relates what the buffer emits to what the sender put on the
wire. The theorems are about senders that

* number frame n with `first + n` and send at most half the sequence space of frames
  (`Numbered`);
* stamp frame n with `first_ts + clock[n]`, where frames are at least `FrameTicks`
  apart and `clock` stays below half the timestamp space (`Stamped`);
* are never silent between two frames (`Steady`).

This is what RTP asks of a sender; `first` and `first_ts` are arbitrary, so both
numbers may wrap anywhere. The limit of half a space is the code's own: `extend_seq`
and the signed difference of timestamps cannot tell more. For the real spaces it is
eleven minutes of 20 ms frames and twelve hours of a 48 kHz clock. The model's
network may deliver a packet after any delay, so a longer stream would contain
packets the code must take for others; the theorems limit the stream, not the delay.
The streams of the runs satisfy the hypotheses: `ContiguousSpeech` all three,
`SpeechWithSilence` the first two.

| Theorem | Property | Sender |
|---|---|---|
| `InSenderOrderAlways` | frames are played in the sender's order | `Numbered` |
| `FramesDoNotOverlapAlways` | events are stamped at least a frame apart | `Numbered`, `Stamped` |
| `NeverEarlyAlways` | no slot is emitted before its own deadline | all three |

`Numbered` frames have one slot each: there is an extended number `base` of frame 0
such that every packet, evicted slot and event of slot `base + n` is frame n's
(`FramesAt`). `base` is chosen by the first packet; the cursor never leaves the
stream by more than one, so `extend_seq` finds the slot from wherever it looks.
`TimesAt` adds that the last event, its timestamp predicted or not, is stamped no
later than the sender stamped its frame: predictions lag behind the sender's clock
after a silence, and never run ahead of it. `PredictedAt` says that they are exact
if the sender is steady. Without `Steady` the last theorem is false, which is the
violation `LateAfterDeadline`. The lemmas are about remainders by a size that is a
constant, not a number.

### VoiceSession

`VoiceSessionProofs`, for any finite set of tracks and any stream: `TypeCorrect`,
`WakeupNotLostAlways`, `PacedAlways`, `FrameDeliveredOnceAlways` and
`DeliveredInOrderAlways`. The invariant has one part for each:

* `BufferInv`, the buffer's own invariants, kept since every step of the session is
  one of the buffer or leaves it alone;
* `PlacesInv`, where the two tasks of a track can be together, and that a task holds
  a frame exactly while it delivers one;
* `PaceInv`: `next_decode_at` is at least `Recovery` after each callback of its task, and a
  task that delivers was not woken before it (`Paced` alone says nothing of the next
  callback);
* `WakeInv`, `WakeupNotLost` of the one track served: the deadline only changes by
  its own receiver, which then has a notification to make, or by its own playout
  task, which is then not waiting;
* `FrameInv`, with the finiteness of what was decoded;
* `OrderInv`, which also puts the frame in a task's hands behind what was delivered:
  the buffer's events are in slot order (`OneEventPerSlot`), and a task pops only
  after it delivered.

### AudioProcessor

`AudioProcessorProofs`, for every frame size, every set of block sizes and every
pattern of failures: `TypeCorrect`, `DelayWithinFrameAlways`, `InOrderAlways` and
`LosslessAlways`. `DelayWithinFrame` is inductive with the type invariant: as long
as the caller's block is full the carry-over plus the pending samples keep their
number, and if it is not, nothing is carried over and the pending samples are a
remainder of the frame size. `StreamInv` is for the other two: what came back, then
the carry-over, then the pending samples are one increasing sequence, and all that
was captured unless a call failed. A failed call drops a stretch of it and leaves
the rest in order.

### OutgoingAudio

`OutgoingAudioProofs`, for all codec and processor frames, blocks, and failures of
engine, codec and track: `TypeCorrect`, `ProcessorHoldsNothingAlways`,
`HeldBackWithinBlockAlways`, `WholeFramesAlways`, `SentInOrderAlways`,
`NothingLostAlways`. They stand on one invariant. `ProcessorHoldsNothing` needs that
both frames divide the block: Euclid's algorithm returns a common divisor. It is a
recursion; the proof takes, of all pairs for which it would not, one with the least
second number (a set of natural numbers has a least element, which the library
proves and which needs no induction here). `QueueInv` says that the queue is what
the microphone delivered last, `PacketInv` that the packets written, to be written
and in storage are whole frames in line, each behind the one before, all among the
samples taken off the queue; `LossInv` that none is missing between them unless
something failed. `WritingInv` ties the storage to the loop that writes it, so that
packets a failed call left are cleared before the next ones are encoded.

### SessionSetup

`SessionSetupProofs`, for all settings, not only those at the limits: `TypeCorrect`,
`FailsEarlyAlways`, `RejectedForCauseAlways`. The core is `AcceptedIsLegal`: what
the codec's checks accept (comparisons of floating frame lengths with a list) is
exactly what libopus can work with, by cases over the five rates and the list.
`BlockWhole` shows that the block of an accepted codec exists, `SanitizeRepairs` that the jitter buffer's repairs pass its own `validate`.
`PartsInv` ties encoder, decoder and buffer to the step that built them, `CallsInv`
the calls to what was built, `CauseInv` an end to its cause and to the step it came
from. The attempt showed that
`RejectedForCause` needed the clause on whole samples in `Legal` (see SessionSetup
above), in settings the run does not have.

### Replay

`ReplayProofs`, for any number of frames, any profile within the assumptions above, and
every choice of delays, losses and oversleeping: `TypeCorrect`, `StartupHeldAlways`,
`ContinuityCompleteAlways`. The invariant's parts, each checked by TLC first:

* `BufferInv`, three of the buffer's own invariants;
* `TraceInv`: the arrival of each frame of the trace is within `jitter` of its delay,
  and no row of losses is longer than `loss_run`;
* `PlaceInv` and `ClockInv`: what each program has done where it is, and how far the
  mock clock, the timeline and the arrivals can be apart;
* `StreamInv`: there is a slot `base` of frame 0 such that each frame that arrived is
  held in its slot or behind the cursor, and none was evicted (`SlotsAt`); the cursor's
  timestamp is its frame's, and the schedule is anchored no later than the
  arrival of some frame up to the cursor allows (`ScheduledAt`); as long as a delivered
  frame is still to be played, the timeline is no further than `Slack` behind the
  cursor's frame (`LagAt`); the output is every content frame from the first one played
  up to the cursor (`OutputAt`); and nothing is left when a program stops (`DoneAt`);
* `HeldInv`: the anchor of the transit measurement, and with it every frame of the
  output, is no earlier than an arrival allows.

`LagAt` carries the argument. A poll that pops nothing finds the cursor's deadline
ahead or nothing buffered. In the first case the schedule bounds the timeline; in the
second the next delivered frame, at most `loss_run` behind the cursor, which has not
arrived yet. A poll that pops moves the cursor by a
frame and the timeline by `Poll`, which is no more. Hence the packets that arrived and
are not played span less than the capacity, and none is evicted; hence, too, every
delivered frame is played before `end_ms` or `max_ticks`, which lie further than `Slack`
behind the last frame. The demonstration has no such bound, since it stops only when
nothing is pending, and its frames fit into the buffer whatever the lag.

### NeteqHandshake

`NeteqHandshakeProofs`, for any number of calls, batches and packets and any pattern
of failures: `TypeCorrect`, `BatchStartsTogetherAlways`, `WrittenOnlyWhileMeasured`.
`InStep` lists where the two ends of a call and their pipes can be together (20
combinations); an end whose Node process is gone is `Abandoned`. `BatchOrder` and
`GateHolds` say how far calls of a batch are when the batch, or its gate, is where
it is: at the gate all wait, and once one has started all of them have been
connected.

### What is only model-checked

Liveness, and so `Drains`, the fairness in `ImplementsSchedule`, `PlayoutFinishes`
and `EveryoneEnds`: the prover has no rules for fairness that would reach them.
The four violations. Every invariant and every action property of the runs is proved.

## Plan

What is left:

1. `Numbered` for streams of any length with a bound on the delay of a packet
   instead, which needs the bound in `Arrive`.
2. `AudioPipeline::reset` across both halves, composed with the session.

## Not modelled

Signal processing (Opus, echo cancellation, noise suppression, gain) and the webrtc
crate, which are numeric or external. The DTLS and SRTP records: validators
without state that nothing in the crates constructs, although dtls.rs:5-8 speaks
of knobs that are forwarded. The SDP calls of peer and session and the parsers of
the ICE and bundle policies, which forward. The getters of the Python wrappers.
The benchmarks that time single calls, the reports and the audio analysis. Mutex
poisoning (a panic under the lock) and cancellation of the spawned tasks do not
occur in the models; nothing in the code cancels them.
