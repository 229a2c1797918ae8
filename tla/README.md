# Formal model of hybrid-pqc-voice-transport

TLA+ modules, TLC configurations and TLAPS proofs about the Python package
`hpqv` (`src/src/hpqv`). Every definition is translated from that code;
`PROJECT.json` maps each one to its lines and lists the runs, the mutations of
the code that each property must catch, the hazards the properties aim at, the
disagreements found between code and documentation, and the proved theorems.

    tlc -workers 2 -config MCRotation.cfg MCCallControl.tla   # one run
    tlapm Calls_proof.tla                                     # one proof module

## 1. The system and its parts

A call has two planes. The **control plane** is one TLS 1.3 connection
(`secure.SecureChannel`) that carries `READY`, `CALL_START`, `KEY_ROTATE`,
`CALL_END` and the pairing messages in order. The **media plane** is UDP
datagrams sealed by a key ring (`keyring.Keyring`); they are lost, delayed,
duplicated and reordered, and are not ordered against the control plane. Around
these are the devices' long-lived state (identity files, paired friends), the
listener that admits connections, the LAN phonebook, a Tk window, and the
programs of the evaluation.

| Component (source) | State | Operations | Talks to | What is hard | What makes it correct |
|---|---|---|---|---|---|
| Replay window (`replay.py`) | highest number, bit mask | `check`, `accept` | called by the key ring | shifts at the mask's edge, late arrivals | decides like a window that remembers every number |
| Key ring (`keyring.py`, `packet.py`) | generation, seal and open keys, retirement times, window, both ratchet secrets | `seal`, `open_`, `rotation_ready`, `rotate_next`, `rotate_to` | sender, receiver, reader, UI threads under one lock | two-bit tag, retirement by time, peers that rotate fast | a tag names one live key; nothing accepted twice |
| Call control (`callctl.py`) | ring, stop event, early hang-up, `_end_sent`, why the call ended | `start`, `rotate_keys`, `hang_up`, `finish`, reader thread | channel, UI thread, sender and receiver loops | three threads, crossing rotations, dead and silent peers | honest rotations never abort, sides converge, both calls end |
| Secure channel (`secure.py`) | TLS object, broken and closed marks, frame buffer, media secrets | `connect`, `accept`, `send`, `recv`, `media_keys`, `close` | everything on the control plane | `READY` against a refusal, a frame cut by a timeout, close under a reader, one-time secrets | a caller that returns was accepted; calls only under pinned keys; frames whole |
| Voice path (`demo.py` loops, `impair.py`, `jitter.py`, `playout.py`) | delay line, loss model, jitter buffer, play-out clock, counters | sender loop, receiver loop, tail of `_run_call` | key ring, stop event, audio, telemetry | delay against rotation, counters that must add up, a thread that fails | in-flight datagrams survive a rotation; order; every frame and datagram accounted for |
| Call life cycle (`demo.py`, `gui.py`) | worker, poll and pairing threads, prompts, answer queues | Start, Accept, Decline, Hang up, close, pair | listener, call control, set-up with the peer | late answers, hang-up at any moment, early audio | an answer stays with its question; the window comes back; audio means an answer |
| Pairing exchange (`pairing.py`) | nonces, code, answers, deadlines | `run` on both devices | channel, trust store, user prompt | prompt thread, deadlines, half-finished endings | saved only if both users said yes; both runs end |
| Pairing window and listener (`pairing.py`, `listener.py`, `pairflow.py`, `demo.py`) | window, attempts, busy flag, slots, in-call lock | `try_begin`, `finish`, accept loop, workers, waiting loops | pairing exchange, calls | check and act across threads, pools, expiry | slots come back, one at a time, nothing saved unreported |
| Trust store (`trust.py`) | `trust.json` | `add`, `remove`, `friends` | pairing, listener, GUI, CLI | read-modify-replace, crashes | readers see a whole file; a friend stays until forgotten |
| Device identity (`identity.py`, `paths.py`) | key and certificate files | `save`, `load`, `device_identity` | every program of the user | races and failures between two files | one identity, and a finished one is never damaged |
| LAN discovery (`discovery.py`, `pairflow.py`) | table of peers heard | `observe`, `peers`, announce, `resolve` | call by name, window | expiry, the table's limit, moves, lost and late announcements | whoever is there is heard; a name means the friend's key |
| Live controls and panel (`controls.py`, `gui_network.py`, `gui_logic.py`) | knobs under a lock, sliders, presets | `set`, `get`, `snapshot`, turns, presets | sender, receiver, telemetry | widgets and knobs that set each other | every widget shows the setting in use |
| Telemetry and export (`telemetry.py`, `gui.py`) | rows, events, segments | sample, summary, export thread | window, stats | sampling during an export | rows, events and segments agree |
| Impairment proxy (`eval/udp_proxy.py`) | lane, held datagram, delay line, in-flight counter | admit, drop, duplicate, reorder, delay | sender | two threads share a counter | the counter is what waits |
| Handshake trials (`eval/full_handshake.py`, `eval/v1_handshake.py`) | two threads, cached answer, deadlines | `measure` over TCP, UDP, UDP with retries | lossy transport | retries that race late answers | a completed handshake is a success |
| Evaluation scripts, one-way helpers | results, samples | sequential measurements | files | nothing concurrent | not modelled |

## 2. Modules

Composition goes from left to right: a module EXTENDS the ones before it.

| Subject | Modules |
|---|---|
| Replay and keys | `ReplayWindow` (the class as a value) → `Keyring` (every method as an operator on a ring) → `KeyringLife` (one ring under any order of calls, clock ticks, peer rotations and datagrams). `AtMostOnce` is the abstract promise: a number is accepted at most once |
| Calls under way | `CallControl`: two call handles with three threads each over two FIFO streams, with crash, reset and silent partition. `Agreement` is ADR 0004's rotation: generations one at a time, only after a press or to follow a peer that is ahead |
| Voice | `VoiceCall`: two rings, the datagrams in the air and the rotations, with time. `VoiceReceiver`: meter, jitter buffer, play-out, sink, tail of `_run_call`, telemetry's interval loss. `Voice` composes them |
| Sending and experiments | `DelayLine`, `LossModel` (values) → `VoiceNetwork` → `VoiceSender` and `ImpairmentProxy` → `VoicePath`. `HandshakeTrial` is `full_handshake`. `Experiments` composes path and trials |
| Pairing | `Listener` (accept loop, workers, pairing window, waiting thread) and `PairingExchange` (`pairing.run` on both devices); `Pairing` composes them |
| Files and channel | `IdentityFiles` and `TrustStore` → `DeviceFiles` (the directory and the programs that share it); `SecureChannel` (both ends of one TLS connection); `Credentials` composes them |
| Window | `CallWindow` (Tk thread, worker, pairing thread, prompts) and `LivePanel` (knobs, widgets, telemetry, export); `Window` composes them |
| Reaching a friend | `LanDiscovery` → `FriendCalls` (call by name); `CallSetup` (from the handshake to the call on both sides); `Calls` composes them |
| Checking and proving | `MC*` give constants and symmetry to TLC. Each `X_proof` EXTENDS module `X` and holds the theorems about it and its parts: `Calls_proof` also those of `CallControl`; `Keyring_proof` the lemmas on rings and windows that `KeyringLife_proof` and `Voice_proof` share |

A composing module with a variable `stage`, `side`, `way` or `experiment` follows
one of its parts per behaviour. Its parts share no state while both move (files
are read before a channel is opened; the listener's `PairingSucceeds` is the end
of the exchange; the receiver asks of the ring only whether a number is new), so
interleaving their steps would show nothing that following each does not. What
one part takes from another is named in the composing module's header.

Definitions called "Mutant" in comments are wrong variants of the definition
that follows; nothing uses them except the mutation runs in `PROJECT.json`.

### How state and actions correspond to the code

* **Replay window.** The integer of bits is the set of offsets below the highest
  number. `Accept` is shift, mask and set as in `replay.py:26-36`.
* **Key ring.** `_seal`, `_open` and `_expires` are functions on generations;
  a key is the number of ratchet steps that produced its secret, so "wrong key"
  is inequality and AEAD is equality. Both directions keep their own count,
  because the code ratchets them separately. Every operator starts with the
  purge, as every method does under the lock.
* **Call control.** `main`, `ui` and `reader` are the program counters of the
  call's thread, the window's thread in `hang_up()`, and the reader. Whatever the
  code does under `_rotate_lock` is one step; `start()` and `hang_up()` take no
  lock, so their reads and writes are separate steps. `wire[p]` is what was sent
  to `p` and not read. Closing a socket with unread data can destroy what the
  peer has not read, as TCP does. `retiring` abstracts the ring's clock: it may
  fall at any moment, so the results hold for every retirement time.
* **Voice call.** One tick is one frame time. A datagram may arrive any number
  of times within `MaxDelay` ticks, or never. A rotation is processed within
  `CtlDelay` ticks.
* **Receiver.** A step is what the receiver thread does between two points where
  another thread can look: counting a datagram, measuring it, giving it to the
  jitter buffer, each play-out tick, each telemetry sample. A frame is the slot
  it is for and how it was made (received, recovered, concealed).
* **Sender and proxy.** A delay line is a bag; its condition variable is held
  across `send()`, each turn of its thread and `close()`, so each is one step; a
  turn emits some part of the line (`Parts`), whichever of it is due.
  Knobs may be turned between any two reads, so every read takes any value. A
  random draw whose probability is strictly between 0 and 1 goes either way.
* **Handshake trials.** A session is the number of the encapsulation that made
  it; the network is a bag that loses and duplicates; every wait starts with a
  look at the deadline.
* **Pairing exchange.** A commitment is the nonce it fixes; the code is the pair
  of nonces. `_decide()` is three steps that go round: look at the answer, at the
  outcome and clock, at the channel. The prompt thread writes the answer at any
  time in between.
* **Listener.** A window method that keeps its lock is one step; `finish()`
  takes it twice and is two. Looking at the window closes it when it has
  expired, as `_open_locked` does.
* **Files.** Each system call is a step. `O_EXCL` creation, writing, unlinking,
  `os.replace` are atomic; a file that is created but not written does not
  parse. A crash loses what was not synced.
* **Channel.** TLS is external: a handshake message is one unit that proves its
  sender's key, and application bytes arrive in order, cut anywhere. A frame is
  its three header bytes and payload; `recv()` is its loop over the frame
  buffer, the SSL object and the socket, and a timeout may hit between any two
  of them. Each end's keys, pins and ALPN offer are chosen from every
  combination that callers can pass.
* **Window.** The Tk thread runs one callback, or one round of the drain, per
  step; the worker one step per blocking call; each call has a queue of answers
  of its own, and prompts of attempts that gave up stay on the screen, and one
  pairing window may ask several times.
* **Panel.** A plain slider, the bitrate's, the loss model with its burst
  length, and the repair mode stand for the ten knobs; slider positions are
  tenths, and the conversions to and from knobs round as the code does.
* **Discovery.** One unit of time is one poll of the announcing loop. An entry
  is hint, address and the time it was heard; devices come, go and move.

## 3. What the runs show

Runs that pass:

| Run | Question | Instance and why it is enough |
|---|---|---|
| `keyring` (`KeyringLife`) | are tags unambiguous, does the bit window decide exactly, is no number accepted twice across keys? | window 2, numbers 0..4: jumps below, at and above the window's size; generations beyond the four tags; retirement after 2 of 3 ticks lets keys die inside a burst of rotations |
| `rotation` (`CallControl`) | can crossing or delayed rotations abort a call or leave the sides apart? | both users press up to generation 3, delay unbounded, partition at any moment: two messages are in flight each way |
| `endings` (`CallControl`) | does every call end, on both sides? | hang-up by one user at any moment, a crash of either process, a reset; one rotation in flight |
| `voice` (`Voice`) | do datagrams in flight survive every rotation under the right key? is what is played in order, is every datagram counted once, does the telemetry hide loss? | delay 1, control delay 1, retirement 3, in the order of the code's: 3 s of delay and jitter, 1 s for a rotation, keys that live for the sum, a window longer than the delay; generation 4 reuses a tag; one talker, since the directions share only generations. A stream of four slots: a gap of one is filled, a gap of two is a stall; buffers of one and two |
| `pairing` (`Pairing`) | do slots come back, do pairings and calls exclude each other, is a saved friend always reported? who is saved when deadlines, resets, crashes and failing saves hit at any step? does everything end? | 3 connections exceed 2 slots and 2 attempts; two devices with two nonces each; no symmetry, since liveness is checked |
| `credentials` (`Credentials`) | is there ever a second identity, can anyone read a damaged store, does a friend stay? does a caller return unaccepted, does a call run unpinned, do frames come whole? | 3 programs that start twice and share 3 changes, with a full disk, refused access and a crash at each step; a channel with `READY` and one more frame, cut anywhere, with a timeout or reset at any step, for every configuration of the two ends |
| `calls` (`Calls`) | does a name reach anyone but the friend, does a scan hear who is there, does audio mean an answer, does ringing end? | two other devices, two addresses, one move, one lost announcement, a table of one place, times in the proportions of the code; three frames against a drain of three |
| `window` (`Window`) | can an answer reach another question, does Hang up give the window back, do widgets, events, rows and exports agree? | two calls and two questions of pairings, of one pairing window or of two, so that what one leaves meets the next; two positions of each slider, two calls' telemetry, two turns of the knobs |
| `experiments` (`Experiments`) | is every frame accounted for on the way through the proxy, is the proxy's counter exact, does a sender with a failing socket end, is a completed handshake a success? | the number space ends after three frames and the file after one; two copies fill the proxy's queue; two trials with three HELLOs and one duplicate per transport |

Runs that show a disagreement (each is in `findings`, with the line that says
otherwise):

| Run | What happens |
|---|---|
| `lost_hang_up` | `hang_up()` tests `_stop` and then sets the early flag; `start()` can do all its work in between. `CallHandle.hang_up()` alone is then lost. The window hides it by setting the stop event itself (`UiSetsStop`) |
| `slow_control` | rotations delivered in a burst after a stall leave four live generations, one more than ADR 0004 says |
| `half_identity` | a full disk during `save()` leaves a truncated key, or a certificate without a key |

### Further disagreements and limits

Met while modelling; each is stated with the property or definition it limits.

* **Stale status line.** README.md:241-242 says that a hang-up or a dropped
  connection updates the status line. A call that ends while it still rings in
  the window, its first audio having come in the meantime, may have its end text
  drained by one poll and its `done` by the next. The first poll's `_refresh`
  then takes the audio for the beginning of the talk (`gui.py:515-517`) and
  overwrites the end text, and nothing restores it. `CallWindow!LabelTellsTheEnd` states
  the promise; TLC refutes it in a few steps with `MaxCalls = 1`,
  `MaxQuestions = 0` and specification `Spec`.
* **Torn samples.** `telemetry.py:68` reads counters one by one while the
  receiver thread changes them (`demo.py:489-497`): a sample may fall between
  `received` and what `received` implies. `LossNotHidden` therefore allows for
  one datagram that is being counted.
* **Torn knobs.** `controls.py:5-6` says that one lock guards the whole set
  because the loss model and its burst length only make sense together; the
  sender takes the lock once per knob (`demo.py:415-416`) and can see an old one
  beside a new one. The model reads each knob freely.
* **Totals of an export.** Rows are copied, the statistics object is shared, so
  totals may be ahead of the rows; `ExportAgreesWithItself` is about rows,
  segments, events and charts.
* **Early frames.** `demo.py:678` says that the port is bound before
  `CALL_START` "so the caller's first datagrams find a port". The caller sends
  without waiting for the listener, so frames may come before the port is bound
  and are lost.
* **TCP trials.** `full_handshake.py:71` gives the responder's thread 0.1 s to
  record its session; a completed handshake is counted as failed when the thread
  needs longer. `CompletedIsSuccess` excepts exactly this.
* **Slow control.** `voice` assumes that a rotation and the datagrams before it
  arrive within the retirement time (`MaxDelay + CtlDelay < RetireAfter`), and
  so do the theorems about the two rings. With slower control datagrams in
  flight are lost.
* **Silent death.** `DeadPeerEndsCall` is checked where the network works. With
  `"partition"` in `Faults` it fails: a peer that dies together with its network
  is never noticed, because the channel has neither keep-alive nor periodic
  messages.
* **Lost update.** `add` and `remove` read and replace the trust store without
  a lock, so two overlapping changes can lose one; `PairedStays` is about changes
  that do not overlap.
* **After a mismatch** `finish()` frees the window before it closes it
  (`pairing.py:125`); another attempt may begin in between.
* **Refused key file.** `save()` takes every `PermissionError` for a failure of
  its own write and unlinks the key that is there (`identity.py:122-127`). When
  the refusal comes from opening the file (`identity.py:51`), that key may
  belong to another program. `CreateKeyRefused` is that step.
  `CompleteIdentityStays` does not hold with it, so theorem `CompleteIsFinal`
  supposes that no creation is refused; `OneIdentity` is checked and proved with
  it.
* **Frames still under way** when the call starts, up to 3 s of them in the
  caller's delay line, arrive after the drain and are played.
  `StaleAudioIsGone` is about those that had arrived.
* **A full table.** A device that the table of peers has no room for is not
  found, and nothing reports it. `ScanHearsWhoIsThere` is about devices that got
  a place.
* **Threads and dialogs.** A `Thread.start()` that fails in the listener
  (`listener.py:77`), after the slot was taken, is not modelled. The error box
  of a failed export stops the drain until the user dismisses it;
  `HangUpFreesTheWindow` supposes that the user does.
* **CONFIRM = 0** stands for a declined code and for a user who did not answer
  in time; the other side reports both as declined.

### Bounds

`MaxSeq` ends the number space (the code raises at 2^48; in `VoiceSender` the
bound is that limit). `MaxGen` is where users stop pressing rotate, `MaxTime`
ends the clocks, `MaxRuns`, `MaxWrites` and `MaxSends` end restarts, changes and
messages, `MaxCalls`, `MaxQuestions`, `MaxTurns`, `MaxRows`, `MaxLives` and
`MaxSamples` what a user and the telemetry do, `MaxFrames`, `MaxRead`,
`FileFrames`, `Slots` and `MaxRejects` the traffic, `MaxMoves` and `MaxLost` what the LAN does,
`MaxHellos`, `MaxDups` and `Attempts` the trials. Each is a conjunct of an action
and named where it is declared. `MaxHandshakes`, `MaxAttempts`, `MaxPeers`,
`QueueMax`, `MaxGap`, `DrainLimit`, `Depths` and the retirement and announcement
times are the code's own limits, made small. Threads, connections, devices,
programs and friends are counted by the sizes of the constant sets.

### Fairness

Weak fairness of a thread says that the operating system schedules it. It is
assumed only of code that never waits without a bound, and never of users,
crashes, resets, losses or anything else the environment may leave undone.

* `CallControl!FairSpec`: the call's thread, the UI thread and the reader
  (`recv` polls with 0.2 s, joins are bounded). Applying a message has strong
  fairness: the reader alternates between polling and receiving, and TCP
  delivers what was sent while the connection lives.
* `Pairing!PFairness`: the accept loop, each worker and the waiting thread; the
  clock of the window runs out. The protocol threads of the exchange run and
  their deadlines pass; no user has to answer.
* `Window!WFairness`: the Tk loop polls every 200 ms; steps of the worker that
  are bounded by a timeout are taken. Waiting for a peer to connect or to speak
  is not among them; a hang-up is what ends those.
* `Calls!CFairness`: once the set-up has begun, both programs go on with what
  needs nobody's help, and the listener's 30 s for an answer run out.
* `Experiments!EFairness`: the sender's tail, the delay lines' threads and the
  proxy's lane; in a trial, time passes and a thread with something to do does it.

## 4. What is proved

Every invariant and every step property that a passing run checks is also a
theorem, checked by TLAPS for every value of the constants that satisfies the
named assumptions of the modules: sizes and limits positive where the code
divides by or counts down from them, sets finite where they are counted, `0` and
the model's own markers outside the sets of data. Some theorems need more,
and name it as a hypothesis: `Timely` for three of those about the two rings,
`ScanOutlastsAGap` for the scan, and that no creation of a file is refused for
`CompleteIsFinal`. What remains with TLC alone is listed at the end.

A theorem about a component is stated of its own specification. `VoiceIsBoth`,
`PairingIsBoth` and `CredentialsIsBoth` carry it to the composed specification
that the runs use: a behaviour of the whole is one of each part. The theorems on
the way to a friend, the window and the experiments are stated of the composed
specification directly.

### Keys and voice

* **One ring** (`KeyringLife_proof`). `IInv` adds to the types that the window
  mirrors the history (the offsets are exactly the accepted numbers within the
  window of the highest one), that live generations lie within four of the
  current one, and that secrets and keys are as old as the generation. From it:
  `WindowIsExact`, `ReplaysAreRejected`, `RingImplementsAtMostOnce` (each step
  is one of `AtMostOnce` or a stutter), `TagsAreUnambiguous` (this is why
  `_advance` evicts four back, and needs no assumption on time),
  `OldKeysHaveExpiry`, `KeysFollowGenerations`. `WindowExact` alone is not
  inductive: it says nothing of the numbers that matter only after a shift.
* **Two rings** (`Voice_proof`). `VoiceCallTypes`, whatever the delays: both
  rings stay rings, and every older key has a retirement time, at most
  `RetireAfter` away (`TInv`). `NothingInFlightIsLost`, `NoWrongKeyAttempt` and
  `ThreeGenerationsLive`, under `Timely`:
  `MaxDelay + CtlDelay < RetireAfter` and `MaxDelay < WindowSize`. In the code
  `RETIRE_AFTER` is by its definition the largest delay and jitter the controls
  allow, 3 s, and one more second for a rotation (`keyring.py:20-22`), and the
  window's 256 frames of 20 ms are 5 s; what the network adds to the delay and
  to a rotation has to stay within those margins.
  Run `slow_control` shows what happens without the first. The invariant `RInv`
  relates each ring to the other and to what is between them. One that is behind
  is behind by one, its rotation is on the wire, and it will arrive while the
  sender still has the old key (`Announced`). A ring enters a generation no
  earlier than the other has let go of what the step evicts (`Follows`): the
  next rotation waits until no older generation is alive. A datagram of a
  generation its receiver has left arrives before that key is given up, and is
  in the window's history exactly if it was accepted (`InFlight`, `AirInTime`).
  `InFlightSurvives` looks at one ring and one datagram, so it needs all of this.
* **The receiver** (`Voice_proof`): `AlwaysPlayedInOrder`, `ReceiverAccounts`,
  `LossIsShown`, `ReceiverTypes`, for any stream, buffer depth, gap and number
  of samples. `OrderOK` bounds what was played by what the buffer will play
  next, `InHand` says that whatever is buffered or being handled has arrived
  once, and `LossAccount` follows the difference between what the statistics
  expected and what they saw from one sample to the next, through the states in
  which the thread is half-way in its counting.
* **Sender, proxy and trials** (`Experiments_proof`): `FramesAccounted`,
  `InflightHeldOrDelayed`, `CompletedCountsAsSuccess`, `VoicePathTypes`. The
  first two count bags; the lemmas give what adding, removing and splitting does
  to how many a finite bag holds. For the trials (`TrialInv`): there is one
  session in a trial, so an ACCEPT under way, and whatever the initiator
  finished with, is the one the responder remembers, however many HELLOs were
  repeated.

### The control plane

* **Rotations** (`Calls_proof`). `HonestPeersStayInSequence` and `RingsConverge`
  rest on `WireInSequence`: what is on the wire to a peer, read in order, never
  skips a generation, and nothing on the wire is ahead of its sender. Neither
  property is inductive without it, since both look at the receiver only.
  `CallImplementsAgreement` is the refinement of `Agreement`.
* **Reaching a friend** (`Calls_proof`). `ByNameOnlyTheFriend`: the pins are the
  named friend's from the look-up to the connection (`WayInv`), so a stale
  address does not matter. `ScanIsLongEnough` has the
  hypothesis `ScanOutlastsAGap`: `AnnounceEvery + MaxDelay + 2` is at most
  `ScanTime` and less than `ExpireAfter`. In the code an announcement is due
  every 2 s, a scan takes 4 s and an entry lives 6 s. `ScanInv` says of every
  device present how long ago it was heard, or how soon it will be.
  `LiveMeansAccepted`: everything that can reach the caller from the listener
  comes from beyond the prompt (`AnsweredInv`). `RingingIsNotPlayed`: a frame
  that had arrived when the call started cannot arrive again, and the drain takes
  all that waits (`SocketInv`).
* **The listener** (`Pairing_proof`). `SlotsComeBack`, `OnePairingOneCall`,
  `NobodySavedInSecret`, for any number of connections, slots and attempts. The
  invariant says that the busy flag and the in-call lock each stand for exactly
  one worker (`BusyMeansOne`, `InCallMeansOne`), and that an attempt which has
  saved still holds the window or has set the event, while the waiting thread
  closes the window before it asks whether it is held (`WindowIsFirst`). Without
  the last part `NothingSavedUnreported` is not inductive.
* **The exchange** (`Pairing_proof`). `SavedByBoth`, `OneCode`,
  `OneSidedExplained`, for any nonces and every interruption. The invariant
  describes what each side can still find on the channel at each point of its
  run (`ToResponder`, `ToInitiator`), how far the two runs can be apart
  (`Turn`), what each knows of the other's nonces (`Views`), and what each
  decision and each end goes back to (`Says`): a CONFIRM under way is its
  sender's yes or the end of its run.
* **Files** (`Credentials_proof`). `NobodyUsesAnother`, `CompleteIsFinal`,
  `StoreIsWhole`, `FriendsStay`, for any number of programs, starts and friends.
  As long as no creation is refused, who is saving is the only owner of the key
  file (`KeyHasOwner`) and has not written its certificate (`CertOfOwner`), so
  cleaning up never takes a complete identity apart; with or without refusals, a certificate, once there, names the one identity
  that can be loaded (`CertDecides`).
* **The channel** (`Credentials_proof`). `CallerWasAccepted` and
  `OnlyPinnedPeersCall`, for any payloads and number of messages: nothing that
  the client could take for `READY` is on the wire before the server is done
  (`ReadyIsLast`), each end that got far enough has checked the other
  (`Checked`), and keys exist only on a call channel that is up, until they are
  taken (`KeysOnce`). `FramesComeWhole`, for any payloads and any cuts: `FInv`
  says that the frames a side has read, the bytes in its buffer and the bytes
  under way, put together, are the bytes of the frames its peer has sent, the
  last of them possibly torn (`Carries`, `Streams`, with `READY` accounted for
  by `Greetings`). That the frames read from a stream are those written to it
  is the lemma that a stream of bytes has one reading as frames.

### The window

All in `Window_proof`.

* `AnswersKeepTheirQuestion`, `WindowTypes`: the queue of events holds no prompt
  but the latest call's and nothing behind its `done` (`QueueInv`), the prompt on
  the screen answers the queue of the call it shows, and every yes in a queue, or
  gone further, was said to the prompt of that call (`AnswerInv`); the same for
  the questions of pairings (`PairInv`).
* `WidgetsTellTheTruth`: a widget and its knob set each other, and the knob set
  from a slider puts the slider back where it was, in spite of rounding both
  ways (`SliderOfKnob`).
* `EventsTellTheRows`: what is noted between two samples tells their difference
  (`Tells`), and the settings at the start with the events up to a row replayed
  on them are that row (`Replay`).
* `ExportsAgree`: the segments of an export partition its rows in order, cut
  exactly where the knobs changed (`Parted`), and every event points to an
  exported row (`Exports`), whatever was sampled while the export ran.

### How induction over data is done

The library's induction theorems take an operator as a parameter and cannot be
instantiated with the installed provers. Where a proof needs induction over a
sequence, a number or a set, it takes the set of counterexamples, of sizes or
positions, and the smallest member of it (`LeastNat`, from the
well-foundedness of the natural numbers), and refutes that one. Recursive
definitions are recursive functions, so that their value follows from their
domain; no module uses `RECURSIVE`.

### Model-checked only

* All liveness: `HangUpEndsBoth`, `DeadPeerEndsCall`, `AllowPairingReturns`,
  `RunsEnd`, `RingingEnds`, `HangUpFreesTheWindow`, `SenderEnds`. It needs
  fairness and `ENABLED`, which are outside the prover's reach.
* The type invariants of `HandshakeTrial`, `LanDiscovery` and `FriendCalls`,
  `CallSetup`, `LivePanel` and `TrustStore` as they are stated. Their parts that
  a proof needs are in its inductive invariant; TLC finds no violation of them
  when they are added to the `INVARIANTS` of the run of their module.
* What the runs that expect a violation show.

## 5. What is not modelled

* **Cryptography, codec, audio devices, syntax.** Keys and codes are compared for
  equality; certificates, JSON and announcements are whole or damaged, theirs or
  not.
* **Drawing, layout and text** of the window. Conversions between sliders and
  knobs, and every callback that changes state, are modelled.
* **Statistics of telemetry** beyond interval loss, rows, events and segments:
  means, MOS estimates and charts' contents are floating-point arithmetic.
* **Evaluation scripts** other than the proxy and the handshake trials
  (baselines, capture, FEC recovery, graphs, netem, profiles, runner, live
  scenarios): sequential measurement programs and closed formulas that keep no
  protocol state.
* **One-way helpers** (`call.py`, `udp.py`, `audio.py`): sequential wrappers over
  a key ring, sockets and devices.
* **Command-line parsing and console output.**

Worth doing next: an abstract specification of mutual approval that
`PairingExchange` refines; a reliable ordered stream of frames that
`SecureChannel` refines; one run in which the listener of `Listener` and two
exchanges of `PairingExchange` share a device.
