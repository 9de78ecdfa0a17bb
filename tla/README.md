# TLA+ models of the JZF407 firmware

The firmware (Rust, Embassy, STM32F407) switches a relay and two LEDs over MQTT,
keeps its LED state and its network configuration in an AT24C02 EEPROM, and serves a
password-protected dashboard from a pool of two HTTP sockets. One cooperative
executor runs all tasks, so code between two awaits is atomic and everything else
interleaves: tasks, timers, the network, resets and power cuts.

`PROJECT.json` maps every definition to the lines it models, and lists runs, mutants,
findings, hazards and theorems.

## Inventory

| component | state | operations | interacts with | what makes it correct |
|---|---|---|---|---|
| relay task, `outputs.rs` | pin, pulse timer | pulse, retrigger, off, expiry | signals `RELAY_TRIGGER` (in), `RELAY_CHANGE` (out) | a retriggerable monostable: neither too long nor cut early |
| MQTT task, `mqtt.rs`, `led_dispatch.rs` | `MQTT_ONLINE`, the connection | connect, announce, subscribe, dispatch, report, reboot | relay task, LED record, broker | a command runs at most once, echoes die out, status is true |
| EEPROM and LED record, `eeprom.rs`, `persistence.rs` | 256 bytes, mutex, `STATE_CACHE` | byte-wise write, load, save | MQTT task, boot | the cache is the chip, a torn record is old or new |
| configuration, `config.rs`, `logic/config.rs` | image at 16 | encode, decode, save, load | `/save`, boot | whatever the chip holds, the board boots; a saved image lasts |
| forms and page, `web.rs`, `logic/web_form.rs` | - | render, url-decode, validate, keep secrets | browsers, `/save` | what is stored is what the user typed, a valid form is not refused |
| token, `logic/auth.rs` | - | `base64(user:pass)` | login | only the stored credentials match |
| session, `web.rs` | token, time, failure count | login, validate, lock out, log out | dashboard script | an abandoned session ends, guessing is slowed |
| socket pool, `web.rs`, `sse.rs` | two sockets, the last snapshot of each stream | accept, answer, sample, push, keep alive, recycle | browsers, relay, LEDs, link, MQTT | a request is served while a socket is left, a live stream shows the state |
| reset reasons, `fault_marker.rs`, `watchdog.rs` | reset flags, marker word, watchdog | read and clear, mark, reboot, pet | boot, MQTT and web handlers | the published reason is true, a wedge ends |
| boot, `main.rs` | the I2C lines | recover the bus, load, restore, arm | all | the EEPROM is free before the first read |

Hard to test here: the order of an own MQTT report and the next command; a reset
between two bytes; a byte that fails after others are written; a session that two
tasks and a page script change; a form that arrives in two segments, or from a page
that is older than the configuration; a state that changes while an event is being
flushed; a peer that vanishes without a word; several resets before the first is
explained, and one that leaves the EEPROM in the middle of a byte. `PROJECT.json`,
"hazards", gives each its line.

### Not modelled

- The buttons and the debouncer: `buttons_task` is never spawned and nothing else
  calls the debouncer, so the firmware has no behaviour of theirs.
- The network runner (a loop around `embassy-net`) and the heartbeat LED: no state.
- Clock, Ethernet and pin set-up in `main.rs`: register writes whose outcome is in
  no variable of the program.
- Decimal notation, HTML layout and wording; UTF-8 beyond two bytes.
- The code of a SUBACK, which `subscribe_all` does not read, and a relay report that is
  taken from its signal and then fails to be published: the model loses it as the
  code does, and no document promises otherwise.
- An answer to `/state` that reaches the page after newer events of its stream: the
  page applies it, and the next event corrects it.

## Modules

**Relay** is `relay_task`. The unit of interleaving is one poll; `Wake`, `Retrigger`,
`Cancel` and `Expire` are what a poll can do. `select` polls the timer first, so an
expired timer wins over a waiting command, which the outer wait then takes in the
same poll (`Expire` with a waiting pulse opens the next window at once). Time is in
ticks; a ready task is polled within `MaxLag` ticks. `since` is a history variable.
**Monostable** says what the relay promises without task, timer or signals; `Relay`
refines it with `on <- pin = "high"`, `req <- trigger`, `elapsed <- since`.

**Mqtt** instantiates Relay and adds `mqtt_task`, a broker and a link. `mpc` is the
await at which the task is suspended. The broker is external: FIFO per connection,
live messages without the retain flag, stored ones replayed with it at a
subscription, a will for a session that it loses, published at the latest when the
same client id connects again. `GiveUp` is a connect that fails although the broker
may already have accepted it. The six SUBSCRIBE packets, with an await each, are one
step: no property depends on what is granted between two of them. The device has one
fixed, non-empty client id; a `/save` that changes or empties it, after which the will of
the old id may come late, is outside this model, and so outside `StatusConverges`. All three LED topics are one topic here (`Storage` has
them apart); heartbeat, PINGREQ and diag change no modelled state.

**ConfigCodec** is `to_bytes`/`from_bytes` with the field order of the source;
the widths of an address, the client id and a credential are constants (4, 24, 32 in
the code). UTF-8 is modelled for one- and two-byte characters, enough for a
character to be torn.

**Storage** extends it with the chip, the mutex, `save_field`, `save_config`, the
`/save` handler and boot. `WriteByte` is one transaction, `WriteError` a failed one;
`Reset` may come at any state, `Boot` includes the two loads, either of which may
fail. `torn` is a history variable: a LED save failed behind its first byte, or a boot
could not read the record, and no save or boot has succeeded since. The LED record is at 0..7, the image at 16. **Register** says what the stored
configuration promises without bytes, mutex and tasks; `Storage` refines it with
`val <- acked`, `running <- cfg` and, as the pending value, the form of the web task that
holds the mutex. A value takes effect at `ConfigSaved`, not at its last byte, and once a
write has begun the old value is no longer promised: the code keeps no second copy.

**WebForm** holds the functions between the page and a `NetworkConfig`: what
`send_page` puts into the inputs, what a browser makes of them, `form_url_decode`,
`parse_form`, `secret_from_form`, and `basic_token` with its bounded buffers. A text is
a sequence of bytes, so that escapes, capacities and torn characters are there;
numbers are numbers. Loops over a text are written by position: `Arrivals` are the
positions at which the loop of `form_url_decode` arrives, and the k-th decoded byte is
the one at the k-th of them; `Start` is where the code of a byte begins. `CutBodies` are the bodies that a read which ends too early can
return.

**ConfigUpdate** composes it with Storage: log in, open a page, submit the form of any
page opened so far, parse, write, reboot, log in again. Its actions are those of
Storage with the parsed form in place of a chosen configuration (`Configs` is empty
here). `meant` and `goal` remember what the user asked for.

**Session** is `validate_session`, the login handler and the page script. A request
reads and writes the session without an await, so it is one action; a rejected login
parks its task for the response delay. Each page runs its timer once per second:
poll, skip the poll while the stream is up, or log out. Login is required.

**WebPool** is the pool with its streams. A stream samples the device (`dev`), compares
with what it sent last, writes and waits in `flush()`; the state may change meanwhile.
There is no backlog: a request that meets no listening socket is answered with a reset
and lost (`RefuseRequest`), as Session has it for polls and the logout; a refused stream
is tried again 3 s later by the page. `told` is what the tab has got, and `StreamInSync` says that a stream never takes for known
what its tab was not told.

**FaultMarker** is the reset flags, the marker and the watchdog; **BusRecovery** extends
it with the recovery of the I2C bus and the AT24C02 as a state machine on SCL and SDA
(external, after its data sheet): a reset from outside leaves the chip anywhere in a
transaction, own reboots come between two. A panic is a software reset here: the
handler of `panic-persist` stores its message and resets at once. `MC*.tla` hold model values and inputs for
TLC, `*Proofs.tla` the theorems (FormProofs is about the operators of WebForm,
UpdateProofs about ConfigUpdate).

Operators commented "Mutant of ..." change one mapped definition as a plausible slip
would; they are used by nothing but the mutation check, which shows that every
property can fail.

## Runs

| run | configuration | shows |
|---|---|---|
| `relay` | pulse 4 ticks, latency 2 | `PulseBounded`, `NoEarlyDrop`, refinement of Monostable, `ComesToRest`, and the inductive invariant `IInv` |
| `mqtt` | 2 user messages of every kind, retained or not, 2 losses, any number of failed connects | `EchoAccounting`, `AtMostOnce`, `OnlineTruthful`; `DeadLinkNoticed`, `EchoesDieOut`, `StatusConverges` |
| `storage` | 2 web tasks, 2 configurations, 2 LED commands, 2 saves, 1 reset besides reboots, 1 error, a chip that has held a LED record | `CacheCoherent`, `LedInv`, `LedsOldOrNew`, `RestoredWasCommanded`, `BootConfigUsable`, `SavedDurable`, refinement of Register |
| `config_update` | 2 web tasks, 2 saves from old or new pages, 3 ways to fill in the form, 1 LED command, 1 error, 1 cut request | `SavedAsTyped`, `ValidFormsAccepted`, `LoginExact`, `SavesFinish` |
| `session` | 2 browsers, 2 tasks, TTL 3 s, lockout 3 s after 2 failures, 3 rejects, 5 s | `NotKeptAlive`, `RateLimited`, `LockedByFailures`, `Superseded` |
| `web_pool` | 2 sockets, 2 tabs, 2 device states | `StreamInSync`, `RequestsServed`, `ClosedStreamEnds`, `LiveView` |
| `boot` | bytes of 4 bits, otherwise no bounds | `ReasonTrue`, `WedgeEnds`, `BusFreed`, `NinePulses` |

Five runs are expected to fail; each checks one statement of the documentation or of
a comment that the code does not keep ("findings" quotes them):

| run | what happens |
|---|---|
| `mqtt_echo` | the own report `0` of one pulse comes back and cuts the next pulse short |
| `split_request` | a request read in part is acknowledged, and the typed address is not stored |
| `session_active` | with the event stream up, an active user is logged out by the TTL |
| `dead_peer` | a stream to a vanished host keeps its socket for ever |
| `bus_stuck` | bytes of 8 bits: the bus recovery stops its clock one bit too early, and the EEPROM still holds SDA when the first read begins |

Limits of the results that pass:

- `RestoredWasCommanded` needs `Formatted = TRUE`: on a chip from the factory a reset
  inside the first LED save, behind the magic, leaves 0xFF bytes that load as lit LEDs.
- `BootConfigUsable` says that the board boots. After a `/save` that was answered with
  500 ("config NOT saved") the image may still be a mix of the old and the new one.
- `SavedAsTyped` takes the inputs of a page as what its user wants, so a page from
  before another save may put the old values back.
- `LoginExact` is about what the device accepts. Both inputs of the login form are
  `required`, so a name stored without a password, or a password that stays when the
  name is cleared (a blank password means "keep"), cannot be entered in a browser. The
  README's "you can never permanently lock yourself out via config" does not cover it.
- `LoginExact` has one exception. `basic_token` ignores a failed `extend_from_slice`, so a
  password that does not fit behind the name is dropped: stored credentials that end in
  a colon (the name alone, or a password whose last character is one) are also matched by
  a name that holds all of them but that colon, with any password that is too long.
- `Superseded` excepts two logins in one second, which get the same token.
- `BusFreed` is about the states that `Freeable` names. In the others the STOP falls into
  a bit that the chip holds low, since the loop leaves at the first high SDA: the last
  bit of a byte that the chip takes, or a 1 that the chip sends in front of a 0. The run
  `bus_stuck` shows the first of them.
- `RequestsServed` is about a tab that asks again and again while the other tabs are
  quiet and streams leave a socket over. A single request may be refused, and with a
  stream up two tabs that ask at the same time can be refused as often as they are unlucky.
- `CacheCoherent` (also within `LedInv`) and `LedsOldOrNew` say nothing while `torn` holds. After a LED save
  that failed half-way a command back to the cached state is skipped, and the next boot
  restores what the failed save has written; the README says of the LEDs "their state is
  persisted to EEPROM and restored on boot" (`src/README.md:608`).
- `ReasonTrue` reports a panic as `software`. The README has "Firmware wedged
  (panic/deadlock)" end "after ~20 s" as `iwdg_timeout` (`src/README.md:606`), which is true
  of the deadlock only.
- `WedgeEnds` starts where the watchdog is armed. A blocking EEPROM read of `main` that
  hangs on a stuck bus comes before that, and nothing ends it.

**Bounds.** Two commands are enough for a command to meet the trace of the one before
it (echo, retained copy, half-written record); two losses for a replay after a replay
and for a will of a session that was itself a reconnect. One reset and one error
reach every byte of every write, and the reboot after a save comes on top. The codec
runs with one-byte addresses, a two-byte id and one-byte credentials: every field is
there, fields of one byte cannot be torn inside, so port and id, which can be
rejected when torn, have two. The two configurations differ in every field; a torn
port of theirs is 0. The browsers, and the web tasks, are interchangeable, which `Symmetry` uses in the runs
that check no liveness. Five seconds outlast TTL and lockout, and three rejects reach
the lockout and one failure behind it. TTL, lockout and activity span keep the order that 900, 60 and
30 s have with respect to the one-second page timer, not their ratio. `MaxLag = 0` and
a pulse of one tick in `mqtt` suffice because latency is the subject of `relay`.
In `config_update` the capacities of the decoder, the escaped attribute and the token
are scaled with the fields (64, 256 and 96 over fields of 24 and 32 in the code; 3, 12
and 5 over fields of 2 and 1) and keep what `FormAssumption` says of the code's: a text that fits its
field fits the decoder and, escaped, the attribute, and the token of stored credentials
is shorter than the buffer, while what can be typed into the login form can overflow it; the three fillings hold a character of each kind that is escaped
somewhere, a character of two bytes, cleared inputs and values beyond the limits. A cut
falls into the first pair (every later field is missing) or into the ninth (most are
there). Two saves are enough for one from a page that the other has made stale, and for
two tasks in the mutex. Four bits of a byte in `boot` give a first, a last and middle
bits, and the loop its one pulse more than a byte; eight bits are beyond TLC's reach
together with all orders of resets (the violation in `bus_stuck` comes early).

In `storage`, dropping the prefix check of `from_bytes` alone breaks nothing:
the id behind it is still 0xFF on a chip that was blank, and is not UTF-8. The check
on the port is needed, as its mutant shows.

**Fairness.** Weak fairness on the steps of a task says that the executor polls a
ready task; on `Tick`, that time passes; on `BrokerStep`, that the broker answers.
A mutex of embassy-sync wakes its waiters, so weak fairness on each task's step is
assumed for `Lock` (strong fairness is not needed: a holder always ends). In `boot` weak fairness says that main
goes on while it is not wedged, and that the armed watchdog counts down. In WebPool weak
fairness says that a web task goes on and that a SYN on its way arrives, to be accepted
or refused; nothing is assumed of the moment, nor of whether a socket listens then.
Nothing is assumed of users, tabs, losses or successful connects.
Deadlock is checked in every run.

## Proofs

Every temporal theorem is about `Spec` of its module (`BusSpec` in BusRecovery, `UpdateSpec` in
ConfigUpdate) with all its CONSTANTS free: any number of
tasks, sockets, browsers and tabs, any lengths, spans and widths, any number of losses,
resets, errors and commands. A run shows the same property on the small instance.

| module | theorem | states |
|---|---|---|
| RelayProofs | `RelayInvariant`, `RelayTypeOK`, `RelayPulseBounded`, `RelayNoEarlyDrop` | `IInv`, `TypeOK`, `PulseBounded` and the action property `NoEarlyDrop` |
| | `RelayImplementsMonostable` | Relay refines Monostable (safety) |
| MqttProofs | `MqttEchoAccounting` | own reports never outnumber executed pulses |
| | `MqttTypeOK`, `OnlineIsTrue`, `ExecutedAtMostOnce` | `TypeOK`, `OnlineTruthful`, `AtMostOnce` |
| | `MqttPulseBounded` | the relay's bound holds with `mqtt_task` behind it |
| StorageProofs | `StorageLedInvariant`, `StorageCacheCoherent` | the cache is what the chip holds, unless `torn` |
| | `TornRecordOldOrNew`, `LitOnlyIfCommanded` | `LedsOldOrNew`; `RestoredWasCommanded` on a formatted chip |
| | `RoundTrip` | `FromBytes(ToBytes(c)) = c` |
| | `StorageTypeOK`, `FirmwareBoots`, `AckedIsStored` | `TypeOK`, `BootConfigUsable`, `SavedDurable` |
| | `StorageImplementsRegister` | the configuration in Storage refines Register (safety) |
| FormProofs | `DecodeEncode` | decoding what a browser encoded gives the text back |
| | `Base64Injective`, `TokenExact` | equal tokens are equal credentials; exactly when a login matches |
| UpdateProofs | `TypedIsSaved`, `NoValidFormRefused`, `LoginIsExact` | `SavedAsTyped`, `ValidFormsAccepted`, `LoginExact` |
| | `RecordsBehindParser` | `CacheCoherent`, `SavedDurable` and `BootConfigUsable` with the form parser in front of `/save` |
| SessionProofs | `SessionTypeOK`, `LoginSupersedes`, `AbandonedTabExpires`, `LoginsRateLimited`, `LockoutJustified` | `TypeOK`, `Superseded`, `NotKeptAlive`, `RateLimited`, `LockedByFailures` |
| WebPoolProofs | `PoolInvariant`, `PoolTypeOK`, `StreamsInSync` | `SyncInv`, `TypeOK`, `StreamInSync` |
| BusRecoveryProofs | `BootTypeOK`, `ReasonIsTrue`, `RecoveryFreesBus`, `NinePulsesSuffice` | `TypeOK`, `ReasonTrue`, `BusFreed`, `NinePulses` |

*Relay.* `PulseBounded` is not inductive: nothing in it says that the timer of an open
window and the age of the last command belong together. `IInv` bounds the age from
above by elapsed window plus latency (longer only while the expired task waits), from
below by the elapsed window when no command waits, and the age of a waiting pulse by
the latency counter. Assumption: a pulse has at least one tick.

*Mqtt.* `EchoAccounting` becomes inductive with the types of what it counts: each
unit of the sum (report, raised signal, open window, waiting pulse) turns into at most
one other, and only an executed pulse adds one.

*Mqtt, delivery.* `OnlineTruthful` says nothing of the time before MQTT_ONLINE is set.
`LinkInv` follows the connection from its first packet: in the handshake either the
CONNECT is the only packet up and none comes down, or it was taken and the CONNACK is
the only one coming down; after it the session is live, no second CONNECT is under way,
and in the loop the subscription was granted or is on its way. `AtMostOnce` compares
two counters; `AccountInv` adds what lies between them: the packets in flight that
`handle_event` would execute, counted as the cardinality of their positions, and for an
Off the reports on their way up or about to be sent. A replay adds nothing to the count
since a retained packet executes nothing. For the relay inside Mqtt the proof of
`IInv` is done once more over the composed steps, a reboot included.

*Storage, LEDs.* `CacheCoherent` says nothing during a write, so it cannot show that
the record is right when the write ends. `LedInv` adds that the bytes up to the current
one agree with the record being written (`LedPrefix`). Bytes of a configuration go to
16 and beyond and, because the image fits the chip, do not wrap into the record
(`WriteConfigByte`); a reset abandons the write and reloads the cache (`BootLedInv`);
a complete record loads as the state it was made from (`WholeRecord`), also behind a
failed one, so that a save which succeeds ends `torn`. The mutex is
not needed for this result, only the layout. `LitInv` carries `RestoredWasCommanded`
through a torn or failed write: once the magic is on the chip it stays there, and a LED
bit that is set on the chip, in the cache, on the pins or in the record about to be
written is one that somebody lit. `LitOnlyIfCommanded`
has the hypothesis `Formatted`: on a chip from the factory it is false, as said above.

*Storage, configuration.* `RoundTrip` is the codec's own theorem. Each part of
`ToBytes` is found at the offset at which `FromBytes` looks (`PartPlaced`,
`ToBytesLayout`), and a slot up to its first NUL is the string that was padded into it
(`SlotRoundTrip`). `SavedDurable` then needs mutual exclusion: `ConfigInv` says that the
task that writes is the one that holds the mutex, that the image of its form is on the
chip up to its current byte, and that an acknowledged image stays whole while no web
task is the owner. `BootConfigUsable` needs none of it: `StoredConfigValid` shows that
every content of the chip loads as a configuration that works. The refinement of
Register follows step by step from the same invariant and `Submitted`, that a form
behind the mutex is one that a user sent: the mutex makes `Lock` a `Begin` with nothing
pending, a form changes only while its task is idle, and at a `Boot` the acknowledged
image loads as what was acknowledged. The steps are those of
`Move`, which asks of a saved configuration only that it is `Valid`, so that the same
lemmas serve ConfigUpdate. Assumptions: an address has at most the four bytes of the
default one, the image fits (`16 + ImageLen <= 256`), the MQTT task is no web task, a
submitted configuration is what `parse_form` can build (`NetworkConfig`), and none of its
strings holds a NUL, which `form_url_decode` refuses.

*Form.* A text is decoded in one pass whose position depends on all that came before.
Without induction over texts the argument goes by position: the codes of two bytes do
not overlap and follow each other without a gap (`StartNext`, `StartMonotone`,
`StartsApart`), every position lies in exactly one of them (`CodeOf`), so the decoder
arrives at their beginnings and nowhere else (`UrlEncodeArrivals`), the k-th arrival is
the beginning of the k-th code (`StartsCount`), and one code decodes to its byte
(`EncodedByte`, `DigitValue`). Where an induction is needed it is a least
counterexample (`Least`, from the well-foundedness of finite sets). `Base64Injective`
recovers each chunk of three bytes from its four sextets, the padding from the length.
`TokenExact` follows the typed pair through both decoders into the bounded buffers: the
stored token is never cut, and a cut one is longer than it. Assumption
(`FormAssumption`, true of 24, 32, 64, 256 and 96): see "Bounds".

*Update.* `UpdateInv` joins `LedInv` and `ConfigInv` with what links a request to the chip:
pages show configurations that work (`PagesInv`), a web task that waits for the mutex or
writes has parsed what the user of its complete request meant (`MeantInv`), and what was
acknowledged last is what the last request meant (`GoalInv`). The step that
carries it is `/save`: `BodyWish` shows that `parse_form` makes of a complete body exactly
what was wished for (every field has one pair, decoding undoes encoding, no text that
fits its slot is lost in the page, a blank secret keeps the stored one), `BodyAccepted`
that no valid body is refused, and `ParseFormValid` with `CutTyped` that any body it accepts,
cut ones included, is a configuration that works. Hence every step is a `Move` of Storage
(`UpdateMoves`), and `ConfigsAssumption` and `NoNulAssumption` of Storage need not be assumed
of what users send. Assumption (`UpdateAssumption`): an edited text is UTF-8 without a NUL, any
other input a sequence of numbers.

*Session.* `Superseded` rests on `CookieInv`: a cookie carries the second of the
login that it comes from, so two cookies that equal the token come from one second.
`NotKeptAlive` rests on `AliveInv`: what a page that holds the session saw its user do
was counted for the session, so a request that refreshes brings nothing newer.
`RateLimited` and `LockedByFailures` rest on `FailInv`: the count is about the last
failures of the record, and a count that started over did so a lockout after the
failure before it. Assumptions: spans and limits are at least 1.

*WebPool.* `StreamInSync` is preserved by an event that reaches a tab only if no other
socket streams to that tab. `SyncInv` adds that no two sockets do (`OneStream`),
and that none streams to a tab whose stream is still to be accepted.

*Boot.* `ReasonInv` ties each flag, and the marker, to a reset since the last report;
what makes it delicate is a marker that is lost with power while the flag of its
software reset stays, which is right because the power flag outranks it. `BusInv`
follows a byte through the recovery: the loop goes on while the chip holds SDA, so
what is left of a byte is the found byte without as many bits as there were pulses, all
of them 0, and it is used up before the pulses are; where the loop leaves, the STOP is
seen exactly if the state found was `Freeable`. Assumption: a byte has at least 3 bits (8 in the chip).

Only model-checked:

- liveness under fairness (`ComesToRest`, `DeadLinkNoticed`, `EchoesDieOut`,
  `StatusConverges`, `SavesFinish`, `RequestsServed`, `ClosedStreamEnds`, `LiveView`,
  `WedgeEnds`), which is out of the prover's reach;
- the five runs that show a violation.

## Plan

Every invariant and every action property of the passing runs is proved. What a next
step could add: `Storage` composed with `Mqtt`, so that a save delays the loop and
a reboot command meets a write; and `WebPool` with `Session`, for who holds the sockets
when an idle page tries to log out.
