# Verification of go-signage

TLA+ models of go-signage: the agent (its pull client, its credential store,
the driver of the panel, its gRPC server with the handlers behind it, its start
and its shutdown), the command line client, the content server, and the
arithmetic between a PNG and the panel. TLC runs check them on small instances,
and TLAPS proves their safety properties for every instance.

## The system

An agent on a Raspberry Pi drives an e-paper panel. Operators push pictures to
it over gRPC, or point it at a content server, which renders a web page per
device; the agent then polls for frames.

| component | state | operations | hard parts |
|---|---|---|---|
| `signagepull.Puller` | mode, address, device, interval, last hash and error, under `p.mu` | `Run`, `SetPullMode`, `GetPullMode` | works from a snapshot without the lock; panel and `lastHash` change in separate steps; errors and cancellation anywhere |
| `signagegrpc.CertManager` | certificates, keys and tokens in memory under `cm.mu` and in six files | boot, `Rotate`, `ReissueClientCert` | files are written one by one, truncated first; reissue writes outside the lock; crashes |
| `signagelib` driver | the SPI bus and the IT8951 controller, under `d.mu` | `LoadImage`, `Refresh`, `Standby`, `Sleep`, `Wake`, `Close` | calls of several transfers, any of which may fail; the panel draws on its own |
| `signagegrpc.DisplayService` | `lastError` | one RPC per operation of the display, the puller and the store | called concurrently; the `LoadImage` stream; a buffer as large as a header says |
| `signagegrpc.Server` | grpc server, `running`, `rotateReq` | `Start`, `Stop`, `rotateRequest` | concurrent stops, drain deadline, nothing restarts it |
| agent `main` | | boots the above, cancels `Run` on a signal | shutdown order |
| `signagecontent.Service` | cache of frames per device | `GetFrame`, `ReportStatus` | TTL, concurrent renders, size hints |
| renderer | Chromium, a mutex | `RenderURL` | 30 s under the mutex |
| device store | sizes by device | `LoadStoreFromJSON`, `Put` | one bad entry among good ones |
| content server and `main` | grpc server, `running` | boot, `Stop`, exit | a signal while the browser is busy |
| `signage-cli` | one command | thirteen commands, one or two RPCs each | a stream that is refused half way; two RPCs for one picture |
| token check | the two tokens in force | before every handler | tokens replaced while calls are under way |
| mDNS | a record on the LAN | `Register`, `Unregister` | the record outliving the server |
| packing, word encodings | none | `PackPNGGrayscale4`, `PackPNGBinary1`, `luma8`, `EncodeBPP`, `Encode`, `dimsFromHeader`, `translateMode` | shifts, odd lengths, numbers off by one |

They interact like this. `Run` calls `GetFrame` of a content server and then
`LoadImage` and `Refresh` of the display; handlers of `DisplayService` call the
same display, `SetPullMode` of the puller and `Rotate` and `ReissueClientCert`
of the store; the last two make the server stop itself. The server reads its
key pair from the store when it starts. `signage-cli` and other programs call
the handlers; every call passes the token check first.

## Modules

| module | what it is |
|---|---|
| `Puller` | `signagepull/puller.go`, with its environment: configuration RPCs, the push client, content servers, faults, the signal |
| `CertManager` | `signagegrpc/certmanager.go`, with booting, the two RPCs, stopping, crashes |
| `Display` | abstract: what the `Display` interface promises to those who share a panel |
| `IT8951` | `signagelib/display_linux.go` word by word; implements `Display` |
| `Content` | `signagecontent` and `signage-content`: store, cache, renderer, server, `main` |
| `Codec` | pure: `signagelib/bitmap.go`, `it8951.go` and the waveform tables, the words of `LoadImage` in the driver, `dimsFromHeader`, `translateMode` |
| `SignageCli` | extends `Codec`: clients of the Display service, their commands and streams |
| `DisplayService` | extends `SignageCli`: the handlers behind the token check, and the panel they share with the puller |
| `Server` | extends `DisplayService`: `signagegrpc/server.go` and the `main` of the agent; the composition that is checked |
| `MCPuller`, `MCCertManager`, `MCIT8951`, `MCContent`, `MCServer` | values of constants and symmetry for TLC |
| `PullerProofs`, `CertManagerProofs`, `IT8951Proofs`, `ContentProofs`, `CodecProofs`, `ServerProofs`, `PushProofs` | theorems and proofs |

Operators whose comment begins "Mutated:" are plausible bugs, each in the form
of the definition after it. No specification uses them; they are there to be
put in its place, and the property named in `PROJECT.json` then fails. A
property that no such bug can break would say nothing of the code.

### Puller

`pc` is where the goroutine stands: `check` is the top of the loop of `Run`,
`off` and `wait` are its two selects, `poll` is the beginning of `pollOnce`,
`call` is `GetFrame`, `load`, `refresh` and `commit` are `applyFrame` and
`fail` is `recordErr`. Each critical section of `p.mu` is one action, so every
place where the code drops the lock is a place where another action can come.
Initially image memory is unknown, and e-paper shows what it showed before.
`snap` holds the locals of `pollOnce`, `reply` the response. `mem` and `glass`
are image memory and what one sees. `memMine`, `glassMine` and `late` are
history variables.

A frame stands for a PNG and for its hash: SHA-256 is taken to be injective.
`content` is the frame `frameFor` returns for a device at the moment of the
call; the cache behind it is in `Content`, here the frame may just change. Display calls
are single steps, because `d.mu` is held throughout each, and they promise what
`Display` does, failures included; that the driver keeps this is what the
refinement of `Display` by `IT8951` is about. A failed `LoadImage` may have
written nothing, a part or all of the frame. A failed `Refresh` may leave the
panel drawing (`drive`): it is done at any later time (`Settle`) or never, and
what is loaded or drawn on top of it may spoil it (`Torn`).

Left out: durations (a timer may fire at any time, so an interval only counts
as positive or not; it is taken to fit into a `time.Duration`, as all 32-bit
numbers of seconds do), `lastPullAt`, the text of `lastErr`, the waveform.

### CertManager

Material is a generation number: certificate and key match when they carry the
same. `mem` and `disk` hold the material of each of the six files. `kind`,
`gen`, `todo` and `open` describe what each goroutine is doing: writing
material `gen` to the files `todo`, having truncated `open`. `OpenFile` and
`WriteFile` are the two halves of `os.WriteFile`. `regenerateLocked` ranges
over a Go map, so its order is arbitrary; `ReissueClientCert` has its order.
`Crash` may happen between any two steps, and the next boot either finds all
six files (`BootLoad`) or generates everything (`BootGenerate`).

Assumptions: the process crashes, not the machine, so what was written stays
written; of two concurrent writers to one file the last write wins; the key
generator does not fail; ports are free.

### IT8951 and Display

`Script` gives the words of each call, `next` the position of the holder of
`d.mu` in its own. `bus` is what the controller waits for next. Each word is
sent after the controller got ready, and each may fail instead (`Fail`), with
or without the controller having seen it. `drive` is what the panel is drawing
towards and `Settle` the moment it is done, which no fairness is assumed for;
`ReadStatus` and `LUTTimeout` are `waitLUTIdle`. Bringing image memory to
another state while the panel draws from it may spoil the drawing (`Torn`);
this is why the comment of `waitLUTIdle` tells callers to wait.

`Close` gives up the port whether or not closing it fails (`Outcomes`).

The controller is external. Assumed from how the driver uses it: a command
has a preamble of its own and is understood whatever the controller waited
for; a controller that sleeps takes nothing but `SYS_RUN`; pixels go over in
one transfer. Regions are left out: an image is all of image memory.

`Display` is the contract of `signagelib/display.go`, "implementations must
serialise calls; the contract is single-writer": one call at a time, a load
that returned without an error is in memory, a refresh that returned without
an error has put memory on the glass, a call that failed may have done any
part of its work. The refinement mapping only has to say when a call has done
its work: a load once the pixels are sent, a refresh once the panel is told to
draw.

### Content

`pc` is where each `GetFrame` stands: `lookup` and `store` are the two critical
sections of the cache in `frameFor`, `wait` and `render` are `RenderURL` before
and after it has `r.mu`, `answer` the response. `lock` holds `r.mu`, and any call
that waits may get it next: a `sync.Mutex` lets newcomers in before those who
wait, and only promises that nobody starves. `main` goes from `boot` over
`warmup` to `serving`, and by a signal to `draining`; `Stopped` is the end of
`Stop`, drained or cut off by its deadline, which is not timed and so may come at
once.

A frame is the device whose page it shows, its size and the age of the page
(`seen`), not its pixels or hash: an answer with the frame and one that says
"unchanged" are one step. `Tick` is time. It waits for nobody but a render at
its deadline and a frame that is on its way from the renderer to the cache: to
hash a frame and to store it is taken to need no time against the 30 s of the
TTL, and that is all that `ServedFresh` needs of the scheduler. Other calls may
render, fail and store in between, so of two renders at the same time the older
may be stored last; the cache then goes back to it, with a fresh time.
`ServedFresh` still holds, since it bounds the age of the page and not the order.
`age` is the clock against `renderedAt`, counted up to the TTL, and `busy` the
duration of the render under way. The caller's context is not looked at, as
`RenderURL` does not look at it: a caller that is gone changes nothing.

### Codec

Operators, no state. `Pictures(w, h)` are decoded PNGs: a colour of three
channels of 16 bits for each pixel. `luma8` and `lumaNibble` have the shifts of
the code in integers. A 4-bit byte is its number, a 1-bit byte the set of its
bits. `AreaWords` are the words of `LD_IMG_AREA` as the driver sends them, cut to
16 bits. `Complete` and `Shown` are external: what the controller makes of
pixels and words. `dimsFromHeader` is the search of the code in 32 bits, for any
width (`Half` is 2^31 in the code, 8 in the runs): `Int32` wraps, `Sides` are
the sides at which the loop stops, and `HasSide` says that there is one, since a
loop whose squares wrap may go on for ever. It takes the square of a side only
from 46341 on to wrap; a panel has far fewer pixels, a header may announce them.

### SignageCli, DisplayService, Server

`cli` is where each client stands, `up` the messages of its stream on the way
to the handler, `down` the answer on its way back, `h` the handler: named after
its RPC, then `recv` while it collects a stream, `load` before its call on the
panel, `answer` once `Rotate` or `ReissueClientCert` has replaced credentials.
`load-image` is two RPCs, `LoadImage` and `Refresh`. Clients may give up at any
time (`GiveUp`: their deadline, the network or the operator); the handler runs
on, as one of Go does whose context nobody asks. `OtherStream` is a program
that is not `signage-cli` and sends any sequence of messages.

A token is the generation of credentials it belongs to; operator's and
administrator's are replaced together. `lock` is `d.mu`: a handler that needs
the panel waits for it (`Take`) and then does its work in one step. What a call
leaves behind is what `Display` allows: `drive`, `Settle` and the pictures a
failure spoils are those of `Puller`; pixels of an odd number of bytes are
refused before any of them is sent. A handler whose search for a side never ends
does not come to the panel (`Sized`), and one that cannot have its buffer ends
the process (`Panic`). `Memory` is the largest buffer that can be had.

The puller is reduced to polls that bring a picture of others, `Polls` of them. A
poll begins in pull mode (`PollOnce`) and then loads and refreshes, however long
after: `SetPullMode(false)` does not recall it, a signal does not either, and at
shutdown it competes with `Close` and with handlers for `d.mu`. `alone[c]` is history: `c` has loaded a picture, nobody else has used
the panel since, and its refresh found no drawing under way. Without the last
condition `PushedIsShown` fails: the refresh of another client fails and leaves
the panel drawing, and the picture that is drawn over it is spoilt.

`main` goes through `Start` in the order of the code: the port is bound
(`Start`), the record registered (`Register`), and a goroutine begins to serve
at any time after (`Serve`), or finds the server stopped. `sp[s]` is where a
`Stop` stands, of `main` or of the goroutine a `Rotate` or a
`ReissueClientCert` starts: `ask` before the swap of `s.srv`, `test` before
`running.Load`, then `clear`, `unregister`, `graceful`, and `drain` until all is
drained or the deadline is over. No clock is modelled, so `Deadline` may come
whenever a call is under way, whatever call it is: also one that generates keys
under `cm.mu` on a slow machine may need its 5 s. `main` runs the deferred `Stop`
and `Close` in the order of the code; `Close` waits for `d.mu`, and the process
ends under whatever handlers are left. Nothing starts the server again, as
nothing in the code does.

That `Stop` lets calls end well is not claimed, since any call may be cut at the
deadline; nor that the panel is left between two calls, since a panic ends the
process anywhere.

## Runs

| run | instance | shows |
|---|---|---|
| `puller` | one server, two devices, three frames of which one does not pack; two `SetPullMode`, one change of page, one fault, one push | `TypeOK`, `EnabledIsRunnable`, `AtMostOneLateWrite`, `HashTracksPanel` |
| `puller_live` | the same without pushes, two frames | `HashConverges`, `CancelStops` |
| `puller_idle` | one device | **finding**: `IdleWhenDisabled` fails |
| `puller_skips` | one device, two changes of page, one fault, no push | **finding**: `SkipsNeedlessRefresh` fails |
| `cert` | two callers, three generations, one crash, one write error, one unreadable file | `TypeOK`, `NoServerMaterialReturns`, `ServerFilesSaved`, `IdentityKept` |
| `cert_start` | one crash, nothing else goes wrong | **finding**: `StoreServes` fails |
| `cert_rotate` | no faults | **finding**: `RotateReplacesAll` fails |
| `content` | two calls under way, two devices with four kinds of hints, four `devices.json`, TTL and render deadline of 2 ticks | `TypeOK`, `SizesPositive`, `RightDevice`, `ServedFresh`, `CallsEnd` |
| `content_size` | the same | **finding**: `RightSize` fails |
| `agent` | one client that pushes three pictures in chunks of one byte, one with every other command and ten streams, two commands in all, one poll of the puller that brings a picture, a signal; numbers of 4 bits in the search for a side | `TypeOK`, `PushedIsShown`, `OldTokenRefused`, `AdvertisedIsServed`, `MemoryIsWhole`, `SignalExits` |
| `server_stop` | two clients that rotate | **finding**: `StopStops` fails |
| `panel` | two callers, two images of which one has an odd length | `TypeOK`, `WordsExpected`, `RefreshShows`, `ImplementsDisplay`, `CallsReturn` |

Bounds. `Limit` bounds how often the environment does each kind of thing.
Two reconfigurations are the least that can enable a puller and take it back
during a poll; two devices and two good frames are needed to have a hash of
one device compared with the frame of another. Three generations are a first
boot and two calls that overlap. In `IT8951` nothing is bounded: calls go on
for ever, and the state space is finite by itself. In `Content`, two calls are
a holder of the mutex and one that overtakes, waits, or finds the frame of the
other; with a TTL and a render of two ticks a frame can expire while the next
is rendered. In `agent`, two commands are the least in which one replaces what
the other came with, stops the server under it or gets between its load and its
refresh; the pictures have two rows, two columns, three colours, an odd number
of bytes and an odd width. The streams are without a header, refused at the
header, too short, too long, with a second header, whole, whole with a size whose
square wraps, without any size, and too large for memory (`Half` and `Memory`
are 8). `Window` 1 lets a message be on its way while the
next waits. The devices and the two frames that pack are symmetric
in `puller`, which has no liveness property. The proofs remove the bounds for all
safety properties of the passing runs.

Deadlock is checked in `panel`, where some call can always be made. It is off
in the others: the puller stops when it is told to, processes exit, and an agent
stops when its crashes, its generations or its commands are used up.

Fairness. In `Puller`, the goroutine runs (`WF` of `Run`): timers fire and
each panel call returns, which `CallsReturn` checks of the driver. The server
answers or the 30 s deadline ends the call. `select` picks at random among
ready cases, so a context that stays done is chosen in the end (`SF` of
`RunReturn`). In `IT8951`, the holder of `d.mu` goes on, since both `HRDY` and
the busy bits are polled with a deadline; `sync.Mutex` starves nobody (`SF` of
`Acquire`). Nothing is assumed of the panel. `CertManager` has no liveness
property, so none is assumed. In `Content`, time passes, a goroutine that can go
on does, a render ends at its deadline (`WF`), and `sync.Mutex` starves nobody
(`SF` of `Lock`: it may be free and taken by others any number of times before);
that a page is ever rendered is not assumed. In `Server` the agent as a
whole goes on as long as it can (`WF` of `Agent`); which of its goroutines does
is left open, and neither clients nor operators need do anything. Its steps are
finitely many between two of theirs, so `SignalExits` needs no more.

## Findings

1. *A disabled puller draws.* A poll that has taken its snapshot is not
   recalled by `SetPullMode(false)`, against the comment on `Run`. The
   damage is bounded: `AtMostOneLateWrite` holds.
2. *"unchanged" hides a failed refresh.* `lastHash` survives a `LoadImage` or
   `Refresh` that failed half way. If the page then changes back, the server
   answers unchanged and the panel keeps the wrong picture.
3. *A crash while a credential file is written is for ever.* The file exists
   and is empty; every later boot loads it and `Start` fails.
4. *Reissue overtakes rotate.* `ReissueClientCert` writes without the lock and
   may put back client files older than a finished `Rotate`.

5. *Two Stops miss the server.* `Stop` takes `s.srv` and then looks at
   `running`; another `Stop` clears `running` in between. The one with the
   server then returns at once, and the agent serves on though each `Stop` has
   returned.
6. *A frame of the wrong size.* The cache of the content server is looked up by
   device alone, the size comes with the call: a panel gets what was rendered for
   another size, against "at the panel's resolution".

No run shows a seventh one, as theorems do (`LumaLost`, `BinaryBlack`): one-bit
pictures are black. `luma8` shifts by 24 bits a sum that has 24 bits
(`bitmap.go:75`), so it is 0 for every colour and none passes the threshold that
the comment on `PackPNGBinary1` names (`bitmap.go:43-44`). The 4-bit packing that
`signage-cli` uses is not affected (`GreysKept`).

The token check, the stream of `LoadImage`, the two RPCs of `load-image` and the
end of the process after a signal hold what they promise.

## Proofs

`PullerProofs` proves the four invariants of run `puller` for all constants
that satisfy `PullerAssumption`. `TypeInv` adds to `TypeOK` that a poll past
its response really has one, and that a call is made for an address and a device.
`LateInv` strengthens `AtMostOneLateWrite`: once one outdated write has been
made, a poll about to begin is that of an enabled puller and one under way
agrees with the configuration in force, so there is no second. `PanelInv`
strengthens `HashTracksPanel`: between load and refresh `memMine` means that
memory holds the frame of the response, before the commit `glassMine`
means that the glass does, and as long as it holds nothing is left to be drawn.

`CertManagerProofs` proves the four properties of run `cert` for any number of
callers, generations and mishaps, from `CertAssumption`. The invariant `Inv` is
a conjunction: `LockInv` (who boots or rotates holds `cm.mu`, and while the
agent boots nobody else runs), `WriterInv` (a reissue has only client files to
write, an idle goroutine none), `FloorInv` (server material in memory, on disk
and in the hands of a writer is not older than `floor`), `HolderInv` (memory
holds what the holder of the lock drew, and so do the files it has finished),
`ServerFilesSaved` and `IdentInv` (once a store was complete no file goes
missing, and the certificate served last is on disk unless excused). The shared
effects of actions (`Draw`, `Finish`, `OpenFile`, `WriteFile`) are lemmas, so
that the steps of the main proofs cite them and not the definitions.

`IT8951Proofs` proves the safety properties of run `panel` for any number of
goroutines and any images. `BusInv` says what the controller waits for between
any two words, in terms of the position of the holder of `d.mu`; it needs the
scripts of the calls, about which there are a few lemmas (`WordFacts`: which
word stands where, and that each leaves the controller waiting for the next).
`DriveInv` says that only a Refresh that has told the panel to draw, or one
that failed, leaves it drawing. `DriverIsDisplay` is the refinement: the initial
states of `IT8951` are ones of `Display`, and each step is one of `Display` or
changes nothing there. `Puller` and `DisplayService` treat a call on the panel
as one step with the outcomes of `Display`.

`ContentProofs` proves the safety properties of run `content`, for any devices,
hints and files, any number of calls and any durations, from
`ContentAssumption`. `JobInv` says that what a call carries is of a registered
device and in a size the renderer takes. `FrameInv` bounds the age of the page of
every frame under way or in the cache: one about to be stored was fetched at most
a render ago, and one in the cache at most a render before the time it was stored
with, however often it has been replaced by an older one meanwhile.
`RightDevices` is about concurrent calls: a frame is that of the call that
rendered it and of the key it is stored under, at each step between.

`CodecProofs` is about the pure operators, without recursion and for every
picture: `PackFaithful` composes packing, words and controller (odd widths
included, where a row begins in the middle of a byte), `WaveformKept` the two
tables, and `LumaLost`, `BinaryBlack` and `GreysKept` are about the luminance.
`LeastSquare` is the search of `dimsFromHeader` with its wrapping arithmetic: if
some square that holds the pixels is below `Half`, then no square up to it wraps,
so the search ends there at the latest, at the least one. The condition is
needed: beyond, a side that is too small may pass. No run states these; run
`agent` meets their consequences.

`ServerProofs` proves the types, `OldTokenRefused` and `AdvertisedIsServed` of
run `agent`, for any number of clients with any commands. Its `Inv` is: `BootInv`
(before the record is registered there are neither calls nor Stops; whoever
is at `GracefulStop` or beyond has seen the record go, and the record does not
come back), `LateOf` (a command that began with an old token has no handler and
no good answer) and `GenInv` (no more generations than commands: each `Rotate`
that may still draw is counted as pending, which bounds the type of `gen`).
`AdvertisedIsServed` is inductive only with `BootInv`: the step that ends the
serving is taken by a `Stop` of its own, while others stand anywhere.
`HandlerEffect` sums up all handlers in what a step may do to its client, to
credentials and to the lock, and the main proofs cite that.

`PushProofs` proves `PushedIsShown`, for pictures of any size and content,
chunks of any size, any clients, commands and streams, from the assumptions of
`ServerProofs`, `PngAssumption` (a picture has sides of 1 to 65535 pixels and a
colour at each point) and `TornAssumption` (`Torn` is not the memory of a pushed
picture). `PushInv` follows a push from its packing to the glass. `Sends` says
that what the client has sent, what is on its way and what it has yet to send
are a position in one script: the header, the chunks, the end. `Collects` says
that the handler has the header of the script and the first bytes of the packed
picture, as many as the chunks it has taken carry. Then image memory holds the
`Image` of the picture unless somebody else used the panel, and after the
refresh the glass shows its `Levels` and `drive` is `Still`. No induction over
the chunks is needed, as the induction is over the steps: each chunk extends a
beginning of the picture by its next bytes (`ChunkJoins`), and at the end of the
stream the length in the header says that the beginning is all of it
(`AllBytes`). `LoadedRight` and `DrawnRight` take it from there to the glass with
`PackFaithful`, the search of `dimsFromHeader` left aside since `signage-cli`
names its region, and `WaveformKept`. A step that is not of the push is dealt
with once (`Elsewhere`): it leaves client, stream and handler alone, and the
panel too, or takes `alone` away.

Only model-checked: liveness (`HashConverges`, `CancelStops`, `CallsReturn`,
`CallsEnd`, `SignalExits`), which is beyond the prover under fairness, and
`MemoryIsWhole`, which joins the chunks of other programs' streams by recursion.

## Not modelled

- The display stub (no panel, no state) and the field accessors and descriptors
  that protoc generates.
- `discover` and `connect` of the CLI, which print; flags and files that keep a
  command from dialling; `--chunk-bytes 0`, which sends empty chunks until the
  deadline; `ReportStatus`, which reads.
- Names and TXT records of mDNS; addresses, ports, TLS parameters, the pool of
  client CAs.
- Commands to an agent that is not up yet: there is nothing to answer them.
- How long the puller waits, and the text of its `lastErr`.
- What the response of `ReissueClientCert` contains: it reads certificate, key
  and fingerprint under three locks, and a concurrent reissue may come between.
- Regions in the driver; the region of a header is passed on as it is.
- What the panel shows of an image whose size `dimsFromHeader` got wrong. Its
  comment says that the IT8951 "will fail loudly" on it; the controller is
  external, so nothing is claimed of that.
- A bound on the time of an answer of the content server, which would need an
  order of the calls at `r.mu`; whether the answer of a `Rotate` gets out before
  the deadline of the `Stop` it starts. The code promises neither.
- The deadline of the content server's `Stop` as a time, and its `running`:
  `main` calls it once.

## Plan

1. A composition of `Puller`, `Content` and `Display`: how old the glass may be
   when every part works.
2. A timed view of the wait of `Run`, for "SetPullMode wakes it up".
3. The response of `ReissueClientCert` in `CertManager`: certificate, key and
   fingerprint of one generation.
