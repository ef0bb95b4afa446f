--------------------------- MODULE DisplayService ---------------------------
(***************************************************************************)
(* The handlers of the Display service (signagegrpc/displayservice.go)     *)
(* behind the check of the bearer token, one goroutine per RPC, and the    *)
(* panel they share with the puller.  A call on the panel is to wait for   *)
(* d.mu (Take) and to do the work; IT8951 has its words and failures.      *)
(***************************************************************************)
EXTENDS SignageCli

CONSTANTS
  Puller,   \* the goroutine of Puller.Run, another user of the panel
  NoOne,    \* nobody holds d.mu
  Torn,     \* image memory or glass holding no picture of ours
  Still,    \* the panel is not drawing
  Polls,    \* how many polls bring the puller a picture
  Memory    \* bytes a handler can ask for

ASSUME ServiceAssumption ==
  /\ Puller \notin Clients
  /\ NoOne \notin Clients \cup {Puller}
  /\ Polls \in Nat /\ Memory \in Nat

(* What image memory holds after a picture is pushed; Torn is none of them. *)
Image(png) == [pixels |-> PackPNGGrayscale4(png),
               words  |-> AreaWords(4, png.w, png.h, Whole(png))]

ASSUME TornAssumption == Torn # Still /\ \A png \in Pngs : Torn # Image(png)

VARIABLES
  h,          \* where each handler stands, "none" without one
  hdr,        \* the header of its stream
  buf,        \* the bytes it has collected
  lastError,  \* whether DisplayService.lastError is a message
  dev,        \* display # nil
  port,       \* the SPI port is open
  lock,       \* who holds d.mu
  mem,        \* image memory: pixels and the words they came with
  glass,      \* what the panel shows, and the waveform it was drawn with
  drive,      \* what the panel is changing to, after a failed Refresh
  pull,       \* GetPullMode().Enabled
  gen,        \* the generation of the tokens in force
  poll,       \* the panel call the puller's poll is at, "idle" without one
  polls       \* pictures the puller has got so far

(* History, for the properties: c has loaded a picture, and the panel was  *)
(* used for that only.                                                     *)
VARIABLE alone

handler == <<h, hdr, buf, lastError>>
panel   == <<dev, port, lock, mem, glass, drive, poll, polls, alone>>
serviceVars == <<handler, panel, pull, gen>>

Users == Clients \cup {Puller}

NoHeader == Header(0, 0, NoRegion)

InFlight == {c \in Clients : h[c] # "none"}

(* Handlers at the panel; where others may have to wait for somebody.      *)
AtPanel(c) == h[c] \in {"load", "Refresh", "Sleep", "Standby"}

ServiceInit ==
  /\ h = [c \in Clients |-> "none"]
  /\ hdr = [c \in Clients |-> NoHeader]
  /\ buf = [c \in Clients |-> <<>>]
  /\ lastError = FALSE
  /\ dev = FALSE
  /\ port = FALSE
  /\ lock = NoOne
  /\ mem = Torn
  /\ glass = Torn
  /\ drive = Still
  /\ pull = FALSE
  /\ gen = 1
  /\ poll = "idle"
  /\ polls = 0
  /\ alone = [c \in Clients |-> FALSE]

(* The handler returns; a client that has gone does not hear of it.        *)
Reply(c, answer) ==
  /\ h' = [h EXCEPT ![c] = "none"]
  /\ hdr' = [hdr EXCEPT ![c] = NoHeader]
  /\ buf' = [buf EXCEPT ![c] = <<>>]
  /\ down' = IF rpc[c] # "none" /\ down[c] = "none"
               THEN [down EXCEPT ![c] = answer] ELSE down
  /\ UNCHANGED <<cli, cmd, tok, rpc, todo, up, out, spent>>

-----------------------------------------------------------------------------
(* TokenAuth.                                                              *)

(* Mutated: the token is read when the server starts.                      *)
AcceptedAtStart(t) == t = 1

(* The operator's and the administrator's token are of one generation.     *)
Accepted(t) == t = gen

(* Before every handler, of a stream too, comes the interceptor.           *)
Intercept(c) ==
  IF Accepted(tok[c])
    THEN /\ h' = [h EXCEPT ![c] = rpc[c]]
         /\ UNCHANGED <<cliVars, hdr, buf>>
    ELSE Reply(c, "error")

Dispatch(c) ==
  /\ rpc[c] # "none"
  /\ down[c] = "none"
  /\ h[c] = "none"
  /\ Intercept(c)
  /\ UNCHANGED <<lastError, panel, pull, gen>>

-----------------------------------------------------------------------------
(* Handlers that only read.                                                *)

Reads(c, method, answer) ==
  /\ h[c] = method
  /\ Reply(c, answer)
  /\ UNCHANGED <<lastError, panel, pull, gen>>

GetInfo(c)     == Reads(c, "GetInfo", IF dev THEN "ok" ELSE "error")
Health(c)      == Reads(c, "Health", "ok")
GetPullMode(c) == Reads(c, "GetPullMode", "ok")
GetMetrics(c)  == Reads(c, "GetMetrics", "ok")

NoDisplay(c) ==
  /\ ~dev
  /\ \E method \in {"LoadImage", "Refresh", "Sleep", "Standby"} :
       Reads(c, method, "error")

SetPullMode(c) ==
  /\ h[c] = "SetPullMode"
  /\ IF cmd[c].pull = "enable-bare"
       THEN Reply(c, "error") /\ UNCHANGED pull
       ELSE Reply(c, "ok") /\ pull' = (cmd[c].pull = "enable")
  /\ UNCHANGED <<lastError, panel, gen>>

-----------------------------------------------------------------------------
(* LoadImage, up to the panel.                                             *)

HeaderValid(m) ==
  /\ m.kind = "header"
  /\ m.total > 0
  /\ EncodeBPP(m.bpp) # NoCode

(* The buffer for all that the header announces cannot be had: the handler *)
(* panics, or the process runs out of memory.                              *)
Panics(c) ==
  /\ h[c] = "LoadImage"
  /\ dev
  /\ up[c] # <<>>
  /\ HeaderValid(Head(up[c])) /\ Head(up[c]).total > Memory

RecvHeader(c) ==
  /\ h[c] = "LoadImage"
  /\ dev
  /\ up[c] # <<>>
  /\ ~Panics(c)
  /\ IF HeaderValid(Head(up[c]))
       THEN /\ h' = [h EXCEPT ![c] = "recv"]
            /\ hdr' = [hdr EXCEPT ![c] = Head(up[c])]
            /\ up' = [up EXCEPT ![c] = Tail(@)]
            /\ UNCHANGED <<buf, cli, cmd, tok, rpc, todo, down, out, spent>>
       ELSE Reply(c, "error")
  /\ UNCHANGED <<lastError, panel, pull, gen>>

RecvChunk(c) ==
  /\ h[c] = "recv"
  /\ up[c] # <<>>
  /\ Head(up[c]).kind # "eof"
  /\ LET m == Head(up[c])
     IN  IF m.kind = "data" /\ Len(buf[c] \o m.data) <= hdr[c].total
           THEN /\ buf' = [buf EXCEPT ![c] = @ \o m.data]
                /\ up' = [up EXCEPT ![c] = Tail(@)]
                /\ UNCHANGED <<h, hdr, cli, cmd, tok, rpc, todo, down, out, spent>>
           ELSE Reply(c, "error")
  /\ UNCHANGED <<lastError, panel, pull, gen>>

(* Mutated: a stream that ends early is taken for a picture.               *)
RecvEofEarly(c) ==
  /\ h[c] = "recv"
  /\ up[c] # <<>>
  /\ Head(up[c]).kind = "eof"
  /\ h' = [h EXCEPT ![c] = "load"]
  /\ UNCHANGED <<cliVars, hdr, buf, lastError, panel, pull, gen>>

RecvEof(c) ==
  /\ h[c] = "recv"
  /\ up[c] # <<>>
  /\ Head(up[c]).kind = "eof"
  /\ IF Len(buf[c]) = hdr[c].total
       THEN /\ h' = [h EXCEPT ![c] = "load"]
            /\ UNCHANGED <<cliVars, hdr, buf>>
       ELSE Reply(c, "error")
  /\ UNCHANGED <<lastError, panel, pull, gen>>

(* Recv fails: the client, or the connection, has gone.                    *)
RecvBroken(c) ==
  /\ h[c] \in {"LoadImage", "recv"}
  /\ rpc[c] = "none" \/ down[c] = "cut"
  /\ Reply(c, "error")
  /\ UNCHANGED <<lastError, panel, pull, gen>>

-----------------------------------------------------------------------------
(* The panel.                                                              *)

(* A handler may never find the size of its image.                         *)
Sized(c) == h[c] = "load" => HasSide(hdr[c].region, hdr[c].total, hdr[c].bpp)

Take(u) ==
  /\ lock = NoOne
  /\ dev
  /\ IF u \in Clients THEN AtPanel(u) /\ Sized(u) ELSE poll # "idle"
  /\ lock' = u
  /\ UNCHANGED <<cliVars, handler, dev, port, mem, glass, drive, poll, polls,
                 alone, pull, gen>>

(* u is through with the panel; mine: it holds what u loaded, or shows it.  *)
Leave(u, mine) ==
  /\ lock' = NoOne
  /\ alone' = [c \in Clients |-> c = u /\ mine]
  /\ UNCHANGED <<dev, port, pull, gen>>

(* What image memory holds after the pixels of c.                          *)
Loaded(c) ==
  LET dims == dimsFromHeader(hdr[c].region, hdr[c].total, hdr[c].bpp)
  IN  [pixels |-> buf[c],
       words  |-> AreaWords(hdr[c].bpp, dims[1], dims[2], hdr[c].region)]

Drawn(mode) ==
  [img  |-> IF mem # Torn /\ Complete(mem.pixels, mem.words)
              THEN Shown(mem.pixels, mem.words) ELSE Torn,
   mode |-> ModeString(translateMode(mode))]

(* What the panel draws: pic when it is told to, what it was drawing when   *)
(* image memory is written.  Either may spoil a drawing under way.         *)
Starts(pic) == IF drive = Still THEN {pic} ELSE {pic, Torn}
Spoils      == IF drive = Still THEN {Still} ELSE {drive, Torn}

(* Nobody awaits the drawing of a Refresh that failed: it ends some time.   *)
Settle ==
  /\ drive # Still
  /\ glass' = drive
  /\ drive' = Still
  /\ UNCHANGED <<cliVars, handler, dev, port, lock, mem, poll, polls, alone,
                 pull, gen>>

LoadImage(c) ==
  /\ h[c] = "load" /\ lock = c /\ port
  /\ Len(buf[c]) % 2 = 0
  /\ mem' = Loaded(c)
  /\ drive' \in Spoils
  /\ Reply(c, "ok")
  /\ Leave(c, TRUE)
  /\ UNCHANGED <<lastError, glass, poll, polls>>

Refresh(c) ==
  /\ h[c] = "Refresh" /\ lock = c /\ port
  /\ glass' \in Starts(Drawn(parseWaveform(cmd[c].mode)))
  /\ drive' = Still
  /\ Reply(c, "ok")
  /\ Leave(c, alone[c] /\ drive = Still)
  /\ UNCHANGED <<lastError, mem, poll, polls>>

(* Sleep and Standby.                                                      *)
PowerDown(c) ==
  /\ h[c] \in {"Sleep", "Standby"} /\ lock = c /\ port
  /\ Reply(c, "ok")
  /\ Leave(c, FALSE)
  /\ UNCHANGED <<lastError, mem, glass, drive, poll, polls>>

(* Any call may fail, having done a part of its work if the port is open:  *)
(* some of the pixels, or telling the panel to draw without awaiting it.   *)
LoadBreaks(img) ==
  \/ UNCHANGED <<mem, drive>>
  \/ port /\ mem' \in {img, Torn} /\ drive' \in Spoils

RefreshBreaks(mode) ==
  \/ UNCHANGED drive
  \/ port /\ drive' \in Starts(Drawn(mode))

PanelFails(c) ==
  /\ AtPanel(c) /\ lock = c
  /\ Reply(c, "error")
  /\ lastError' = TRUE
  /\ Leave(c, FALSE)
  /\ \/ /\ h[c] = "load"
        /\ LoadBreaks(Loaded(c))
        /\ Len(buf[c]) % 2 = 1 => UNCHANGED <<mem, drive>>
     \/ /\ h[c] = "Refresh"
        /\ RefreshBreaks(parseWaveform(cmd[c].mode))
        /\ UNCHANGED mem
     \/ h[c] \in {"Sleep", "Standby"} /\ UNCHANGED <<mem, drive>>
  /\ UNCHANGED <<glass, poll, polls>>

(* A poll that begins in pull mode and gets a picture of others loads it   *)
(* and, if that went well, refreshes.  It may do so long after pull mode   *)
(* is left or main has begun to stop.                                      *)
PollOnce ==
  /\ pull /\ dev
  /\ poll = "idle"
  /\ polls < Polls
  /\ poll' = "load"
  /\ polls' = polls + 1
  /\ UNCHANGED <<cliVars, handler, dev, port, lock, mem, glass, drive, alone,
                 pull, gen>>

PullLoad ==
  /\ lock = Puller
  /\ poll = "load"
  /\ \/ port /\ mem' = Torn /\ drive' \in Spoils /\ poll' = "refresh"
     \/ LoadBreaks(Torn) /\ poll' = "idle"
  /\ Leave(Puller, FALSE)
  /\ UNCHANGED <<cliVars, handler, glass, polls>>

PullRefresh ==
  /\ lock = Puller
  /\ poll = "refresh"
  /\ poll' = "idle"
  /\ \/ port /\ glass' \in Starts(Drawn(Unspecified)) /\ drive' = Still
     \/ RefreshBreaks(Unspecified) /\ UNCHANGED glass
  /\ Leave(Puller, FALSE)
  /\ UNCHANGED <<cliVars, handler, mem, polls>>

-----------------------------------------------------------------------------
(* The credentials: Rotate and ReissueClientCert, up to their answer.      *)

Replaced(c, new) ==
  /\ gen' = new
  /\ h' = [h EXCEPT ![c] = "answer"]
  /\ UNCHANGED <<cliVars, hdr, buf, lastError, panel, pull>>

(* Mutated: tokens are drawn twice, once more for the answer.              *)
RotateTwice(c) == h[c] = "Rotate" /\ Replaced(c, gen + 2)

Rotate(c) == h[c] = "Rotate" /\ Replaced(c, gen + 1)

(* The tokens stay.                                                        *)
ReissueClientCert(c) == h[c] = "ReissueClientCert" /\ Replaced(c, gen)

(* Files cannot be written; Rotate may have new tokens in memory then.     *)
StoreFails(c) ==
  /\ h[c] \in {"Rotate", "ReissueClientCert"}
  /\ gen' \in IF h[c] = "Rotate" THEN {gen, gen + 1} ELSE {gen}
  /\ Reply(c, "error")
  /\ UNCHANGED <<lastError, panel, pull>>

HandlerStep(c) ==
  \/ GetInfo(c) \/ Health(c) \/ GetPullMode(c) \/ GetMetrics(c)
  \/ NoDisplay(c) \/ SetPullMode(c)
  \/ RecvHeader(c) \/ RecvChunk(c) \/ RecvEof(c) \/ RecvBroken(c)
  \/ Take(c) \/ LoadImage(c) \/ Refresh(c) \/ PowerDown(c) \/ PanelFails(c)
  \/ Rotate(c) \/ ReissueClientCert(c) \/ StoreFails(c)
=============================================================================
