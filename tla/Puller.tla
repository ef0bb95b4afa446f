------------------------------- MODULE Puller -------------------------------
(***************************************************************************)
(* The pull client of the agent (signagepull/puller.go): one goroutine,    *)
(* Run, that polls a content server and pushes the frame it gets to the    *)
(* panel, while SetPullMode reconfigures it, a push client writes to the   *)
(* same panel through the Display service, the pages behind the content    *)
(* servers change, calls fail and the process is told to stop.             *)
(*                                                                         *)
(* A frame stands for a PNG and for its SHA-256 alike: the hash is taken   *)
(* to be injective.  Empty is the zero value of a Go string.  Durations    *)
(* and lastPullAt are left out, every critical section of p.mu is one      *)
(* step, and so is every call on the Display, which serialises its callers.*)
(***************************************************************************)
EXTENDS Integers

CONSTANTS
  Servers,          \* content server addresses
  Devices,          \* device identifiers
  Frames,           \* what a page can render to
  Unpackable,       \* frames PackPNGGrayscale4 refuses (say, an odd width)
  HasDisplay,       \* cfg.Display # nil
  Empty,            \* ""
  Torn,             \* a picture no page renders to, half an image, say
  Still,            \* the panel is not drawing
  NoReply,          \* no GetFrame response at hand
  DefaultInterval,  \* what SetPullMode puts for an interval of 0
  Intervals,        \* intervalSec values operators pass
  NextPolls,        \* next_poll_seconds values the content servers send
  Limit             \* how often the environment may do each kind of thing

Kinds == {"set", "change", "fault", "push"}

ASSUME PullerAssumption ==
  /\ Unpackable \subseteq Frames
  /\ HasDisplay \in BOOLEAN
  /\ Empty \notin Servers \cup Devices \cup Frames
  /\ Torn \notin Frames /\ Still \notin Frames \cup {Torn}
  /\ NoReply \notin [hash : Frames, unchanged : BOOLEAN, next : NextPolls]
  /\ DefaultInterval \in Nat \ {0}
  /\ Intervals \subseteq Int
  /\ NextPolls \subseteq Int
  /\ Limit \in [Kinds -> Nat]

VARIABLES
  enabled, contentAddr, deviceID, interval,  \* Puller fields SetPullMode sets
  lastHash,   \* Puller.lastHash
  lastErr,    \* whether Puller.lastErr is a message
  pc,         \* where the Run goroutine stands
  snap,       \* addr, deviceID and hash, pollOnce's locals
  reply,      \* the GetFrame response: on its way, then resp
  cancelled,  \* ctx of Run is done
  mem,        \* image memory of the panel's controller
  glass,      \* what the panel shows
  drive,      \* what the panel is changing to, after a failed Refresh
  content,    \* the frame each content server has for a device: frameFor
  used        \* how much of Limit is spent

(* History variables: only the properties read them.                       *)
VARIABLES
  memMine,    \* mem is what the goroutine loaded, untouched since
  glassMine,  \* the glass shows a frame of the goroutine's, untouched since
  late        \* loads since the last SetPullMode that it should have stopped

config == <<enabled, contentAddr, deviceID, interval>>
panel  == <<mem, glass, drive, memMine, glassMine>>
vars == <<config, lastHash, lastErr, pc, snap, reply, cancelled,
          panel, content, used, late>>

Reply  == [hash : Frames, unchanged : BOOLEAN, next : NextPolls]
Status == {"check", "off", "poll", "call", "load", "refresh", "commit",
           "fail", "wait", "exit"}

(* One more thing of this kind, within the bound.                          *)
Spend(kind) ==
  /\ used[kind] < Limit[kind]
  /\ used' = [used EXCEPT ![kind] = @ + 1]

Init ==
  /\ enabled = FALSE
  /\ contentAddr = Empty
  /\ deviceID = Empty
  /\ interval = 0
  /\ lastHash = Empty
  /\ lastErr = FALSE
  /\ pc = "check"
  /\ snap = [addr |-> Empty, dev |-> Empty, hash |-> Empty]
  /\ reply = NoReply
  /\ cancelled = FALSE
  /\ mem = Torn           \* a reset leaves nothing to count on
  /\ glass \in Frames \cup {Torn}   \* e-paper keeps what it showed
  /\ drive = Still
  /\ content \in [Servers \X Devices -> Frames]
  /\ used = [k \in Kinds |-> 0]
  /\ memMine = FALSE
  /\ glassMine = FALSE
  /\ late = 0

-----------------------------------------------------------------------------
(* The configuration RPC and the other parties.                            *)

(* A SetPullMode call that passes its checks; one that does not changes    *)
(* nothing.                                                                *)
SetPullMode(on, addr, dev, secs) ==
  /\ on => addr # Empty /\ dev # Empty
  /\ secs >= 0
  /\ Spend("set")
  /\ enabled' = on
  /\ contentAddr' = addr
  /\ deviceID' = dev
  /\ interval' = IF secs = 0 THEN DefaultInterval ELSE secs
  /\ lastErr' = FALSE
  /\ late' = 0
  /\ UNCHANGED <<lastHash, pc, snap, reply, cancelled, panel, content>>

(* What the panel draws: pic when it is told to, what it was drawing when   *)
(* image memory is written.  Either may spoil a drawing under way.         *)
Starts(pic) == IF drive = Still THEN {pic} ELSE {pic, Torn}
Spoils      == IF drive = Still THEN {Still} ELSE {drive, Torn}

(* Nobody awaits the drawing of a Refresh that failed: it ends some time.   *)
Settle ==
  /\ drive # Still
  /\ glass' = drive
  /\ drive' = Still
  /\ UNCHANGED <<config, lastHash, lastErr, pc, snap, reply, cancelled, mem,
                 memMine, glassMine, content, used, late>>

(* LoadImage and Refresh through the Display service.  Either may fail on  *)
(* the way: half an image is in memory, the panel has been told to draw or *)
(* has not.                                                                *)
PushLoad ==
  /\ HasDisplay
  /\ Spend("push")
  /\ mem' \in Frames \cup {Torn}
  /\ drive' \in Spoils
  /\ memMine' = FALSE
  /\ glassMine' = FALSE
  /\ UNCHANGED <<config, lastHash, lastErr, pc, snap, reply, cancelled, glass,
                 content, late>>

PushRefresh ==
  /\ HasDisplay
  /\ Spend("push")
  /\ \/ glass' \in Starts(mem) /\ drive' = Still
     \/ drive' \in {drive} \cup Starts(mem) /\ UNCHANGED glass
  /\ memMine' = FALSE
  /\ glassMine' = FALSE
  /\ UNCHANGED <<config, lastHash, lastErr, pc, snap, reply, cancelled, mem,
                 content, late>>

(* A content server comes by another frame for a device.                   *)
PageChanges ==
  /\ Spend("change")
  /\ \E page \in Servers \X Devices, f \in Frames :
       content' = [content EXCEPT ![page] = f]
  /\ UNCHANGED <<config, lastHash, lastErr, pc, snap, reply, cancelled, panel,
                 late>>

(* SIGINT or SIGTERM.                                                      *)
Cancel ==
  /\ ~cancelled
  /\ cancelled' = TRUE
  /\ UNCHANGED <<config, lastHash, lastErr, pc, snap, reply, panel, content,
                 used, late>>

-----------------------------------------------------------------------------
(* The Run goroutine.                                                      *)

RunCheck ==
  /\ pc = "check"
  /\ pc' = IF enabled THEN "poll" ELSE "off"
  /\ UNCHANGED <<config, lastHash, lastErr, snap, reply, cancelled, panel,
                 content, used, late>>

(* Mutated: a poll follows the other, enabled or not.                       *)
RunTimerPolls ==
  /\ pc \in {"off", "wait"}
  /\ pc' = IF pc = "wait" THEN "poll" ELSE "check"
  /\ UNCHANGED <<config, lastHash, lastErr, snap, reply, cancelled, panel,
                 content, used, late>>

(* Either select of Run: the timer fires, or ctx is done.                  *)
RunTimer ==
  /\ pc \in {"off", "wait"}
  /\ pc' = "check"
  /\ UNCHANGED <<config, lastHash, lastErr, snap, reply, cancelled, panel,
                 content, used, late>>

(* Mutated: only the select of a disabled puller listens to ctx.            *)
RunReturnIdleOnly ==
  /\ pc = "off"
  /\ cancelled
  /\ pc' = "exit"
  /\ UNCHANGED <<config, lastHash, lastErr, snap, reply, cancelled, panel,
                 content, used, late>>

RunReturn ==
  /\ pc \in {"off", "wait"}
  /\ cancelled
  /\ pc' = "exit"
  /\ UNCHANGED <<config, lastHash, lastErr, snap, reply, cancelled, panel,
                 content, used, late>>

(* pollOnce's first critical section; RunCheck's lock was released, so the *)
(* configuration may have changed in between.                              *)
PollSnapshot ==
  /\ pc = "poll"
  /\ snap' = [addr |-> contentAddr, dev |-> deviceID, hash |-> lastHash]
  /\ pc' = IF contentAddr = Empty \/ deviceID = Empty THEN "fail" ELSE "call"
  /\ UNCHANGED <<config, lastHash, lastErr, reply, cancelled, panel, content,
                 used, late>>

(* The content server answers; the answer is then on its way.              *)
ServeFrame ==
  /\ pc = "call"
  /\ reply = NoReply
  /\ \E n \in NextPolls :
       LET f == content[<<snap.addr, snap.dev>>]
       IN  reply' = [hash |-> f, unchanged |-> f = snap.hash, next |-> n]
  /\ UNCHANGED <<config, lastHash, lastErr, pc, snap, cancelled, panel,
                 content, used, late>>

(* Dialling or the call fails, or runs into its 30 s deadline, before or   *)
(* after the server answered; a cancelled context fails it in any case.    *)
CallFails ==
  /\ pc = "call"
  /\ \/ Spend("fault")
     \/ cancelled /\ UNCHANGED used
  /\ pc' = "fail"
  /\ reply' = NoReply
  /\ UNCHANGED <<config, lastHash, lastErr, snap, cancelled, panel, content,
                 late>>

(* Mutated: any next_poll_seconds becomes the interval.                     *)
ReceiveFrameAnyInterval ==
  /\ pc = "call"
  /\ reply # NoReply
  /\ interval' = reply.next
  /\ pc' = IF reply.unchanged THEN "wait" ELSE "load"
  /\ reply' = IF reply.unchanged THEN NoReply ELSE reply
  /\ UNCHANGED <<enabled, contentAddr, deviceID, lastHash, lastErr, snap,
                 cancelled, panel, content, used, late>>

ReceiveFrame ==
  /\ pc = "call"
  /\ reply # NoReply
  /\ interval' = IF reply.next > 0 THEN reply.next ELSE interval
  /\ pc' = IF reply.unchanged THEN "wait" ELSE "load"
  /\ reply' = IF reply.unchanged THEN NoReply ELSE reply
  /\ UNCHANGED <<enabled, contentAddr, deviceID, lastHash, lastErr, snap,
                 cancelled, panel, content, used, late>>

(* The panel is written for a poll that the configuration now in force     *)
(* would not make.                                                         *)
Outdated == ~enabled \/ contentAddr # snap.addr \/ deviceID # snap.dev

(* applyFrame: no panel, or a PNG that does not pack.                      *)
ApplyRefused ==
  /\ pc = "load"
  /\ ~HasDisplay \/ reply.hash \in Unpackable
  /\ pc' = "fail"
  /\ reply' = NoReply
  /\ UNCHANGED <<config, lastHash, lastErr, snap, cancelled, panel, content,
                 used, late>>

ApplyLoad ==
  /\ pc = "load"
  /\ HasDisplay
  /\ reply.hash \notin Unpackable
  /\ late' = IF Outdated THEN late + 1 ELSE late
  /\ \/ /\ mem' = reply.hash
        /\ drive' \in Spoils
        /\ memMine' = TRUE
        /\ pc' = "refresh"
        /\ UNCHANGED <<reply, used>>
     \/ /\ Spend("fault")
        /\ \/ UNCHANGED <<mem, drive>>
           \/ mem' \in {Torn, reply.hash} /\ drive' \in Spoils
        /\ memMine' = FALSE
        /\ pc' = "fail"
        /\ reply' = NoReply
  /\ UNCHANGED <<config, lastHash, lastErr, snap, cancelled, glass, glassMine,
                 content>>

(* Mutated: the error of Refresh is dropped.                                *)
ApplyRefreshUnchecked ==
  /\ pc = "refresh"
  /\ pc' = "commit"
  /\ \/ /\ glass' \in Starts(mem)
        /\ drive' = Still
        /\ glassMine' = (memMine /\ drive = Still)
        /\ UNCHANGED used
     \/ /\ Spend("fault")
        /\ \/ UNCHANGED <<drive, glassMine>>
           \/ drive' \in Starts(mem) /\ glassMine' = FALSE
        /\ UNCHANGED glass
  /\ UNCHANGED <<config, lastHash, lastErr, snap, reply, cancelled, mem,
                 memMine, content, late>>

(* A Refresh that fails before it reaches the panel changes nothing; one   *)
(* that fails later, say at the deadline of waitLUTIdle, leaves the panel  *)
(* drawing.                                                                *)
ApplyRefresh ==
  /\ pc = "refresh"
  /\ \/ /\ glass' \in Starts(mem)
        /\ drive' = Still
        /\ glassMine' = (memMine /\ drive = Still)
        /\ pc' = "commit"
        /\ UNCHANGED <<reply, used>>
     \/ /\ Spend("fault")
        /\ \/ UNCHANGED <<drive, glassMine>>
           \/ drive' \in Starts(mem) /\ glassMine' = FALSE
        /\ UNCHANGED glass
        /\ pc' = "fail"
        /\ reply' = NoReply
  /\ UNCHANGED <<config, lastHash, lastErr, snap, cancelled, mem, memMine,
                 content, late>>

(* Mutated: the hash of what is in image memory is recorded.                *)
ApplyCommitReadBack ==
  /\ pc = "commit"
  /\ lastHash' = mem
  /\ lastErr' = FALSE
  /\ pc' = "wait"
  /\ reply' = NoReply
  /\ UNCHANGED <<config, snap, cancelled, panel, content, used, late>>

ApplyCommit ==
  /\ pc = "commit"
  /\ lastHash' = reply.hash
  /\ lastErr' = FALSE
  /\ pc' = "wait"
  /\ reply' = NoReply
  /\ UNCHANGED <<config, snap, cancelled, panel, content, used, late>>

(* Mutated: an error of a poll ends Run.                                    *)
RecordErrReturns ==
  /\ pc = "fail"
  /\ lastErr' = TRUE
  /\ pc' = "exit"
  /\ UNCHANGED <<config, lastHash, snap, reply, cancelled, panel, content,
                 used, late>>

RecordErr ==
  /\ pc = "fail"
  /\ lastErr' = TRUE
  /\ pc' = "wait"
  /\ UNCHANGED <<config, lastHash, snap, reply, cancelled, panel, content,
                 used, late>>

Run ==
  \/ RunCheck \/ RunTimer \/ PollSnapshot \/ ReceiveFrame
  \/ ApplyRefused \/ ApplyLoad \/ ApplyRefresh \/ ApplyCommit \/ RecordErr

Next ==
  \/ \E on \in BOOLEAN, addr \in Servers \cup {Empty},
        dev \in Devices \cup {Empty}, secs \in Intervals :
       SetPullMode(on, addr, dev, secs)
  \/ Settle \/ PushLoad \/ PushRefresh \/ PageChanges \/ Cancel
  \/ ServeFrame \/ CallFails
  \/ Run \/ RunReturn

(* The goroutine runs, its timers fire and a call ends, by an answer or by *)
(* its deadline.  A select with both cases ready picks one at random, so a *)
(* context that stays done is taken in the end.                            *)
Fairness ==
  /\ WF_vars(Run)
  /\ WF_vars(ServeFrame)
  /\ WF_vars(cancelled /\ CallFails)
  /\ SF_vars(RunReturn)

Spec == Init /\ [][Next]_vars /\ Fairness

-----------------------------------------------------------------------------
TypeOK ==
  /\ enabled \in BOOLEAN
  /\ contentAddr \in Servers \cup {Empty}
  /\ deviceID \in Devices \cup {Empty}
  /\ interval \in Int
  /\ lastHash \in Frames \cup {Empty}
  /\ lastErr \in BOOLEAN
  /\ pc \in Status
  /\ snap \in [addr : Servers \cup {Empty}, dev : Devices \cup {Empty},
               hash : Frames \cup {Empty}]
  /\ reply \in Reply \cup {NoReply}
  /\ cancelled \in BOOLEAN
  /\ mem \in Frames \cup {Torn}
  /\ glass \in Frames \cup {Torn}
  /\ drive \in Frames \cup {Torn, Still}
  /\ content \in [Servers \X Devices -> Frames]
  /\ used \in [Kinds -> Nat]
  /\ memMine \in BOOLEAN
  /\ glassMine \in BOOLEAN
  /\ late \in Nat

(* The four fields SetPullMode writes are also written by a poll that is   *)
(* under way (the interval of the response).  Whatever the interleaving,   *)
(* an enabled puller has an address, a device and a positive interval.     *)
EnabledIsRunnable ==
  enabled => contentAddr # Empty /\ deviceID # Empty /\ interval > 0

(* Run checks enabled, releases the lock, and pollOnce takes its snapshot  *)
(* and works from it without the lock; nothing recalls a poll.  Still, a   *)
(* SetPullMode that disables or retargets the puller is followed by at     *)
(* most one write to the panel for what it replaced.                       *)
AtMostOneLateWrite == late <= 1

(* lastHash is what the content server compares with to answer "unchanged".*)
(* It names the picture on the glass, except between Refresh and the       *)
(* commit, unless a push or a Refresh of the goroutine's own that failed   *)
(* after it reached the panel came in between or still spoils the drawing. *)
HashTracksPanel == pc # "commit" /\ glassMine => glass = lastHash

(* "The goroutine is idle when pull mode is disabled" (puller.go:57): since *)
(* it was disabled it has not begun to write the panel.                    *)
IdleWhenDisabled == ~enabled => late = 0

(* The server "short-circuits unchanged responses [...] so the agent skips *)
(* a needless panel refresh" (signagecontent/doc.go:7): a poll that skips  *)
(* the refresh leaves a panel that shows the page.                         *)
SkipsNeedlessRefresh ==
  [][pc = "call" /\ pc' = "wait" => glass = reply.hash]_vars

(* Once calls stop failing, pages stop changing and nobody reconfigures,   *)
(* an enabled puller ends up with the hash of the page it is pointed at,   *)
(* whatever polls, errors and switches of device came before.              *)
HashConverges ==
  <>[](\/ cancelled \/ ~enabled \/ ~HasDisplay
       \/ LET now == content[<<contentAddr, deviceID>>]
          IN  now \in Unpackable \/ lastHash = now)

(* A signal ends Run, whatever it is doing.                                *)
CancelStops == cancelled ~> pc = "exit"
=============================================================================
