------------------------------- MODULE IT8951 -------------------------------
(***************************************************************************)
(* The driver of the panel (signagelib/display_linux.go): goroutines call  *)
(* LoadImage, Refresh, Standby, Sleep and Close; each call holds d.mu and  *)
(* talks to the IT8951 controller in words over SPI, each after the        *)
(* controller said it is ready.  Any word can fail: the controller is not  *)
(* ready within its deadline, or the SPI transfer breaks.                  *)
(*                                                                         *)
(* The controller is external and modelled from how the driver uses it: it *)
(* takes a command and then the words that belong to it, draws on its own  *)
(* once told to, and takes nothing but SYS_RUN while it sleeps.  Commands  *)
(* carry a preamble of their own, so it takes one even where it waits for  *)
(* data.  The pixels go over in one transfer; regions are left out.        *)
(***************************************************************************)
EXTENDS Naturals, Sequences

CONSTANTS
  Callers,  \* goroutines that call the Display
  Frames,   \* pictures
  Odd,      \* those of an odd number of bytes
  Torn,     \* any other picture, one made of parts of several, say
  None,     \* no picture
  NoOne     \* nobody holds d.mu

ASSUME DriverAssumption ==
  /\ Odd \subseteq Frames
  /\ Torn \notin Frames /\ None \notin Frames /\ Torn # None
  /\ NoOne \notin Callers

VARIABLES
  req,     \* the call each goroutine is in
  lock,    \* who holds d.mu
  next,    \* how many words of its call the holder has sent, plus one
  bus,     \* what the controller waits for
  mem,     \* image memory of the controller
  glass,   \* what the panel shows
  drive,   \* what the panel is changing to: the LUTs are busy
  asleep,  \* the controller is in standby or asleep
  closed,  \* d.port = nil
  erred    \* history: a call has failed and left its words unsent

chip == <<bus, mem, glass, drive, asleep>>
vars == <<req, lock, next, chip, closed, erred>>

(* Between calls: what the last one returned.                              *)
Idle   == [op |-> "idle", img |-> None]
Failed == [op |-> "failed", img |-> None]
AtRest == {Idle, Failed}

Requests == [op : {"load"}, img : Frames]
              \cup [op : {"refresh", "standby", "sleep", "wake", "close"},
                    img : {None}]

(* The words of each call, in the order they are sent.                     *)
Script ==
  [load    |-> <<"REG_WR", "value", "REG_WR", "value",
                 "LD_IMG_AREA", "area", "pixels", "LD_IMG_END">>,
   refresh |-> <<"DPY_AREA", "panel", "REG_RD", "LUTAFSR", "status">>,
   standby |-> <<"STANDBY">>,
   sleep   |-> <<"SLEEP">>,
   wake    |-> <<"SYS_RUN">>,
   close   |-> << >>]

(* waitLUTIdle starts again at this word while the LUTs are busy.          *)
PollAt == 3

(* What the controller waits for when it takes a word, and what after it.  *)
Commands == {"REG_WR", "LD_IMG_AREA", "DPY_AREA", "REG_RD",
             "STANDBY", "SLEEP", "SYS_RUN"}
Expected(w) == IF w \in Commands THEN "command" ELSE w
After(w) ==
  CASE w = "REG_WR"      -> "value"
    [] w = "LD_IMG_AREA" -> "area"
    [] w = "area"        -> "pixels"
    [] w = "pixels"      -> "LD_IMG_END"
    [] w = "DPY_AREA"    -> "panel"
    [] w = "REG_RD"      -> "LUTAFSR"
    [] w = "LUTAFSR"     -> "status"
    [] OTHER             -> "command"

Words(c) == Script[req[c].op]
Word(c)  == Words(c)[next]

(* The holder has words left to send.                                      *)
Sending(c) == lock = c /\ next <= Len(Words(c))

(* The controller is there to take the next one.                           *)
Hears(c) == ~closed /\ (asleep => Word(c) = "SYS_RUN")

(* Whether it sleeps once it has.                                          *)
Sleeps(c) == Word(c) \in {"STANDBY", "SLEEP"}

Init ==
  /\ req = [c \in Callers |-> Idle]
  /\ lock = NoOne
  /\ next = 1
  /\ bus = "command"
  /\ mem \in Frames \cup {Torn}
  /\ glass \in Frames \cup {Torn}
  /\ drive = None
  /\ asleep = FALSE
  /\ closed = FALSE
  /\ erred = FALSE

Call(c) ==
  /\ req[c] \in AtRest
  /\ \E r \in Requests : req' = [req EXCEPT ![c] = r]
  /\ UNCHANGED <<lock, next, chip, closed, erred>>

(* Mutated: the call does not lock d.mu.                                    *)
AcquireUnlocked(c) ==
  /\ req[c] \notin AtRest
  /\ lock # c
  /\ lock' = c
  /\ next' = 1
  /\ UNCHANGED <<req, chip, closed, erred>>

Acquire(c) ==
  /\ req[c] \notin AtRest
  /\ lock = NoOne
  /\ lock' = c
  /\ next' = 1
  /\ UNCHANGED <<req, chip, closed, erred>>

(* Mutated: a call that returns leaves its image behind.                    *)
LeaveImage(c, result) ==
  /\ req' = [req EXCEPT ![c].op = result.op]
  /\ lock' = NoOne
  /\ next' = 1

Leave(c, result) ==
  /\ req' = [req EXCEPT ![c] = result]
  /\ lock' = NoOne
  /\ next' = 1

(* The controller carries out a word.                                      *)
Write(img) ==
  /\ mem' = img
  /\ drive' \in IF drive = None THEN {None} ELSE {drive, Torn}

Trigger ==
  /\ drive' \in IF drive = None THEN {mem} ELSE {mem, Torn}
  /\ UNCHANGED mem

(* A word that only moves the protocol on, or puts the controller to sleep. *)
SendWord(c) ==
  /\ Sending(c) /\ Hears(c)
  /\ Word(c) \notin {"pixels", "panel", "status"}
  /\ bus' = After(Word(c))
  /\ next' = next + 1
  /\ asleep' = Sleeps(c)
  /\ UNCHANGED <<req, lock, mem, glass, drive, closed, erred>>

SendPixels(c) ==
  /\ Sending(c) /\ Hears(c)
  /\ Word(c) = "pixels"
  /\ req[c].img \notin Odd
  /\ bus' = After("pixels")
  /\ next' = next + 1
  /\ Write(req[c].img)
  /\ UNCHANGED <<req, lock, glass, asleep, closed, erred>>

SendPanel(c) ==
  /\ Sending(c) /\ Hears(c)
  /\ Word(c) = "panel"
  /\ bus' = After("panel")
  /\ next' = next + 1
  /\ Trigger
  /\ UNCHANGED <<req, lock, glass, asleep, closed, erred>>

(* Mutated: the busy bits are read once and not looked at.                  *)
ReadStatusOnce(c) ==
  /\ Sending(c) /\ Hears(c)
  /\ Word(c) = "status"
  /\ bus' = After("status")
  /\ next' = next + 1
  /\ UNCHANGED <<req, lock, mem, glass, drive, asleep, closed, erred>>

(* waitLUTIdle reads the busy bits: it is done, or it polls again.         *)
ReadStatus(c) ==
  /\ Sending(c) /\ Hears(c)
  /\ Word(c) = "status"
  /\ bus' = After("status")
  /\ next' = IF drive = None THEN next + 1 ELSE PollAt
  /\ UNCHANGED <<req, lock, mem, glass, drive, asleep, closed, erred>>

(* Mutated: waitLUTIdle gives up without an error.                          *)
LUTTimeoutNil(c) ==
  /\ Sending(c) /\ Hears(c)
  /\ Word(c) = "status"
  /\ drive # None
  /\ bus' = After("status")
  /\ Leave(c, Idle)
  /\ UNCHANGED <<mem, glass, drive, asleep, closed, erred>>

(* Mutated: waitLUTIdle has no deadline.                                    *)
LUTTimeoutNever(c) == Sending(c) /\ FALSE /\ UNCHANGED vars

(* The 30 s deadline of waitLUTIdle.                                       *)
LUTTimeout(c) ==
  /\ Sending(c) /\ Hears(c)
  /\ Word(c) = "status"
  /\ drive # None
  /\ bus' = After("status")
  /\ Leave(c, Failed)
  /\ erred' = TRUE
  /\ UNCHANGED <<mem, glass, drive, asleep, closed>>

(* A word fails and the call returns the error at once.  The controller    *)
(* has not seen the word, or has seen it all the same; of the pixels it    *)
(* may have seen a part.                                                   *)
Fail(c) ==
  /\ Sending(c)
  /\ Leave(c, Failed)
  /\ erred' = TRUE
  /\ \/ UNCHANGED <<bus, mem, drive, asleep>>
     \/ /\ Hears(c)
        /\ ~(Word(c) = "pixels" /\ req[c].img \in Odd)
        /\ bus' \in {bus, After(Word(c))}
        /\ asleep' \in {asleep, Sleeps(c)}
        /\ CASE Word(c) = "pixels" -> \E p \in {req[c].img, Torn} : Write(p)
             [] Word(c) = "panel"  -> Trigger
             [] OTHER              -> UNCHANGED <<mem, drive>>
  /\ UNCHANGED <<glass, closed>>

(* Every word is sent.  Close gives the port up even if to close it fails. *)
Outcomes(c) == IF req[c].op = "close" /\ ~closed THEN AtRest ELSE {Idle}

Return(c) ==
  /\ lock = c
  /\ next > Len(Words(c))
  /\ \E result \in Outcomes(c) : Leave(c, result)
  /\ closed' = (closed \/ req[c].op = "close")
  /\ UNCHANGED <<chip, erred>>

(* The panel has finished drawing.                                         *)
Settle ==
  /\ drive # None
  /\ glass' = drive
  /\ drive' = None
  /\ UNCHANGED <<req, lock, next, bus, mem, asleep, closed, erred>>

Step(c) == \/ SendWord(c) \/ SendPixels(c) \/ SendPanel(c) \/ ReadStatus(c)
           \/ Fail(c) \/ Return(c)

Next ==
  \/ \E c \in Callers : Call(c) \/ Acquire(c) \/ Step(c) \/ LUTTimeout(c)
  \/ Settle

(* A goroutine that holds d.mu runs: a word is sent or its deadline        *)
(* passes, so does the deadline of waitLUTIdle, and sync.Mutex starves     *)
(* nobody.  Nothing is assumed of the panel.                               *)
Fairness ==
  \A c \in Callers : /\ WF_vars(Step(c))
                     /\ SF_vars(Acquire(c))
                     /\ SF_vars(LUTTimeout(c))

Spec == Init /\ [][Next]_vars /\ Fairness

-----------------------------------------------------------------------------
TypeOK ==
  /\ req \in [Callers -> Requests \cup AtRest]
  /\ lock \in Callers \cup {NoOne}
  /\ next \in 1..9
  /\ bus \in {"command", "value", "area", "pixels", "LD_IMG_END", "panel",
              "LUTAFSR", "status"}
  /\ mem \in Frames \cup {Torn}
  /\ glass \in Frames \cup {Torn}
  /\ drive \in Frames \cup {Torn, None}
  /\ asleep \in BOOLEAN
  /\ closed \in BOOLEAN
  /\ erred \in BOOLEAN

(* A command of the controller takes several transfers, and a Refresh      *)
(* holds d.mu for as long as the panel draws.  As long as no call has      *)
(* failed, each word finds the controller waiting for it, whoever calls    *)
(* what at the same time.                                                  *)
WordsExpected ==
  \A c \in Callers : Sending(c) /\ ~erred => bus = Expected(Word(c))

(* When a Refresh returns without an error, and no call has failed before, *)
(* the panel shows the image memory, and nobody has changed either while   *)
(* the panel drew.                                                         *)
RefreshShows ==
  \A c \in Callers :
    lock = c /\ req[c].op = "refresh" /\ next > Len(Words(c)) /\ ~erred
      => glass = mem /\ drive = None

(* The call in progress has done its work: what is left is to end it.      *)
Worked ==
  /\ lock # NoOne
  /\ \/ req[lock].op = "load" /\ next > 7
     \/ req[lock].op = "refresh" /\ next > 2

(* The calls, word by word, keep the contract of the Display interface,    *)
(* "implementations must serialise calls" (display.go:5).                  *)
Promise == INSTANCE Display WITH worked <- Worked
ImplementsDisplay == Promise!Spec

(* Every call returns, even if the panel never finishes drawing or the     *)
(* controller never gets ready again.                                      *)
CallsReturn == \A c \in Callers : req[c] \in Requests ~> req[c] \in AtRest
=============================================================================
