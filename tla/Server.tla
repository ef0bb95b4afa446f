------------------------------- MODULE Server -------------------------------
(***************************************************************************)
(* The agent: main boots the panel, the puller and the gRPC server         *)
(* (signage-agent/main.go, signagegrpc/server.go), the server serves the   *)
(* Display service, and it is stopped by main after a signal and by a      *)
(* goroutine of each Rotate and ReissueClientCert.  Nothing starts it      *)
(* again.                                                                  *)
(*                                                                         *)
(* Time is not modelled: a deadline may come as soon as it is awaited.     *)
(***************************************************************************)
EXTENDS DisplayService

CONSTANTS
  Main,          \* the goroutine of main
  ContentServer, \* main was given one
  EnableMDNS     \* and not --no-mdns

ASSUME ServerAssumption ==
  /\ Main \notin Clients \cup {Puller, NoOne}
  /\ ContentServer \in BOOLEAN /\ EnableMDNS \in BOOLEAN

VARIABLES
  main,     \* where main stands
  held,     \* s.srv # nil; s.mdns comes and goes with it
  running,  \* s.running
  serving,  \* the grpc server: no, bound to its port, yes, draining, down
  sp,       \* where each Stop stands
  has,      \* it holds what was s.srv, and s.mdns
  advert    \* the agent is advertised on the LAN

VARIABLE late  \* history: the command began with a token replaced before

stops == <<held, running, serving, sp, has, advert>>
vars  == <<cliVars, serviceVars, main, stops, late>>

Stoppers == Clients \cup {Main}

Init ==
  /\ CliInit
  /\ ServiceInit
  /\ main = "boot"
  /\ held = FALSE
  /\ running = FALSE
  /\ serving = "no"
  /\ sp = [s \in Stoppers |-> "no"]
  /\ has = [s \in Stoppers |-> FALSE]
  /\ advert = FALSE
  /\ late = [c \in Clients |-> FALSE]

-----------------------------------------------------------------------------
(* main, up to serving.  An agent without a panel serves all the same;     *)
(* other errors are fatal, and then Close is not called.                   *)
OpenDisplay ==
  /\ main = "boot"
  /\ dev' \in BOOLEAN
  /\ port' = dev'
  /\ main' = "new"
  /\ UNCHANGED <<cliVars, handler, lock, mem, glass, drive, poll, polls, alone,
                 pull, gen, stops, late>>

(* The puller, enabled if there is a content server, and the credentials.  *)
New ==
  /\ main = "new"
  /\ \/ main' = "start" /\ pull' = ContentServer
     \/ main' = "exit" /\ UNCHANGED pull
  /\ UNCHANGED <<cliVars, handler, panel, gen, stops, late>>

(* Start: the port is bound first, then the record is registered, with an  *)
(* error that is not looked at, and then a goroutine begins to serve; one  *)
(* that comes too late for that ends.                                      *)
Start ==
  /\ main = "start"
  /\ \/ /\ main' = "register"
        /\ held' = TRUE
        /\ running' = TRUE
        /\ serving' = "bound"
     \/ main' = "exit" /\ UNCHANGED <<held, running, serving>>
  /\ UNCHANGED <<cliVars, serviceVars, sp, has, advert, late>>

Register ==
  /\ main = "register"
  /\ main' = "run"
  /\ advert' \in {FALSE, EnableMDNS}
  /\ UNCHANGED <<cliVars, serviceVars, held, running, serving, sp, has, late>>

Serve ==
  /\ serving = "bound"
  /\ main \notin {"register", "exit"}
  /\ serving' = "yes"
  /\ UNCHANGED <<cliVars, serviceVars, main, held, running, sp, has, advert,
                 late>>

-----------------------------------------------------------------------------
(* Commands, calls and their answers.                                      *)

Connect(c) ==
  /\ h[c] = "none"
  /\ sp[c] \in {"no", "done"}
  /\ serving # "no" /\ main # "exit"
  /\ \E t \in 1..gen :
       /\ NewCommand(c, t)
       /\ late' = [late EXCEPT ![c] = t < gen]
  /\ UNCHANGED <<serviceVars, main, stops>>

Client(c) == ClientStep(c) /\ UNCHANGED <<serviceVars, main, stops, late>>

(* Nobody takes the call any more.                                         *)
Unavailable(c) ==
  /\ serving \in {"draining", "down"}
  /\ rpc[c] # "none" /\ down[c] = "none" /\ h[c] = "none"
  /\ down' = [down EXCEPT ![c] = "cut"]
  /\ UNCHANGED <<cli, cmd, tok, rpc, todo, up, out, spent, serviceVars, main,
                 stops, late>>

Handle(c) ==
  /\ main # "exit"
  /\ (serving = "yes" /\ Dispatch(c)) \/ HandlerStep(c)
  /\ UNCHANGED <<main, stops, late>>

(* Rotate and ReissueClientCert start rotateRequest and answer.            *)
Answer(c) ==
  /\ h[c] = "answer"
  /\ sp' = [sp EXCEPT ![c] = "ask"]
  /\ Reply(c, "ok")
  /\ UNCHANGED <<lastError, panel, pull, gen, main, held, running, serving,
                 has, advert, late>>

PullerStep ==
  /\ main # "exit"
  /\ \/ main = "run" /\ PollOnce
     \/ Take(Puller) \/ PullLoad \/ PullRefresh
  /\ UNCHANGED <<main, stops, late>>

-----------------------------------------------------------------------------
(* Stop, in any number of goroutines.                                      *)

Swap(s) ==
  /\ sp[s] = "ask"
  /\ sp' = [sp EXCEPT ![s] = "test"]
  /\ has' = [has EXCEPT ![s] = held]
  /\ held' = FALSE
  /\ UNCHANGED <<cliVars, serviceVars, main, running, serving, advert, late>>

Test(s) ==
  /\ sp[s] = "test"
  /\ sp' = [sp EXCEPT ![s] = IF running THEN "clear" ELSE "done"]
  /\ UNCHANGED <<cliVars, serviceVars, main, held, running, serving, has, advert,
                 late>>

(* Mutated: the server is told to stop before the record goes.             *)
ClearServing(s) ==
  /\ sp[s] = "clear"
  /\ running' = FALSE
  /\ sp' = [sp EXCEPT ![s] = IF has[s] THEN "unregister" ELSE "done"]
  /\ serving' = IF has[s] THEN "draining" ELSE serving
  /\ UNCHANGED <<cliVars, serviceVars, main, held, has, advert, late>>

Clear(s) ==
  /\ sp[s] = "clear"
  /\ running' = FALSE
  /\ sp' = [sp EXCEPT ![s] = IF has[s] THEN "unregister" ELSE "done"]
  /\ UNCHANGED <<cliVars, serviceVars, main, held, serving, has, advert, late>>

Unregister(s) ==
  /\ sp[s] = "unregister"
  /\ sp' = [sp EXCEPT ![s] = "graceful"]
  /\ advert' = FALSE
  /\ UNCHANGED <<cliVars, serviceVars, main, held, running, serving, has, late>>

(* From here no more calls are taken.                                      *)
GracefulStop(s) ==
  /\ sp[s] = "graceful"
  /\ sp' = [sp EXCEPT ![s] = "drain"]
  /\ serving' = "draining"
  /\ UNCHANGED <<cliVars, serviceVars, main, held, running, has, advert, late>>

Stopped(s) ==
  /\ sp[s] = "drain"
  /\ serving' = "down"
  /\ sp' = [sp EXCEPT ![s] = "done"]
  /\ UNCHANGED <<serviceVars, main, held, running, has, advert, late>>

Drained(s) ==
  /\ InFlight = {}
  /\ Stopped(s)
  /\ UNCHANGED cliVars

(* Mutated: GracefulStop has no deadline.                                  *)
DeadlineNever(s) == FALSE /\ Stopped(s) /\ UNCHANGED cliVars

(* 5 s are over, which any call may take.  srv.Stop cuts the connections;  *)
(* handlers run on.                                                        *)
Deadline(s) ==
  /\ InFlight # {}
  /\ Stopped(s)
  /\ down' = [c \in Clients |-> IF rpc[c] # "none" /\ down[c] = "none"
                                  THEN "cut" ELSE down[c]]
  /\ UNCHANGED <<cli, cmd, tok, rpc, todo, up, out, spent>>

Stop(s) ==
  /\ main # "exit"
  /\ \/ Swap(s) \/ Test(s) \/ Clear(s) \/ Unregister(s) \/ GracefulStop(s)
     \/ Drained(s) \/ Deadline(s)

-----------------------------------------------------------------------------
(* A signal; then Stop and Close, in the order of the defers, and the end  *)
(* of the process.                                                         *)
Signal ==
  /\ main = "run"
  /\ main' = "stop"
  /\ sp' = [sp EXCEPT ![Main] = "ask"]
  /\ UNCHANGED <<cliVars, serviceVars, held, running, serving, has, advert, late>>

Close ==
  /\ main = "stop"
  /\ sp[Main] = "done"
  /\ dev => lock = NoOne
  /\ main' = "close"
  /\ port' = FALSE
  /\ UNCHANGED <<cliVars, handler, dev, lock, mem, glass, drive, poll, polls,
                 alone, pull, gen, stops, late>>

(* The process ends: every connection does, and so does the record.        *)
Ended ==
  /\ main' = "exit"
  /\ h' = [c \in Clients |-> "none"]
  /\ serving' = "down"
  /\ advert' = FALSE
  /\ down' = [c \in Clients |-> IF rpc[c] # "none" /\ down[c] = "none"
                                  THEN "cut" ELSE down[c]]
  /\ UNCHANGED <<cli, cmd, tok, rpc, todo, up, out, spent, hdr, buf, lastError,
                 panel, pull, gen, held, running, sp, has, late>>

Exit == main = "close" /\ Ended

(* Nobody recovers from the panic of a handler.                            *)
Panic(c) == main # "exit" /\ Panics(c) /\ Ended

Boot == OpenDisplay \/ New \/ Start \/ Register

Agent ==
  \/ Serve \/ Close \/ Exit \/ PullerStep
  \/ \E c \in Clients : Handle(c) \/ Panic(c) \/ Answer(c)
  \/ \E s \in Stoppers : Stop(s)

Next ==
  \/ Boot \/ Signal \/ Agent
  \/ Settle /\ UNCHANGED <<main, stops, late>>
  \/ \E c \in Clients : Connect(c) \/ Client(c) \/ Unavailable(c)

Spec == Init /\ [][Next]_vars

(* The agent gets on as long as it can; which of its goroutines does is    *)
(* left open, and clients and operators need not do anything.              *)
FairSpec == Spec /\ WF_vars(Agent)

-----------------------------------------------------------------------------
Names == {"none", "info", "health", "metrics", "get-pull-mode",
          "set-pull-mode", "reissue", "rotate", "sleep", "standby", "refresh",
          "load-image", "other"}

Commands == [name : Names, png : Pngs \cup {NoPng},
              mode : {""} \cup {WaveformNames[m] : m \in Modes},
              pull : {"", "enable", "enable-bare", "disable"}]

TypeOK ==
  /\ cli \in [Clients -> {"ready", "send", "wait"}]
  /\ cmd \in [Clients -> Commands]
  /\ tok \in [Clients -> Nat]
  /\ rpc \in [Clients -> Methods \cup {"none"}]
  /\ down \in [Clients -> Answers \cup {"none"}]
  /\ out \in [Clients -> Answers \cup {"none", "timeout"}]
  /\ spent \in 0..Budget
  /\ h \in [Clients -> Methods \cup {"none", "recv", "load", "answer"}]
  /\ lock \in Users \cup {NoOne}
  /\ dev \in BOOLEAN /\ port \in BOOLEAN /\ pull \in BOOLEAN
  /\ lastError \in BOOLEAN
  /\ gen \in 1..(spent + 1)
  /\ poll \in {"idle", "load", "refresh"} /\ polls \in 0..Polls
  /\ alone \in [Clients -> BOOLEAN]
  /\ late \in [Clients -> BOOLEAN]
  /\ main \in {"boot", "new", "start", "register", "run", "stop", "close", "exit"}
  /\ held \in BOOLEAN /\ running \in BOOLEAN
  /\ serving \in {"no", "bound", "yes", "draining", "down"}
  /\ sp \in [Stoppers -> {"no", "ask", "test", "clear", "unregister",
                          "graceful", "drain", "done"}]
  /\ has \in [Stoppers -> BOOLEAN]
  /\ advert \in BOOLEAN

(* "Push a PNG to the panel and trigger Refresh" (signage-cli/main.go:20): *)
(* a load-image that ends well, through packing, chunks, header, words and *)
(* two waveform tables, has put its PNG on the glass pixel by pixel with   *)
(* the waveform it named, unless somebody else has used the panel since or *)
(* the panel was still busy with a drawing that nobody awaited.            *)
PushedIsShown ==
  \A c \in Clients :
    cli[c] = "ready" /\ out[c] = "ok" /\ cmd[c].name = "load-image" /\ alone[c]
      => glass = [img |-> Levels(cmd[c].png), mode |-> cmd[c].mode]

(* A command that starts after a Rotate replaced its token gets nothing    *)
(* done, even while the server that Rotate stops still serves.             *)
OldTokenRefused == \A c \in Clients : late[c] => out[c] # "ok"

(* Whoever finds the agent on the LAN finds a port that takes the call, at *)
(* once or when Serve comes to it, however many Stops are at whatever step *)
(* and however late the goroutine that serves begins.                      *)
AdvertisedIsServed == advert => serving \in {"bound", "yes"}

(* A signal ends the process, whatever streams, panel calls and other      *)
(* Stops are under way.                                                    *)
SignalExits == main = "stop" ~> main = "exit"

(* "Stop performs a graceful shutdown with a 5 s deadline" (server.go:161):*)
(* once every Stop that began has returned, nothing is served.             *)
StopStops ==
  main = "run" /\ (\E s \in Stoppers : sp[s] = "done")
    /\ (\A s \in Stoppers : sp[s] \in {"no", "done"})
      => serving \in {"draining", "down"}
=============================================================================
