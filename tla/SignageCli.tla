----------------------------- MODULE SignageCli -----------------------------
(***************************************************************************)
(* Clients of the Display service: signage-cli, one command at a time per  *)
(* client, and other programs that stream a LoadImage of their own.  A     *)
(* command becomes one RPC, load-image two.  A client and the handler of   *)
(* its RPC are joined by a queue of stream messages up and one answer down.*)
(*                                                                         *)
(* A command that flags or files keep from dialling changes nothing and is *)
(* not there.  A token is the generation of credentials it belongs to.     *)
(***************************************************************************)
EXTENDS Codec, FiniteSets

CONSTANTS
  Clients,     \* one slot for each client at work
  Pngs,        \* pictures operators push
  ModeNames,   \* what they give for --mode
  ChunkBytes,  \* and for --chunk-bytes
  Streams,     \* message sequences of other programs
  Uses,        \* the commands each client gives
  Window,      \* messages of a stream that may be on their way
  Budget,      \* how many commands there are in all
  NoPng

ASSUME CliAssumption ==
  /\ IsFiniteSet(Clients)
  /\ ChunkBytes \subseteq Nat \ {0}
  /\ Budget \in Nat /\ Window \in Nat
  /\ NoPng \notin Pngs

ASSUME PngAssumption ==
  \A png \in Pngs : \E w, h \in Side : png \in Pictures(w, h)

VARIABLES
  cli,   \* where each client is: ready, sending a stream, waiting
  cmd,   \* its command, the last one when it is ready
  tok,   \* the token it carries
  rpc,   \* the RPC under way
  todo,  \* messages it has yet to send
  up,    \* messages on the way to the handler
  down,  \* the answer on its way back
  out,   \* what the command ended with
  spent  \* commands so far

cliVars == <<cli, cmd, tok, rpc, todo, up, down, out, spent>>

Methods == {"GetInfo", "Health", "LoadImage", "Refresh", "Sleep", "Standby",
            "SetPullMode", "GetPullMode", "Rotate", "ReissueClientCert",
            "GetMetrics"}

Answers == {"ok", "error", "cut"}

Given(name, png, mode, pull) ==
  [name |-> name, png |-> png, mode |-> mode, pull |-> pull]

Command(name) == Given(name, NoPng, "", "")

Header(total, bpp, region) ==
  [kind |-> "header", total |-> total, bpp |-> bpp, region |-> region]
Data(bytes) == [kind |-> "data", data |-> bytes]
Eof         == [kind |-> "eof"]

CliInit ==
  /\ cli = [c \in Clients |-> "ready"]
  /\ cmd = [c \in Clients |-> Command("none")]
  /\ tok = [c \in Clients |-> 0]
  /\ rpc = [c \in Clients |-> "none"]
  /\ todo = [c \in Clients |-> <<>>]
  /\ up = [c \in Clients |-> <<>>]
  /\ down = [c \in Clients |-> "none"]
  /\ out = [c \in Clients |-> "none"]
  /\ spent = 0

(* The region of a picture as it is pushed.                                *)
Whole(png) == [x |-> 0, y |-> 0, w |-> png.w, h |-> png.h]

(* The generated client: the RPC and the messages of its stream.           *)
Invoke(c, method, messages) ==
  /\ rpc' = [rpc EXCEPT ![c] = method]
  /\ todo' = [todo EXCEPT ![c] = messages]
  /\ up' = [up EXCEPT ![c] = <<>>]
  /\ down' = [down EXCEPT ![c] = "none"]
  /\ cli' = [cli EXCEPT ![c] = IF method = "LoadImage" THEN "send" ELSE "wait"]

(* The command line is in order: dial, with the token, and begin the RPC.  *)
Begin(c, t, command, method, messages) ==
  /\ cli[c] = "ready"
  /\ command.name \in Uses[c]
  /\ spent < Budget
  /\ spent' = spent + 1
  /\ cmd' = [cmd EXCEPT ![c] = command]
  /\ tok' = [tok EXCEPT ![c] = t]
  /\ out' = [out EXCEPT ![c] = "none"]
  /\ Invoke(c, method, messages)

cmdInfo(c, t)        == Begin(c, t, Command("info"), "GetInfo", <<>>)
cmdHealth(c, t)      == Begin(c, t, Command("health"), "Health", <<>>)
cmdMetrics(c, t)     == Begin(c, t, Command("metrics"), "GetMetrics", <<>>)
cmdGetPullMode(c, t) == Begin(c, t, Command("get-pull-mode"), "GetPullMode", <<>>)
cmdReissue(c, t)     == Begin(c, t, Command("reissue"), "ReissueClientCert", <<>>)

EmptyMethod == [sleep |-> "Sleep", standby |-> "Standby", rotate |-> "Rotate"]

simpleEmpty(c, t) ==
  \E name \in DOMAIN EmptyMethod :
    Begin(c, t, Command(name), EmptyMethod[name], <<>>)

(* To enable without an address and a device is for the agent to refuse.   *)
cmdSetPullMode(c, t) ==
  \E pull \in {"enable", "enable-bare", "disable"} :
    Begin(c, t, Given("set-pull-mode", NoPng, "", pull), "SetPullMode", <<>>)

cmdRefresh(c, t) ==
  \E mode \in ModeNames :
    /\ Known(mode)
    /\ Begin(c, t, Given("refresh", NoPng, mode, ""), "Refresh", <<>>)

Chunks(bytes, size) ==
  [i \in 1..((Len(bytes) + size - 1) \div size) |->
     Data(SubSeq(bytes, (i - 1) * size + 1, AtMost(i * size, Len(bytes))))]

cmdLoadImage(c, t) ==
  \E png \in Pngs, mode \in ModeNames, size \in ChunkBytes :
    LET packed == PackPNGGrayscale4(png)
    IN  /\ Known(mode)
        /\ Packs4(png)
        /\ Begin(c, t, Given("load-image", png, mode, ""), "LoadImage",
                 <<Header(Len(packed), 4, Whole(png))>> \o Chunks(packed, size))

(* External: a program that is not signage-cli.                            *)
OtherStream(c, t) ==
  \E messages \in Streams :
    Begin(c, t, Command("other"), "LoadImage", messages)

Send(c) ==
  /\ cli[c] = "send"
  /\ down[c] = "none"
  /\ todo[c] # <<>>
  /\ Len(up[c]) < Window
  /\ up' = [up EXCEPT ![c] = Append(@, Head(todo[c]))]
  /\ todo' = [todo EXCEPT ![c] = Tail(@)]
  /\ UNCHANGED <<cli, cmd, tok, rpc, down, out, spent>>

CloseSend(c) ==
  /\ cli[c] = "send"
  /\ down[c] = "none"
  /\ todo[c] = <<>>
  /\ Len(up[c]) < Window
  /\ up' = [up EXCEPT ![c] = Append(@, Eof)]
  /\ cli' = [cli EXCEPT ![c] = "wait"]
  /\ UNCHANGED <<cmd, tok, rpc, todo, down, out, spent>>

(* What it asked for is kept while a handler may need it, and the picture  *)
(* that was pushed.                                                        *)
End(c, how) ==
  /\ cli' = [cli EXCEPT ![c] = "ready"]
  /\ out' = [out EXCEPT ![c] = how]
  /\ rpc' = [rpc EXCEPT ![c] = "none"]
  /\ todo' = [todo EXCEPT ![c] = <<>>]
  /\ up' = [up EXCEPT ![c] = <<>>]
  /\ down' = [down EXCEPT ![c] = "none"]
  /\ cmd' = [cmd EXCEPT ![c] =
               IF how \in {"cut", "timeout"} \/ (how = "ok" /\ @.png # NoPng)
                 THEN @ ELSE Command("none")]
  /\ tok' = [tok EXCEPT ![c] = 0]
  /\ UNCHANGED spent

(* A stream that was answered before its end: Send returns an error.       *)
SendFails(c) ==
  /\ cli[c] = "send"
  /\ down[c] # "none"
  /\ End(c, "error")

(* The answer; load-image goes on with Refresh if it is good.              *)
Receive(c) ==
  /\ cli[c] = "wait"
  /\ down[c] # "none"
  /\ IF cmd[c].name = "load-image" /\ rpc[c] = "LoadImage" /\ down[c] = "ok"
       THEN /\ rpc' = [rpc EXCEPT ![c] = "Refresh"]
            /\ down' = [down EXCEPT ![c] = "none"]
            /\ UNCHANGED <<cli, cmd, tok, todo, up, out, spent>>
       ELSE End(c, down[c])

(* cliCallTimeout, a network that fails, or the operator's patience.       *)
GiveUp(c) ==
  /\ cli[c] \in {"send", "wait"}
  /\ End(c, "timeout")

NewCommand(c, t) ==
  \/ cmdInfo(c, t) \/ cmdHealth(c, t) \/ cmdMetrics(c, t)
  \/ cmdGetPullMode(c, t) \/ cmdReissue(c, t) \/ simpleEmpty(c, t)
  \/ cmdSetPullMode(c, t) \/ cmdRefresh(c, t) \/ cmdLoadImage(c, t)
  \/ OtherStream(c, t)

ClientStep(c) == Send(c) \/ CloseSend(c) \/ SendFails(c) \/ Receive(c) \/ GiveUp(c)
=============================================================================
