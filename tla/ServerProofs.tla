---------------------------- MODULE ServerProofs ----------------------------
(* Theorems about Server for all values of its constants: any number of     *)
(* clients with any commands, pictures and streams, any Budget.             *)
EXTENDS Server, FiniteSetTheorems, TLAPS

Early == {"boot", "new", "start"}
Cred  == {"Rotate", "ReissueClientCert"}

(* What comes before the first call and the first Stop, and the order of    *)
(* the steps of Stop: whoever has the server stop has seen the record go.   *)
BootInv ==
  /\ main \in Early => serving = "no"
  /\ main = "register" => serving = "bound"
  /\ main \in Early \cup {"register"}
       => /\ ~advert
          /\ \A c \in Clients : h[c] = "none"
          /\ \A s \in Stoppers : sp[s] = "no"
  /\ \A s \in Stoppers : sp[s] \in {"graceful", "drain"} => ~advert
  /\ AdvertisedIsServed

(* A command that comes with a token no longer in force has no handler and  *)
(* no good answer.                                                          *)
LateOf(c) ==
  late[c] => /\ h[c] = "none"
             /\ down[c] # "ok" /\ out[c] # "ok"
             /\ rpc[c] # "none" => tok[c] < gen

ClientInv == \A c \in Clients : LateOf(c)

(* Calls that may still draw tokens.                                        *)
Pending ==
  {c \in Clients : h[c] = "Rotate"
                   \/ (h[c] = "none" /\ rpc[c] = "Rotate" /\ down[c] = "none")}

GenInv == gen + Cardinality(Pending) <= spent + 1

-----------------------------------------------------------------------------
LEMMA NameFacts ==
  /\ Cred \subseteq Methods
  /\ \A m \in Methods : m \notin {"none", "recv", "load", "answer"}
  /\ "none" \notin Answers /\ "ok" \in Answers /\ "error" \in Answers
  /\ "cut" \in Answers
BY DEF Cred, Methods, Answers

LEMMA GoroutineFacts ==
  /\ NoOne \notin Users /\ Puller \in Users /\ Clients \subseteq Users
  /\ Main \in Stoppers /\ Main \notin Clients /\ Clients \subseteq Stoppers
BY ServiceAssumption, ServerAssumption DEF Users, Stoppers

ModeTexts == {""} \cup {WaveformNames[m] : m \in Modes}
PullTexts == {"", "enable", "enable-bare", "disable"}

LEMMA CommandType ==
  ASSUME NEW name \in Names, NEW png \in Pngs \cup {NoPng},
         NEW mode \in ModeTexts, NEW p \in PullTexts
  PROVE  Given(name, png, mode, p) \in Commands
BY DEF Given, Commands, ModeTexts, PullTexts

LEMMA PlainCommand ==
  ASSUME NEW name \in Names
  PROVE  Command(name) \in Commands
<1>1. "" \in ModeTexts /\ "" \in PullTexts
  BY DEF ModeTexts, PullTexts
<1> QED
  BY <1>1, CommandType DEF Command

LEMMA KnownIsText ==
  ASSUME NEW mode, Known(mode)
  PROVE  mode \in ModeTexts
<1>1. PICK m \in Modes : WaveformNames[m] = mode
  BY DEF Known
<1> QED
  BY <1>1 DEF ModeTexts

(* What a new command does: one RPC, under a token of a generation up to    *)
(* the one in force.                                                        *)
Begins(c, t, command, method) ==
  /\ rpc' = [rpc EXCEPT ![c] = method]
  /\ down' = [down EXCEPT ![c] = "none"]
  /\ cli' = [cli EXCEPT ![c] = IF method = "LoadImage" THEN "send" ELSE "wait"]
  /\ cmd' = [cmd EXCEPT ![c] = command]
  /\ tok' = [tok EXCEPT ![c] = t]
  /\ out' = [out EXCEPT ![c] = "none"]
  /\ spent < Budget /\ spent' = spent + 1

LEMMA BeginFacts ==
  ASSUME NEW c, NEW t, NEW command \in Commands, NEW method \in Methods,
         NEW messages, Begin(c, t, command, method, messages)
  PROVE  \E cmd1 \in Commands, method1 \in Methods : Begins(c, t, cmd1, method1)
<1>1. Begins(c, t, command, method)
  BY DEF Begin, Invoke, Begins
<1> QED
  BY <1>1

LEMMA CommandFacts ==
  ASSUME NEW c, NEW t, NewCommand(c, t)
  PROVE  \E command \in Commands, method \in Methods : Begins(c, t, command, method)
<1>1. CASE cmdInfo(c, t) \/ cmdHealth(c, t) \/ cmdMetrics(c, t)
           \/ cmdGetPullMode(c, t) \/ cmdReissue(c, t)
  <2>1. {"info", "health", "metrics", "get-pull-mode", "reissue"} \subseteq Names
    BY DEF Names
  <2>2. {"GetInfo", "Health", "GetMetrics", "GetPullMode", "ReissueClientCert"}
          \subseteq Methods
    BY DEF Methods
  <2>3. \A name \in Names : Command(name) \in Commands
    BY PlainCommand
  <2>4. CASE cmdInfo(c, t)
    BY <2>1, <2>2, <2>3, <2>4, BeginFacts DEF cmdInfo
  <2>5. CASE cmdHealth(c, t)
    BY <2>1, <2>2, <2>3, <2>5, BeginFacts DEF cmdHealth
  <2>6. CASE cmdMetrics(c, t)
    BY <2>1, <2>2, <2>3, <2>6, BeginFacts DEF cmdMetrics
  <2>7. CASE cmdGetPullMode(c, t)
    BY <2>1, <2>2, <2>3, <2>7, BeginFacts DEF cmdGetPullMode
  <2>8. CASE cmdReissue(c, t)
    BY <2>1, <2>2, <2>3, <2>8, BeginFacts DEF cmdReissue
  <2> QED
    BY <1>1, <2>4, <2>5, <2>6, <2>7, <2>8
<1>2. CASE simpleEmpty(c, t)
  <2>1. PICK name \in {"sleep", "standby", "rotate"} :
          Begin(c, t, Command(name), EmptyMethod[name], <<>>)
    BY <1>2 DEF simpleEmpty, EmptyMethod
  <2>2. EmptyMethod[name] \in Methods
    BY DEF EmptyMethod, Methods
  <2>3. name \in Names
    BY DEF Names
  <2>4. Command(name) \in Commands
    BY <2>3, PlainCommand
  <2> QED
    BY <2>1, <2>2, <2>4, BeginFacts
<1>3. CASE cmdSetPullMode(c, t)
  <2>1. PICK p \in {"enable", "enable-bare", "disable"} :
          Begin(c, t, Given("set-pull-mode", NoPng, "", p), "SetPullMode", <<>>)
    BY <1>3 DEF cmdSetPullMode
  <2>2. "set-pull-mode" \in Names /\ p \in PullTexts /\ "" \in ModeTexts
    BY DEF Names, PullTexts, ModeTexts
  <2>3. Given("set-pull-mode", NoPng, "", p) \in Commands
    BY <2>2, CommandType
  <2>4. "SetPullMode" \in Methods
    BY DEF Methods
  <2> QED
    BY <2>1, <2>3, <2>4, BeginFacts
<1>4. CASE cmdRefresh(c, t)
  <2>1. PICK mode \in ModeNames :
          /\ Known(mode)
          /\ Begin(c, t, Given("refresh", NoPng, mode, ""), "Refresh", <<>>)
    BY <1>4 DEF cmdRefresh
  <2>2. "refresh" \in Names /\ "" \in PullTexts
    BY DEF Names, PullTexts
  <2>3. mode \in ModeTexts
    BY <2>1, KnownIsText
  <2>4. Given("refresh", NoPng, mode, "") \in Commands
    BY <2>2, <2>3, CommandType
  <2>5. "Refresh" \in Methods
    BY DEF Methods
  <2> QED
    BY <2>1, <2>4, <2>5, BeginFacts
<1>5. CASE cmdLoadImage(c, t)
  <2>1. PICK png \in Pngs, mode \in ModeNames :
          /\ Known(mode)
          /\ \E messages :
               Begin(c, t, Given("load-image", png, mode, ""), "LoadImage", messages)
    BY <1>5 DEF cmdLoadImage
  <2>2. "load-image" \in Names /\ "" \in PullTexts
    BY DEF Names, PullTexts
  <2>3. mode \in ModeTexts
    BY <2>1, KnownIsText
  <2>4. Given("load-image", png, mode, "") \in Commands
    BY <2>2, <2>3, CommandType
  <2>5. "LoadImage" \in Methods
    BY DEF Methods
  <2> QED
    BY <2>1, <2>4, <2>5, BeginFacts
<1>6. CASE OtherStream(c, t)
  <2>1. PICK messages \in Streams :
          Begin(c, t, Command("other"), "LoadImage", messages)
    BY <1>6 DEF OtherStream
  <2>2. "other" \in Names
    BY DEF Names
  <2>3. Command("other") \in Commands
    BY <2>2, PlainCommand
  <2>4. "LoadImage" \in Methods
    BY DEF Methods
  <2> QED
    BY <2>1, <2>3, <2>4, BeginFacts
<1> QED
  BY <1>1, <1>2, <1>3, <1>4, <1>5, <1>6 DEF NewCommand
-----------------------------------------------------------------------------
(* What a handler's step does to its client, its credentials and the lock.  *)

Sets(c, s) == h' = [h EXCEPT ![c] = s]

Answered(c, a) ==
  /\ Sets(c, "none")
  /\ down' = IF rpc[c] # "none" /\ down[c] = "none"
               THEN [down EXCEPT ![c] = a] ELSE down

GenMoves(c) == gen' = gen \/ (gen' = gen + 1 /\ h[c] = "Rotate")

Goes(c) ==
  \/ UNCHANGED <<h, down, gen>>
  \/ /\ h[c] \notin Cred
     /\ \E s \in {"recv", "load"} : Sets(c, s)
     /\ UNCHANGED <<down, gen>>
  \/ /\ \E a \in {"ok", "error"} : Answered(c, a)
     /\ GenMoves(c)
  \/ /\ h[c] \in Cred
     /\ Sets(c, "answer")
     /\ GenMoves(c)
     /\ UNCHANGED down

Effect(c) ==
  /\ h[c] \notin {"none", "answer"}
  /\ UNCHANGED <<cli, cmd, tok, rpc, out, spent, dev, port, poll, polls>>
  /\ lastError' \in BOOLEAN /\ pull' \in BOOLEAN
  /\ alone' \in [Clients -> BOOLEAN]
  /\ lock' \in {lock, c, NoOne}
  /\ Goes(c)

LEMMA ReplyFacts ==
  ASSUME NEW c, NEW a, Reply(c, a)
  PROVE  Answered(c, a) /\ UNCHANGED <<cli, cmd, tok, rpc, out, spent>>
BY DEF Reply, Answered, Sets

LEMMA ReadFacts ==
  ASSUME TypeOK, NEW c \in Clients, NEW method \in Methods,
         NEW a \in {"ok", "error"}, Reads(c, method, a)
  PROVE  Effect(c)
<1>1. Reply(c, a) /\ h[c] = method /\ UNCHANGED <<lastError, panel, pull, gen>>
  BY DEF Reads
<1>2. Answered(c, a) /\ UNCHANGED <<cli, cmd, tok, rpc, out, spent>>
  BY <1>1, ReplyFacts
<1>3. Goes(c)
  BY <1>1, <1>2 DEF Goes, GenMoves
<1> QED
  BY <1>1, <1>2, <1>3, NameFacts DEF Effect, TypeOK, panel

LEMMA LeaveFacts ==
  ASSUME NEW u, NEW mine \in BOOLEAN, Leave(u, mine), TypeOK
  PROVE  /\ lock' = NoOne
         /\ alone' \in [Clients -> BOOLEAN]
         /\ UNCHANGED <<dev, port, pull, gen>>
BY DEF Leave, TypeOK

(* A panel call that ends with an answer.                                   *)
LEMMA PanelFacts ==
  ASSUME TypeOK, NEW c \in Clients, NEW a \in {"ok", "error"},
         NEW mine \in BOOLEAN, AtPanel(c), Reply(c, a), Leave(c, mine),
         lastError' \in BOOLEAN, UNCHANGED <<poll, polls>>
  PROVE  Effect(c)
<1>1. Answered(c, a) /\ UNCHANGED <<cli, cmd, tok, rpc, out, spent>>
  BY ReplyFacts
<1>2. /\ lock' = NoOne
      /\ alone' \in [Clients -> BOOLEAN]
      /\ UNCHANGED <<dev, port, pull, gen>>
  BY LeaveFacts
<1>3. Goes(c)
  BY <1>1, <1>2 DEF Goes, GenMoves
<1> QED
  BY <1>1, <1>2, <1>3 DEF Effect, TypeOK, AtPanel

LEMMA HandlerEffect ==
  ASSUME TypeOK, NEW c \in Clients, HandlerStep(c)
  PROVE  Effect(c)
<1> USE DEF Methods
<1>1. CASE GetInfo(c)
  <2>1. Reads(c, "GetInfo", IF dev THEN "ok" ELSE "error")
    BY <1>1 DEF GetInfo
  <2> QED
    BY <2>1, ReadFacts
<1>2. CASE Health(c) \/ GetPullMode(c) \/ GetMetrics(c) \/ NoDisplay(c)
  BY <1>2, ReadFacts DEF Health, GetPullMode, GetMetrics, NoDisplay
<1>3. CASE SetPullMode(c)
  <2>1. PICK a \in {"ok", "error"} : Reply(c, a) /\ pull' \in BOOLEAN
    BY <1>3 DEF SetPullMode, TypeOK
  <2>2. Answered(c, a) /\ UNCHANGED <<cli, cmd, tok, rpc, out, spent>>
    BY <2>1, ReplyFacts
  <2>3. Goes(c)
    BY <1>3, <2>2 DEF SetPullMode, Goes, GenMoves
  <2> QED
    BY <1>3, <2>1, <2>2, <2>3 DEF SetPullMode, Effect, TypeOK, panel
<1>4. CASE RecvHeader(c) \/ RecvChunk(c) \/ RecvEof(c) \/ RecvBroken(c)
  <2>1. /\ h[c] \in {"LoadImage", "recv"}
        /\ UNCHANGED <<lastError, panel, pull, gen>>
    BY <1>4 DEF RecvHeader, RecvChunk, RecvEof, RecvBroken
  <2>2. CASE Reply(c, "error")
    <3>1. Answered(c, "error") /\ UNCHANGED <<cli, cmd, tok, rpc, out, spent>>
      BY <2>2, ReplyFacts
    <3>2. Goes(c)
      BY <2>1, <3>1 DEF Goes, GenMoves
    <3> QED
      BY <2>1, <3>1, <3>2 DEF Effect, TypeOK, panel
  <2>3. CASE ~Reply(c, "error")
    <3>1. /\ UNCHANGED h \/ Sets(c, "recv") \/ Sets(c, "load")
          /\ UNCHANGED <<cli, cmd, tok, rpc, down, out, spent>>
      BY <1>4, <2>3
         DEF RecvHeader, RecvChunk, RecvEof, RecvBroken, cliVars, Sets
    <3>2. Goes(c)
      BY <2>1, <3>1 DEF Goes, Cred
    <3> QED
      BY <2>1, <3>1, <3>2 DEF Effect, TypeOK, panel
  <2> QED
    BY <2>2, <2>3
<1>5. CASE Take(c)
  <2>1. AtPanel(c) /\ lock' = c
    BY <1>5, GoroutineFacts DEF Take
  <2>2. UNCHANGED <<cli, cmd, tok, rpc, down, out, spent, h, lastError, dev, port,
                    poll, polls, alone, pull, gen>>
    BY <1>5 DEF Take, cliVars, handler
  <2> QED
    BY <2>1, <2>2 DEF Effect, Goes, AtPanel, TypeOK
<1>6. CASE LoadImage(c)
  BY <1>6, PanelFacts DEF LoadImage, AtPanel, TypeOK
<1>7. CASE Refresh(c)
  <2>1. PICK mine \in BOOLEAN : mine = (alone[c] /\ drive = Still)
    OBVIOUS
  <2>2. /\ h[c] = "Refresh" /\ Reply(c, "ok") /\ Leave(c, mine)
        /\ UNCHANGED <<lastError, poll, polls>>
    BY <1>7, <2>1 DEF Refresh
  <2> QED
    BY <2>2, PanelFacts DEF AtPanel, TypeOK
<1>8. CASE PowerDown(c)
  BY <1>8, PanelFacts DEF PowerDown, AtPanel, TypeOK
<1>9. CASE PanelFails(c)
  BY <1>9, PanelFacts DEF PanelFails
<1>10. CASE Rotate(c) \/ ReissueClientCert(c)
  <2>1. PICK new \in {gen, gen + 1} :
          /\ h[c] \in Cred
          /\ new = gen \/ h[c] = "Rotate"
          /\ Replaced(c, new)
    BY <1>10 DEF Rotate, ReissueClientCert, Cred
  <2>2. Goes(c)
    BY <2>1 DEF Replaced, Goes, GenMoves, Sets, cliVars
  <2> QED
    BY <2>1, <2>2 DEF Replaced, Effect, TypeOK, cliVars, panel, Cred
<1>11. CASE StoreFails(c)
  <2>1. Answered(c, "error") /\ UNCHANGED <<cli, cmd, tok, rpc, out, spent>>
    BY <1>11, ReplyFacts DEF StoreFails
  <2>2. GenMoves(c)
    BY <1>11 DEF StoreFails, GenMoves
  <2>3. Goes(c)
    BY <1>11, <2>1, <2>2 DEF StoreFails, Goes
  <2> QED
    BY <1>11, <2>1, <2>3 DEF StoreFails, Effect, TypeOK, panel
<1> QED
  BY <1>1, <1>2, <1>3, <1>4, <1>5, <1>6, <1>7, <1>8, <1>9, <1>10, <1>11
     DEF HandlerStep

(* What the client's own steps do.                                          *)
Ends(c) ==
  \E how \in Answers \cup {"timeout"} :
    /\ out' = [out EXCEPT ![c] = how]
    /\ how \in {"error", "timeout", down[c]}
    /\ rpc' = [rpc EXCEPT ![c] = "none"]
    /\ down' = [down EXCEPT ![c] = "none"]
    /\ tok' = [tok EXCEPT ![c] = 0]

GoesOn(c) ==
  /\ rpc[c] = "LoadImage" /\ down[c] = "ok"
  /\ rpc' = [rpc EXCEPT ![c] = "Refresh"]
  /\ down' = [down EXCEPT ![c] = "none"]
  /\ UNCHANGED <<tok, out>>

LEMMA EndFacts ==
  ASSUME TypeOK, NEW c \in Clients, NEW how \in Answers \cup {"timeout"},
         how \in {"error", "timeout", down[c]}, End(c, how)
  PROVE  /\ Ends(c)
         /\ cli' \in [Clients -> {"ready", "send", "wait"}]
         /\ cmd' \in [Clients -> Commands]
         /\ UNCHANGED spent
<1>1. Command("none") \in Commands
  <2>1. "none" \in Names
    BY DEF Names
  <2> QED
    BY <2>1, PlainCommand
<1> QED
  BY <1>1 DEF TypeOK, End, Ends

LEMMA ClientEffect ==
  ASSUME TypeOK, NEW c \in Clients, ClientStep(c)
  PROVE  /\ Ends(c) \/ GoesOn(c) \/ UNCHANGED <<tok, rpc, down, out>>
         /\ cli' \in [Clients -> {"ready", "send", "wait"}]
         /\ cmd' \in [Clients -> Commands]
         /\ UNCHANGED spent
<1>1. CASE Send(c) \/ CloseSend(c)
  BY <1>1 DEF Send, CloseSend, TypeOK
<1>2. CASE SendFails(c)
  BY <1>2, EndFacts, NameFacts DEF SendFails
<1>3. CASE Receive(c)
  <2>1. down[c] \in Answers
    BY <1>3 DEF Receive, TypeOK
  <2>2. CASE cmd[c].name = "load-image" /\ rpc[c] = "LoadImage" /\ down[c] = "ok"
    BY <1>3, <2>2 DEF Receive, GoesOn, TypeOK
  <2>3. CASE ~(cmd[c].name = "load-image" /\ rpc[c] = "LoadImage" /\ down[c] = "ok")
    <3>1. End(c, down[c])
      BY <1>3, <2>3 DEF Receive
    <3> QED
      BY <2>1, <3>1, EndFacts
  <2> QED
    BY <2>2, <2>3
<1>4. CASE GiveUp(c)
  BY <1>4, EndFacts DEF GiveUp
<1> QED
  BY <1>1, <1>2, <1>3, <1>4 DEF ClientStep
LEMMA DispatchFacts ==
  ASSUME NEW c, Dispatch(c)
  PROVE  /\ rpc[c] # "none" /\ down[c] = "none" /\ h[c] = "none"
         /\ \/ tok[c] = gen /\ Sets(c, rpc[c]) /\ UNCHANGED down
            \/ Answered(c, "error")
         /\ UNCHANGED <<cli, cmd, tok, rpc, out, spent, lastError, panel, pull,
                        gen>>
<1>1. CASE Accepted(tok[c])
  BY <1>1 DEF Dispatch, Intercept, Accepted, Sets, cliVars
<1>2. CASE ~Accepted(tok[c])
  <2>1. Reply(c, "error")
    BY <1>2 DEF Dispatch, Intercept
  <2>2. Answered(c, "error") /\ UNCHANGED <<cli, cmd, tok, rpc, out, spent>>
    BY <2>1, ReplyFacts
  <2> QED
    BY <2>2 DEF Dispatch
<1> QED
  BY <1>1, <1>2

LEMMA AnswerFacts ==
  ASSUME NEW c, Answer(c)
  PROVE  /\ h[c] = "answer"
         /\ Answered(c, "ok")
         /\ sp' = [sp EXCEPT ![c] = "ask"]
         /\ UNCHANGED <<cli, cmd, tok, rpc, out, spent, lastError, panel, pull,
                        gen, main, held, running, serving, has, advert, late>>
BY ReplyFacts DEF Answer

LEMMA ConnectFacts ==
  ASSUME NEW c, Connect(c)
  PROVE  /\ h[c] = "none" /\ sp[c] \in {"no", "done"}
         /\ main # "exit" /\ serving # "no"
         /\ UNCHANGED <<serviceVars, main, stops>>
         /\ \E t \in 1..gen, command \in Commands, method \in Methods :
              /\ Begins(c, t, command, method)
              /\ late' = [late EXCEPT ![c] = t < gen]
<1>1. PICK t \in 1..gen : NewCommand(c, t) /\ late' = [late EXCEPT ![c] = t < gen]
  BY DEF Connect
<1>2. \E command \in Commands, method \in Methods : Begins(c, t, command, method)
  BY <1>1, CommandFacts
<1> QED
  BY <1>1, <1>2 DEF Connect

(* What the puller's steps leave alone.                                     *)
LEMMA PullerFacts ==
  ASSUME TypeOK, PullerStep
  PROVE  /\ main # "exit"
         /\ UNCHANGED <<cliVars, handler, dev, port, pull, gen, main, stops, late>>
         /\ lock' \in {lock, Puller, NoOne}
         /\ poll' \in {"idle", "load", "refresh"} /\ polls' \in 0..Polls
         /\ alone' \in [Clients -> BOOLEAN]
<1>1. CASE PollOnce
  <2>1. polls' \in 0..Polls
    BY <1>1, ServiceAssumption DEF PollOnce, TypeOK
  <2> QED
    BY <1>1, <2>1 DEF PullerStep, PollOnce, Take, PullLoad, PullRefresh, TypeOK
<1>2. CASE Take(Puller)
  BY <1>2 DEF PullerStep, Take, TypeOK
<1>3. CASE PullLoad \/ PullRefresh
  <2>1. /\ Leave(Puller, FALSE) /\ UNCHANGED <<cliVars, handler, polls>>
        /\ poll' \in {"idle", "refresh"}
    BY <1>3, Zenon DEF PullLoad, PullRefresh
  <2> QED
    BY <2>1 DEF PullerStep, Leave, TypeOK
<1> QED
  BY <1>1, <1>2, <1>3 DEF PullerStep

(* The panel comes to the end of a drawing.                                 *)
Settles == Settle /\ UNCHANGED <<main, stops, late>>

LEMMA SettleFacts ==
  ASSUME Settles
  PROVE  UNCHANGED <<cliVars, handler, dev, port, lock, mem, poll, polls, alone,
                     pull, gen, main, stops, late>>
BY DEF Settles, Settle

(* The steps of a Stop.                                                     *)
StopMoves(s) ==
  /\ main # "exit"
  /\ sp[s] \notin {"no", "done"}
  /\ \E t \in {"test", "clear", "unregister", "graceful", "drain", "done"} :
       /\ sp' = [sp EXCEPT ![s] = t]
       /\ t = "graceful" => advert' = FALSE
       /\ t = "drain" => sp[s] = "graceful"
  /\ has' \in [Stoppers -> BOOLEAN] /\ held' \in BOOLEAN /\ running' \in BOOLEAN
  /\ \/ UNCHANGED serving /\ advert' \in {advert, FALSE}
     \/ /\ sp[s] \in {"graceful", "drain"}
        /\ serving' \in {"draining", "down"}
        /\ UNCHANGED advert
  /\ \/ UNCHANGED down
     \/ down' = [c \in Clients |-> IF rpc[c] # "none" /\ down[c] = "none"
                                   THEN "cut" ELSE down[c]]
  /\ UNCHANGED <<cli, cmd, tok, rpc, out, spent, serviceVars, main, late>>

LEMMA StopFacts ==
  ASSUME TypeOK, NEW s \in Stoppers, Stop(s)
  PROVE  StopMoves(s)
<1>1. CASE Swap(s)
  BY <1>1 DEF Stop, Swap, StopMoves, TypeOK, cliVars
<1>2. CASE Test(s)
  BY <1>2 DEF Stop, Test, StopMoves, TypeOK, cliVars
<1>3. CASE Clear(s)
  BY <1>3 DEF Stop, Clear, StopMoves, TypeOK, cliVars
<1>4. CASE Unregister(s)
  BY <1>4 DEF Stop, Unregister, StopMoves, TypeOK, cliVars
<1>5. CASE GracefulStop(s)
  BY <1>5 DEF Stop, GracefulStop, StopMoves, TypeOK, cliVars
<1>6. CASE Drained(s)
  BY <1>6 DEF Stop, Drained, Stopped, StopMoves, TypeOK, cliVars
<1>7. CASE Deadline(s)
  BY <1>7 DEF Stop, Deadline, Stopped, StopMoves, TypeOK
<1> QED
  BY <1>1, <1>2, <1>3, <1>4, <1>5, <1>6, <1>7 DEF Stop

(* What main does, and the goroutine that serves, up to the end.            *)
MainMoves ==
  \/ OpenDisplay \/ New \/ Start \/ Register \/ Serve \/ Signal \/ Close \/ Ended

LEMMA NextCases ==
  ASSUME Next
  PROVE  \/ MainMoves \/ PullerStep \/ Settles
         \/ \E c \in Clients : \/ main # "exit" /\ serving = "yes" /\ Dispatch(c)
                                  /\ UNCHANGED <<main, stops, late>>
                               \/ main # "exit" /\ HandlerStep(c)
                                  /\ UNCHANGED <<main, stops, late>>
                               \/ Answer(c) \/ Connect(c) \/ Client(c)
                               \/ Unavailable(c)
         \/ \E s \in Stoppers : Stop(s)
BY DEF Next, Boot, Agent, Handle, Exit, Panic, MainMoves, Settles

-----------------------------------------------------------------------------
(* The phases of main.                                                      *)

LEMMA BootNext ==
  ASSUME TypeOK, BootInv, Next
  PROVE  BootInv'
<1> USE GoroutineFacts DEF Early
<1>1. CASE MainMoves
  <2>1. CASE OpenDisplay \/ New
    BY <2>1 DEF OpenDisplay, New, BootInv, AdvertisedIsServed, handler, stops
  <2>2. CASE Start
    BY <2>2 DEF Start, BootInv, AdvertisedIsServed, serviceVars, handler
  <2>3. CASE Register
    BY <2>3 DEF Register, BootInv, AdvertisedIsServed, serviceVars, handler
  <2>4. CASE Serve
    BY <2>4 DEF Serve, BootInv, AdvertisedIsServed, serviceVars, handler
  <2>5. CASE Signal
    BY <2>5 DEF Signal, BootInv, AdvertisedIsServed, TypeOK
  <2>6. CASE Close
    BY <2>6 DEF Close, BootInv, AdvertisedIsServed, handler, stops
  <2>7. CASE Ended
    BY <2>7 DEF Ended, BootInv, AdvertisedIsServed
  <2> QED
    BY <1>1, <2>1, <2>2, <2>3, <2>4, <2>5, <2>6, <2>7 DEF MainMoves
<1>2. CASE PullerStep
  BY <1>2, PullerFacts DEF BootInv, AdvertisedIsServed, handler, stops
<1>3. ASSUME NEW c \in Clients, main # "exit", serving = "yes", Dispatch(c),
             UNCHANGED <<main, stops, late>>
      PROVE  BootInv'
  BY <1>3, DispatchFacts DEF BootInv, AdvertisedIsServed, stops
<1>4. ASSUME NEW c \in Clients, main # "exit", HandlerStep(c),
             UNCHANGED <<main, stops, late>>
      PROVE  BootInv'
  <2>1. Effect(c)
    BY <1>4, HandlerEffect
  <2> QED
    BY <1>4, <2>1 DEF Effect, BootInv, AdvertisedIsServed, stops
<1>5. ASSUME NEW c \in Clients, Answer(c)
      PROVE  BootInv'
  BY <1>5, AnswerFacts DEF BootInv, AdvertisedIsServed, TypeOK
<1>6. ASSUME NEW c \in Clients, Connect(c)
      PROVE  BootInv'
  BY <1>6, ConnectFacts
     DEF BootInv, AdvertisedIsServed, serviceVars, handler, stops
<1>7. ASSUME NEW c \in Clients, Client(c) \/ Unavailable(c)
      PROVE  BootInv'
  BY <1>7 DEF Client, Unavailable, BootInv, AdvertisedIsServed, serviceVars,
             handler, stops
<1>8. ASSUME NEW s \in Stoppers, Stop(s)
      PROVE  BootInv'
  <2>1. StopMoves(s)
    BY <1>8, StopFacts
  <2>2. main' = main /\ main \notin Early \cup {"register"}
    BY <2>1 DEF StopMoves, BootInv
  <2>3. \A q \in Stoppers : sp'[q] \in {"graceful", "drain"} => ~advert'
    <3>1. PICK t \in {"test", "clear", "unregister", "graceful", "drain", "done"} :
            /\ sp' = [sp EXCEPT ![s] = t]
            /\ t = "graceful" => advert' = FALSE
            /\ t = "drain" => sp[s] = "graceful"
      BY <2>1 DEF StopMoves
    <3>2. advert' \in {advert, FALSE}
      BY <2>1 DEF StopMoves
    <3> QED
      BY <3>1, <3>2 DEF BootInv, TypeOK
  <2>4. AdvertisedIsServed'
    BY <2>1 DEF StopMoves, BootInv, AdvertisedIsServed
  <2> QED
    BY <2>2, <2>3, <2>4 DEF BootInv
<1>9. CASE Settles
  BY <1>9, SettleFacts DEF BootInv, AdvertisedIsServed, handler, stops
<1> QED
  BY <1>1, <1>2, <1>3, <1>4, <1>5, <1>6, <1>7, <1>8, <1>9, NextCases

-----------------------------------------------------------------------------
(* A client's command and its answer.                                       *)

(* A step that does not touch d.                                            *)
LEMMA Untouched ==
  ASSUME NEW d, LateOf(d),
         rpc'[d] = rpc[d], out'[d] = out[d], h'[d] = h[d], down'[d] = down[d],
         late'[d] = late[d], tok'[d] = tok[d],
         gen' = gen \/ (gen \in Nat /\ gen' = gen + 1 /\ tok[d] \in Nat)
  PROVE  LateOf(d)'
BY DEF LateOf

LEMMA ClientInvNext ==
  ASSUME TypeOK, ClientInv, Next
  PROVE  ClientInv'
<1> SUFFICES ASSUME NEW d \in Clients
             PROVE  LateOf(d)'
  BY DEF ClientInv
<1>a. LateOf(d)
  BY DEF ClientInv
<1>b. gen \in Nat /\ tok[d] \in Nat
  BY DEF TypeOK
<1> USE GoroutineFacts
<1>1. CASE MainMoves
  <2>1. CASE Ended
    BY <1>a, <2>1 DEF Ended, LateOf
  <2>2. CASE ~Ended
    BY <1>1, <1>a, <2>2, Untouched
       DEF MainMoves, OpenDisplay, New, Start, Register, Serve, Signal, Close,
           serviceVars, handler, stops, cliVars
  <2> QED
    BY <2>1, <2>2
<1>2. CASE PullerStep
  BY <1>a, <1>2, PullerFacts, Untouched DEF cliVars, handler, stops
<1>3. ASSUME NEW c \in Clients, main # "exit", serving = "yes", Dispatch(c),
             UNCHANGED <<main, stops, late>>
      PROVE  LateOf(d)'
  <2>1. CASE d # c
    BY <1>a, <1>3, <2>1, DispatchFacts, Untouched
       DEF Sets, Answered, stops, TypeOK
  <2>2. CASE d = c
    <3>1. /\ rpc[d] # "none" /\ down[d] = "none" /\ h[d] = "none"
          /\ \/ tok[d] = gen /\ h'[d] = rpc[d] /\ down'[d] = down[d]
             \/ h'[d] = "none" /\ down'[d] = "error"
          /\ UNCHANGED <<tok, rpc, out, gen, late>>
      BY <1>3, <2>2, DispatchFacts DEF Sets, Answered, stops, TypeOK
    <3> QED
      BY <1>a, <1>b, <3>1 DEF LateOf
  <2> QED
    BY <2>1, <2>2
<1>4. ASSUME NEW c \in Clients, main # "exit", HandlerStep(c),
             UNCHANGED <<main, stops, late>>
      PROVE  LateOf(d)'
  <2>1. Effect(c)
    BY <1>4, HandlerEffect
  <2>2. CASE d # c
    BY <1>a, <1>b, <1>4, <2>1, <2>2, Untouched
       DEF Effect, Goes, GenMoves, Sets, Answered, stops, TypeOK
  <2>3. CASE d = c
    <3>1. h[d] # "none" /\ late'[d] = late[d]
      BY <1>4, <2>1, <2>3 DEF Effect
    <3> QED
      BY <1>a, <3>1 DEF LateOf
  <2> QED
    BY <2>2, <2>3
<1>5. ASSUME NEW c \in Clients, Answer(c)
      PROVE  LateOf(d)'
  <2>1. CASE d # c
    BY <1>a, <1>5, <2>1, AnswerFacts, Untouched
       DEF Sets, Answered, TypeOK
  <2>2. CASE d = c
    BY <1>a, <1>5, <2>2, AnswerFacts DEF LateOf
  <2> QED
    BY <2>1, <2>2
<1>6. ASSUME NEW c \in Clients, Connect(c)
      PROVE  LateOf(d)'
  <2>1. PICK t \in 1..gen, command \in Commands, method \in Methods :
          /\ Begins(c, t, command, method)
          /\ late' = [late EXCEPT ![c] = t < gen]
    BY <1>6, ConnectFacts
  <2>2. h[c] = "none" /\ UNCHANGED <<h, gen>>
    BY <1>6, ConnectFacts DEF serviceVars, handler
  <2>3. CASE d # c
    BY <1>a, <2>1, <2>2, <2>3, Untouched DEF Begins, TypeOK
  <2>4. CASE d = c
    <3>1. /\ h'[d] = "none" /\ down'[d] = "none" /\ out'[d] = "none"
          /\ tok'[d] = t /\ late'[d] = (t < gen) /\ gen' = gen
      BY <2>1, <2>2, <2>4 DEF Begins, TypeOK
    <3> QED
      BY <3>1 DEF LateOf
  <2> QED
    BY <2>3, <2>4
<1>7. ASSUME NEW c \in Clients, Client(c)
      PROVE  LateOf(d)'
  <2>1. /\ Ends(c) \/ GoesOn(c) \/ UNCHANGED <<tok, rpc, down, out>>
        /\ UNCHANGED <<h, gen, late>>
    BY <1>7, ClientEffect DEF Client, serviceVars, handler
  <2>2. CASE d # c \/ UNCHANGED <<tok, rpc, down, out>>
    BY <1>a, <2>1, <2>2, Untouched DEF Ends, GoesOn, TypeOK
  <2>3. CASE d = c /\ Ends(c)
    <3>1. /\ rpc'[d] = "none" /\ down'[d] = "none"
          /\ out'[d] \in {"error", "timeout", down[d]}
      BY <2>3 DEF Ends, TypeOK
    <3> QED
      BY <1>a, <2>1, <3>1 DEF LateOf
  <2>4. CASE d = c /\ GoesOn(c)
    <3>1. /\ rpc[d] = "LoadImage" /\ down[d] = "ok"
          /\ rpc'[d] = "Refresh" /\ down'[d] = "none"
          /\ UNCHANGED <<tok, out>>
      BY <2>4 DEF GoesOn, TypeOK
    <3> QED
      BY <1>a, <2>1, <3>1 DEF LateOf
  <2> QED
    BY <2>1, <2>2, <2>3, <2>4
<1>8. ASSUME NEW c \in Clients, Unavailable(c)
      PROVE  LateOf(d)'
  <2>1. /\ rpc[c] # "none" /\ down[c] = "none" /\ h[c] = "none"
        /\ down' = [down EXCEPT ![c] = "cut"]
        /\ UNCHANGED <<tok, rpc, out, h, gen, late>>
    BY <1>8 DEF Unavailable, serviceVars, handler
  <2>2. CASE d # c
    BY <1>a, <2>1, <2>2, Untouched DEF TypeOK
  <2>3. CASE d = c
    <3>1. down'[d] = "cut"
      BY <2>1, <2>3 DEF TypeOK
    <3> QED
      BY <1>a, <2>1, <2>3, <3>1 DEF LateOf
  <2> QED
    BY <2>2, <2>3
<1>9. ASSUME NEW s \in Stoppers, Stop(s)
      PROVE  LateOf(d)'
  <2>1. StopMoves(s)
    BY <1>9, StopFacts
  <2>2. UNCHANGED <<tok, rpc, out, h, gen, late>>
    BY <2>1 DEF StopMoves, serviceVars, handler
  <2>3. down'[d] \in {down[d], "cut"}
    BY <2>1 DEF StopMoves
  <2> QED
    BY <1>a, <2>2, <2>3 DEF LateOf
<1>10. CASE Settles
  BY <1>a, <1>10, SettleFacts, Untouched DEF cliVars, handler, stops
<1> QED
  BY <1>1, <1>2, <1>3, <1>4, <1>5, <1>6, <1>7, <1>8, <1>9, <1>10, NextCases

-----------------------------------------------------------------------------
(* No token is drawn but by a command.                                      *)

LEMMA PendingFinite ==
  ASSUME TypeOK
  PROVE  /\ IsFiniteSet(Pending) /\ Cardinality(Pending) \in Nat
         /\ gen \in Nat /\ spent \in Nat
<1>1. IsFiniteSet(Clients) /\ Pending \subseteq Clients
  BY CliAssumption DEF Pending
<1>2. IsFiniteSet(Pending)
  BY <1>1, FS_Subset
<1>3. spent \in 0..Budget /\ gen \in 1..(spent + 1)
  BY DEF TypeOK
<1>4. spent \in Nat /\ gen \in Nat
  BY <1>3, CliAssumption
<1> QED
  BY <1>2, <1>4, FS_CardinalityType

LEMMA PendingShrinks ==
  ASSUME TypeOK, GenInv, Pending' \subseteq Pending, gen' = gen, spent' = spent
  PROVE  GenInv'
<1>1. Cardinality(Pending') <= Cardinality(Pending) /\ Cardinality(Pending') \in Nat
  BY PendingFinite, FS_Subset, FS_CardinalityType
<1>2. gen + Cardinality(Pending') <= spent + 1
  BY <1>1, PendingFinite DEF GenInv
<1> QED
  BY <1>2 DEF GenInv

LEMMA PendingDraws ==
  ASSUME TypeOK, GenInv, NEW c \in Pending, Pending' \subseteq Pending \ {c},
         gen' = gen + 1, spent' = spent
  PROVE  GenInv'
<1>1. /\ Cardinality(Pending \ {c}) = Cardinality(Pending) - 1
      /\ IsFiniteSet(Pending \ {c})
  BY PendingFinite, FS_RemoveElement
<1>2. /\ Cardinality(Pending') <= Cardinality(Pending \ {c})
      /\ Cardinality(Pending') \in Nat
  BY <1>1, FS_Subset, FS_CardinalityType
<1>3. gen + 1 + Cardinality(Pending') <= spent + 1
  BY <1>1, <1>2, PendingFinite DEF GenInv
<1> QED
  BY <1>3 DEF GenInv

LEMMA PendingGrows ==
  ASSUME TypeOK, GenInv, NEW c \in Clients, Pending' \subseteq Pending \cup {c},
         gen' = gen, spent' = spent + 1
  PROVE  GenInv'
<1>1. /\ Cardinality(Pending \cup {c}) <= Cardinality(Pending) + 1
      /\ IsFiniteSet(Pending \cup {c})
  BY PendingFinite, FS_AddElement
<1>2. /\ Cardinality(Pending') <= Cardinality(Pending \cup {c})
      /\ Cardinality(Pending') \in Nat /\ Cardinality(Pending \cup {c}) \in Nat
  BY <1>1, FS_Subset, FS_CardinalityType
<1>3. gen + Cardinality(Pending') <= spent + 1 + 1
  BY <1>1, <1>2, PendingFinite DEF GenInv
<1> QED
  BY <1>3 DEF GenInv

LEMMA GenNext ==
  ASSUME TypeOK, GenInv, Next
  PROVE  GenInv'
<1> USE GoroutineFacts
<1>1. CASE MainMoves
  <2>1. CASE Ended
    <3>1. Pending' = {} /\ gen' = gen /\ spent' = spent
      BY <2>1 DEF Ended, Pending
    <3> QED
      BY <3>1, PendingShrinks
  <2>2. CASE ~Ended
    <3>1. UNCHANGED <<h, rpc, down, gen, spent>>
      BY <1>1, <2>2 DEF MainMoves, OpenDisplay, New, Start, Register, Serve,
                        Signal, Close, serviceVars, handler, cliVars
    <3> QED
      BY <3>1, PendingShrinks DEF Pending
  <2> QED
    BY <2>1, <2>2
<1>2. CASE PullerStep
  <2>1. UNCHANGED <<h, rpc, down, gen, spent>>
    BY <1>2, PullerFacts DEF cliVars, handler
  <2> QED
    BY <2>1, PendingShrinks DEF Pending
<1>3. ASSUME NEW c \in Clients, Dispatch(c)
      PROVE  GenInv'
  <2>1. Pending' \subseteq Pending
    BY <1>3, DispatchFacts DEF Sets, Answered, Pending, TypeOK
  <2> QED
    BY <1>3, <2>1, DispatchFacts, PendingShrinks
<1>4. ASSUME NEW c \in Clients, HandlerStep(c)
      PROVE  GenInv'
  <2>1. Effect(c)
    BY <1>4, HandlerEffect
  <2>2. Pending' \subseteq Pending /\ (gen' # gen => c \in Pending /\ c \notin Pending')
    BY <2>1 DEF Effect, Goes, GenMoves, Sets, Answered, Pending, TypeOK
  <2>3. spent' = spent /\ (gen' = gen \/ gen' = gen + 1)
    BY <2>1 DEF Effect, Goes, GenMoves
  <2> QED
    BY <2>2, <2>3, PendingShrinks, PendingDraws
<1>5. ASSUME NEW c \in Clients, Answer(c)
      PROVE  GenInv'
  <2>1. Pending' \subseteq Pending
    BY <1>5, AnswerFacts DEF Sets, Answered, Pending, TypeOK
  <2> QED
    BY <1>5, <2>1, AnswerFacts, PendingShrinks
<1>6. ASSUME NEW c \in Clients, Connect(c)
      PROVE  GenInv'
  <2>1. PICK t \in 1..gen, command \in Commands, method \in Methods :
          Begins(c, t, command, method)
    BY <1>6, ConnectFacts
  <2>2. Pending' \subseteq Pending \cup {c}
    BY <1>6, <2>1, ConnectFacts DEF Begins, serviceVars, handler, Pending,
                                      TypeOK
  <2> QED
    BY <1>6, <2>1, <2>2, ConnectFacts, PendingGrows DEF Begins, serviceVars
<1>7. ASSUME NEW c \in Clients, Client(c)
      PROVE  GenInv'
  <2>1. /\ Ends(c) \/ GoesOn(c) \/ UNCHANGED <<tok, rpc, down, out>>
        /\ UNCHANGED <<h, gen, spent>>
    BY <1>7, ClientEffect DEF Client, serviceVars, handler
  <2>2. Pending' \subseteq Pending
    BY <2>1 DEF Ends, GoesOn, Pending, TypeOK
  <2> QED
    BY <2>1, <2>2, PendingShrinks
<1>8. ASSUME NEW c \in Clients, Unavailable(c)
      PROVE  GenInv'
  <2>1. /\ Pending' \subseteq Pending
        /\ UNCHANGED <<gen, spent>>
    BY <1>8 DEF Unavailable, serviceVars, handler, Pending, TypeOK
  <2> QED
    BY <2>1, PendingShrinks
<1>9. ASSUME NEW s \in Stoppers, Stop(s)
      PROVE  GenInv'
  <2>1. StopMoves(s)
    BY <1>9, StopFacts
  <2>2. /\ Pending' \subseteq Pending
        /\ UNCHANGED <<gen, spent>>
    BY <2>1 DEF StopMoves, serviceVars, handler, Pending, TypeOK
  <2> QED
    BY <2>2, PendingShrinks
<1>10. CASE Settles
  <2>1. UNCHANGED <<h, rpc, down, gen, spent>>
    BY <1>10, SettleFacts DEF cliVars, handler
  <2> QED
    BY <2>1, PendingShrinks DEF Pending
<1> QED
  BY <1>1, <1>2, <1>3, <1>4, <1>5, <1>6, <1>7, <1>8, <1>9, <1>10, NextCases

-----------------------------------------------------------------------------
(* Types.  The bound of gen is GenInv's.                                    *)

LEMMA Below ==
  ASSUME NEW g \in Nat \ {0}, NEW n \in Nat, NEW m \in Nat, g + n <= m + 1
  PROVE  g \in 1..(m + 1)
OBVIOUS

LEMMA GenBound ==
  ASSUME GenInv', spent' \in Nat, gen' \in Nat \ {0}
  PROVE  gen' \in 1..(spent' + 1)
<1>1. IsFiniteSet(Clients) /\ Pending' \subseteq Clients
  BY CliAssumption DEF Pending
<1>2. Cardinality(Pending') \in Nat
  BY <1>1, FS_Subset, FS_CardinalityType
<1>3. gen' + Cardinality(Pending') <= spent' + 1
  BY DEF GenInv
<1> QED
  BY <1>2, <1>3, Below

LEMMA TypeNext ==
  ASSUME TypeOK, GenInv', spent' \in 0..Budget, gen' \in Nat \ {0}, Next
  PROVE  TypeOK'
<1> DEFINE ServiceTypes ==
             /\ h \in [Clients -> Methods \cup {"none", "recv", "load", "answer"}]
             /\ lock \in Users \cup {NoOne}
             /\ dev \in BOOLEAN /\ port \in BOOLEAN /\ pull \in BOOLEAN
             /\ lastError \in BOOLEAN
             /\ poll \in {"idle", "load", "refresh"} /\ polls \in 0..Polls
             /\ alone \in [Clients -> BOOLEAN]
           ClientTypes ==
             /\ cli \in [Clients -> {"ready", "send", "wait"}]
             /\ cmd \in [Clients -> Commands]
             /\ tok \in [Clients -> Nat]
             /\ rpc \in [Clients -> Methods \cup {"none"}]
             /\ down \in [Clients -> Answers \cup {"none"}]
             /\ out \in [Clients -> Answers \cup {"none", "timeout"}]
             /\ late \in [Clients -> BOOLEAN]
           MainTypes ==
             /\ main \in {"boot", "new", "start", "register", "run", "stop",
                          "close", "exit"}
             /\ held \in BOOLEAN /\ running \in BOOLEAN
             /\ serving \in {"no", "bound", "yes", "draining", "down"}
             /\ sp \in [Stoppers -> {"no", "ask", "test", "clear", "unregister",
                                     "graceful", "drain", "done"}]
             /\ has \in [Stoppers -> BOOLEAN]
             /\ advert \in BOOLEAN
<1>a. ServiceTypes /\ ClientTypes /\ MainTypes
  BY DEF TypeOK
<1>b. ASSUME ServiceTypes', ClientTypes', MainTypes'
      PROVE  TypeOK'
  <2>1. gen' \in 1..(spent' + 1)
    <3>1. spent' \in Nat
      BY CliAssumption
    <3> QED
      BY <3>1, GenBound
  <2> QED
    BY <1>b, <2>1 DEF TypeOK
<1> USE GoroutineFacts, NameFacts
<1>1. CASE MainMoves
  <2>1. CASE Ended
    <3>1. ServiceTypes'
      BY <1>a, <2>1 DEF Ended, panel
    <3>2. ClientTypes'
      BY <1>a, <2>1 DEF Ended
    <3>3. MainTypes'
      BY <1>a, <2>1 DEF Ended
    <3> QED
      BY <1>b, <3>1, <3>2, <3>3
  <2>2. CASE ~Ended
    <3>1. ClientTypes'
      BY <1>1, <1>a, <2>2
         DEF MainMoves, OpenDisplay, New, Start, Register, Serve, Signal, Close,
             cliVars
    <3>2. ServiceTypes'
      BY <1>1, <1>a, <2>2, ServerAssumption
         DEF MainMoves, OpenDisplay, New, Start, Register, Serve, Signal, Close,
             serviceVars, handler, panel
    <3>3. MainTypes'
      <4>1. CASE Start
        BY <1>a, <4>1 DEF Start
      <4>2. CASE Register \/ Serve
        BY <1>a, <4>2, ServerAssumption DEF Register, Serve
      <4>3. CASE OpenDisplay \/ New
        BY <1>a, <4>3 DEF OpenDisplay, New, stops
      <4>4. CASE Signal
        BY <1>a, <4>4 DEF Signal
      <4>5. CASE Close
        BY <1>a, <4>5 DEF Close, stops
      <4> QED
        BY <1>1, <2>2, <4>1, <4>2, <4>3, <4>4, <4>5 DEF MainMoves
    <3> QED
      BY <1>b, <3>1, <3>2, <3>3
  <2> QED
    BY <2>1, <2>2
<1>2. CASE PullerStep
  <2>1. ClientTypes' /\ ServiceTypes' /\ MainTypes'
    BY <1>2, <1>a, PullerFacts DEF cliVars, handler, stops
  <2> QED
    BY <1>b, <2>1
<1>3. ASSUME NEW c \in Clients, Dispatch(c), UNCHANGED <<main, stops, late>>
      PROVE  TypeOK'
  <2>1. ServiceTypes' /\ down' \in [Clients -> Answers \cup {"none"}]
    BY <1>3, <1>a, DispatchFacts DEF Sets, Answered, panel
  <2>2. ClientTypes' /\ MainTypes'
    BY <1>3, <1>a, <2>1, DispatchFacts DEF stops
  <2> QED
    BY <1>b, <2>1, <2>2
<1>4. ASSUME NEW c \in Clients, HandlerStep(c), UNCHANGED <<main, stops, late>>
      PROVE  TypeOK'
  <2>1. Effect(c)
    BY <1>4, HandlerEffect
  <2>2. /\ h' \in [Clients -> Methods \cup {"none", "recv", "load", "answer"}]
        /\ down' \in [Clients -> Answers \cup {"none"}]
    <3>1. CASE UNCHANGED <<h, down>>
      BY <1>a, <3>1
    <3>2. CASE UNCHANGED down /\ \E s \in {"recv", "load"} : Sets(c, s)
      BY <1>a, <3>2 DEF Sets
    <3>3. CASE \E a \in {"ok", "error"} : Answered(c, a)
      BY <1>a, <3>3 DEF Answered, Sets
    <3>4. CASE UNCHANGED down /\ Sets(c, "answer")
      BY <1>a, <3>4 DEF Sets
    <3> QED
      BY <2>1, <3>1, <3>2, <3>3, <3>4 DEF Effect, Goes
  <2>3. ServiceTypes'
    BY <1>a, <2>1, <2>2 DEF Effect
  <2>4. ClientTypes' /\ MainTypes'
    BY <1>4, <1>a, <2>1, <2>2 DEF Effect, stops
  <2> QED
    BY <1>b, <2>3, <2>4
<1>5. ASSUME NEW c \in Clients, Answer(c)
      PROVE  TypeOK'
  <2>1. ServiceTypes' /\ ClientTypes' /\ MainTypes'
    BY <1>5, <1>a, AnswerFacts DEF Sets, Answered, panel
  <2> QED
    BY <1>b, <2>1
<1>6. ASSUME NEW c \in Clients, Connect(c)
      PROVE  TypeOK'
  <2>1. PICK t \in 1..gen, command \in Commands, method \in Methods :
          /\ Begins(c, t, command, method)
          /\ late' = [late EXCEPT ![c] = t < gen]
    BY <1>6, ConnectFacts
  <2>2. t \in Nat
    BY DEF TypeOK
  <2>3. ClientTypes'
    BY <1>a, <2>1, <2>2 DEF Begins
  <2>4. UNCHANGED <<serviceVars, main, stops>>
    BY <1>6, ConnectFacts
  <2>5. ServiceTypes' /\ MainTypes'
    BY <1>a, <2>4 DEF serviceVars, handler, panel, stops
  <2> QED
    BY <1>b, <2>3, <2>5
<1>7. ASSUME NEW c \in Clients, Client(c)
      PROVE  TypeOK'
  <2>1. ClientTypes'
    BY <1>7, <1>a, ClientEffect DEF Client, Ends, GoesOn, Methods
  <2>2. ServiceTypes' /\ MainTypes'
    BY <1>7, <1>a DEF Client, serviceVars, handler, panel, stops
  <2> QED
    BY <1>b, <2>1, <2>2
<1>8. ASSUME NEW c \in Clients, Unavailable(c)
      PROVE  TypeOK'
  <2>1. ClientTypes' /\ ServiceTypes' /\ MainTypes'
    BY <1>8, <1>a DEF Unavailable, serviceVars, handler, panel, stops
  <2> QED
    BY <1>b, <2>1
<1>9. ASSUME NEW s \in Stoppers, Stop(s)
      PROVE  TypeOK'
  <2>1. StopMoves(s)
    BY <1>9, StopFacts
  <2>2. ClientTypes' /\ ServiceTypes'
    BY <1>a, <2>1 DEF StopMoves, serviceVars, handler, panel
  <2>3. MainTypes'
    <3>1. sp' \in [Stoppers -> {"no", "ask", "test", "clear", "unregister",
                                "graceful", "drain", "done"}]
      BY <1>a, <2>1 DEF StopMoves
    <3>2. main' = main /\ serving' \in {serving, "draining", "down"}
          /\ advert' \in {advert, FALSE}
      BY <2>1 DEF StopMoves
    <3>3. has' \in [Stoppers -> BOOLEAN] /\ held' \in BOOLEAN /\ running' \in BOOLEAN
      BY <2>1 DEF StopMoves
    <3> QED
      BY <1>a, <3>1, <3>2, <3>3
  <2> QED
    BY <1>b, <2>2, <2>3
<1>10. CASE Settles
  <2>1. ClientTypes' /\ ServiceTypes' /\ MainTypes'
    BY <1>10, <1>a, SettleFacts DEF cliVars, handler, stops
  <2> QED
    BY <1>b, <2>1
<1> QED
  BY <1>1, <1>2, <1>3, <1>4, <1>5, <1>6, <1>7, <1>8, <1>9, <1>10, NextCases

LEMMA SpentNext ==
  ASSUME TypeOK, Next
  PROVE  spent' \in 0..Budget /\ gen' \in Nat \ {0}
<1>1. spent \in 0..Budget /\ gen \in Nat \ {0} /\ Budget \in Nat
  BY CliAssumption DEF TypeOK
<1>2. CASE \E c \in Clients : Connect(c)
  <2>1. spent < Budget /\ spent' = spent + 1 /\ gen' = gen
    BY <1>2, ConnectFacts DEF Begins, serviceVars
  <2> QED
    BY <1>1, <2>1
<1>3. CASE \E c \in Clients : HandlerStep(c)
  <2>1. spent' = spent /\ (gen' = gen \/ gen' = gen + 1)
    BY <1>3, HandlerEffect DEF Effect, Goes, GenMoves
  <2> QED
    BY <1>1, <2>1
<1>4. CASE ~(\E c \in Clients : Connect(c) \/ HandlerStep(c))
  <2>1. CASE MainMoves
    BY <1>1, <2>1 DEF MainMoves, OpenDisplay, New, Start, Register, Serve,
                      Signal, Close, Ended, serviceVars, cliVars
  <2>2. CASE PullerStep
    BY <1>1, <2>2, PullerFacts DEF cliVars
  <2>3. CASE \E c \in Clients : Dispatch(c)
    BY <1>1, <2>3, DispatchFacts
  <2>4. CASE \E c \in Clients : Answer(c)
    BY <1>1, <2>4, AnswerFacts
  <2>5. CASE \E c \in Clients : Client(c)
    BY <1>1, <2>5, ClientEffect DEF Client, serviceVars
  <2>6. CASE \E c \in Clients : Unavailable(c)
    BY <1>1, <2>6 DEF Unavailable, serviceVars
  <2>7. CASE \E s \in Stoppers : Stop(s)
    BY <1>1, <2>7, StopFacts DEF StopMoves, serviceVars
  <2>8. CASE Settles
    BY <1>1, <2>8, SettleFacts DEF cliVars
  <2> QED
    BY <1>4, <2>1, <2>2, <2>3, <2>4, <2>5, <2>6, <2>7, <2>8, NextCases
<1> QED
  BY <1>2, <1>3, <1>4

-----------------------------------------------------------------------------
Inv == TypeOK /\ BootInv /\ ClientInv /\ GenInv

LEMMA InvInit == Init => Inv
<1> SUFFICES ASSUME Init
             PROVE  Inv
  OBVIOUS
<1>1. Command("none") \in Commands
  <2>1. "none" \in Names
    BY DEF Names
  <2> QED
    BY <2>1, PlainCommand
<1>2. spent = 0 /\ gen = 1 /\ spent \in 0..Budget
  BY CliAssumption DEF Init, CliInit, ServiceInit
<1>3. TypeOK
  <2>1. gen \in 1..(spent + 1)
    BY <1>2
  <2>2. /\ cli \in [Clients -> {"ready", "send", "wait"}]
        /\ cmd \in [Clients -> Commands]
        /\ tok \in [Clients -> Nat]
        /\ rpc \in [Clients -> Methods \cup {"none"}]
        /\ down \in [Clients -> Answers \cup {"none"}]
        /\ out \in [Clients -> Answers \cup {"none", "timeout"}]
    BY <1>1 DEF Init, CliInit
  <2>3. /\ h \in [Clients -> Methods \cup {"none", "recv", "load", "answer"}]
        /\ lock \in Users \cup {NoOne}
        /\ dev \in BOOLEAN /\ port \in BOOLEAN /\ pull \in BOOLEAN
        /\ lastError \in BOOLEAN
        /\ poll \in {"idle", "load", "refresh"}
        /\ alone \in [Clients -> BOOLEAN]
    BY DEF Init, ServiceInit
  <2>5. polls \in 0..Polls
    BY ServiceAssumption DEF Init, ServiceInit
  <2>4. /\ late \in [Clients -> BOOLEAN]
        /\ main = "boot" /\ serving = "no"
        /\ held \in BOOLEAN /\ running \in BOOLEAN /\ advert \in BOOLEAN
        /\ sp \in [Stoppers -> {"no", "ask", "test", "clear", "unregister",
                                "graceful", "drain", "done"}]
        /\ has \in [Stoppers -> BOOLEAN]
    BY DEF Init
  <2> QED
    BY <1>2, <2>1, <2>2, <2>3, <2>4, <2>5 DEF TypeOK
<1>4. BootInv
  BY DEF Init, CliInit, ServiceInit, BootInv, AdvertisedIsServed, Early
<1>5. ClientInv
  BY DEF Init, CliInit, ServiceInit, ClientInv, LateOf
<1>6. Pending = {}
  BY DEF Init, CliInit, ServiceInit, Pending
<1>7. GenInv
  BY <1>2, <1>6, FS_EmptySet DEF GenInv
<1> QED
  BY <1>3, <1>4, <1>5, <1>7 DEF Inv

LEMMA InvNext ==
  ASSUME Inv, [Next]_vars
  PROVE  Inv'
<1>1. CASE Next
  <2>1. BootInv' /\ ClientInv' /\ GenInv'
    BY <1>1, BootNext, ClientInvNext, GenNext DEF Inv
  <2>2. TypeOK'
    BY <1>1, <2>1, SpentNext, TypeNext DEF Inv
  <2> QED
    BY <2>1, <2>2 DEF Inv
<1>2. CASE UNCHANGED vars
  BY <1>2 DEF vars, cliVars, serviceVars, handler, panel, stops, Inv,
             TypeOK, BootInv, AdvertisedIsServed, ClientInv, LateOf, GenInv,
             Pending
<1> QED
  BY <1>1, <1>2

(* The phases of main, the answers of clients and the tokens drawn hold   *)
(* together throughout.                                                     *)
THEOREM InvHolds == Spec => []Inv
BY InvInit, InvNext, PTL DEF Spec

(* Every variable of the agent and its clients keeps to its type, and every *)
(* generation of tokens is a command's.                                     *)
THEOREM TypeCorrect == Spec => []TypeOK
<1>1. Inv => TypeOK
  BY DEF Inv
<1> QED
  BY <1>1, InvHolds, PTL

(* Rotate locks out at once whoever holds an old token, though the server   *)
(* it stops goes on serving for a while.                                    *)
THEOREM OldTokens == Spec => []OldTokenRefused
<1>1. Inv => OldTokenRefused
  BY DEF Inv, ClientInv, LateOf, OldTokenRefused
<1> QED
  BY <1>1, InvHolds, PTL

(* No Stop, however many run, leaves a record on the LAN of an agent that   *)
(* takes no calls.                                                          *)
THEOREM RecordServed == Spec => []AdvertisedIsServed
<1>1. Inv => AdvertisedIsServed
  BY DEF Inv, BootInv
<1> QED
  BY <1>1, InvHolds, PTL
=============================================================================
