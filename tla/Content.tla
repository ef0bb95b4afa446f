------------------------------ MODULE Content ------------------------------
(***************************************************************************)
(* The content server (signagecontent, signage-content): devices.json is   *)
(* loaded into the store, GetFrame calls are answered from the cache or by *)
(* a renderer with one browser behind a mutex, and a signal drains the     *)
(* server, closes the renderer and ends the process.                       *)
(*                                                                         *)
(* Time is counted in ticks.  To hash a frame and to store it takes none.  *)
(* A frame is the device whose page it shows, its size, and how long ago   *)
(* the page was fetched; the page may be other than that by now.           *)
(***************************************************************************)
EXTENDS Integers, Sequences

CONSTANTS
  Devices,    \* ids a device may give
  Requests,   \* slots of GetFrame calls under way
  Hints,      \* the <<width, height>> hints of the panel of each device
  Docs,       \* what devices.json may hold: sequences of configurations
  TTL,        \* renderTTL
  RenderMax,  \* the deadline of RenderURL
  Empty,      \* ""
  NoOne,      \* nobody holds r.mu
  NoFrame,    \* neither cached nor rendered
  NoJob       \* a slot without a call

Config == [id : Devices \cup {Empty}, url : BOOLEAN, size : Int \X Int]

ASSUME ContentAssumption ==
  /\ Empty \notin Devices
  /\ Hints \in [Devices -> SUBSET (Int \X Int)]
  /\ Docs \subseteq Seq(Config)
  /\ TTL \in Nat \ {0} /\ RenderMax \in Nat
  /\ NoOne \notin Requests
  /\ NoFrame \notin [dev : Devices, size : Int \X Int, seen : Nat]
  /\ NoJob \notin [dev : Devices, size : Int \X Int]

(* Ages are counted up to Old only, beyond any bound the properties        *)
(* mention.                                                                *)
Old == TTL + RenderMax

VARIABLES
  main,    \* where main stands
  store,   \* memStore.devices: the size of each registered device
  cache,   \* Service.cache: frame by key
  age,     \* clock() - renderedAt of each cached frame
  pc,      \* where each GetFrame stands
  job,     \* its device, and width and height to render at
  got,     \* the frame it rendered or found
  lock,    \* who holds r.mu
  busy     \* how long the render under way has been going on

server == <<main, store>>
calls  == <<cache, age, pc, job, got, lock, busy>>
vars == <<server, calls>>

Frame   == [dev : Devices, size : Int \X Int, seen : 0..Old]
Renders(s) == s[1] > 0 /\ s[2] > 0   \* a size RenderURL accepts

-----------------------------------------------------------------------------
(* Mutated: the id is not looked at.                                       *)
ValidNoId(cfg) == cfg.url /\ Renders(cfg.size)

(* Put refuses a configuration without id, url or a positive size.         *)
Valid(cfg) == cfg.id # Empty /\ cfg.url /\ Renders(cfg.size)

Ids(doc) == {doc[i].id : i \in DOMAIN doc}

(* LoadStoreFromJSON: of two configurations with one id the later stays.   *)
LoadStore(doc) ==
  [d \in Ids(doc) |->
     LET last == CHOOSE i \in DOMAIN doc :
                   /\ doc[i].id = d
                   /\ \A j \in DOMAIN doc : doc[j].id = d => j <= i
     IN  doc[last].size]

Init ==
  /\ main = "boot"
  /\ store = [d \in {} |-> <<0, 0>>]
  /\ cache = [d \in Devices |-> NoFrame]
  /\ age = [d \in Devices |-> 0]
  /\ pc = [r \in Requests |-> "idle"]
  /\ job = [r \in Requests |-> NoJob]
  /\ got = [r \in Requests |-> NoFrame]
  /\ lock = NoOne
  /\ busy = 0

(* main, up to serving: a bad devices.json, no Chromium, no certificate or *)
(* a port in use are fatal.                                                *)
Load ==
  /\ main = "boot"
  /\ \/ \E doc \in Docs :
          /\ \A i \in DOMAIN doc : Valid(doc[i])
          /\ store' = LoadStore(doc)
          /\ main' = "warmup"
     \/ main' = "exit" /\ UNCHANGED store
  /\ UNCHANGED calls

Warmup ==
  /\ main = "warmup"
  /\ main' \in {"start", "exit"}
  /\ UNCHANGED <<store, calls>>

Start ==
  /\ main = "start"
  /\ main' \in {"serving", "exit"}
  /\ UNCHANGED <<store, calls>>

-----------------------------------------------------------------------------
(* GetFrame.                                                               *)

(* Mutated: one hint is enough.                                            *)
RenderSizeAnyHint(d, hint) ==
  IF hint[1] > 0 \/ hint[2] > 0 THEN hint ELSE store[d]

(* The hint counts if both numbers do, else the configured size.           *)
RenderSize(d, hint) == IF hint[1] > 0 /\ hint[2] > 0 THEN hint ELSE store[d]

(* A call comes in; one for a device that is not registered is answered    *)
(* NotFound and changes nothing.                                           *)
GetFrame(r, d, hint) ==
  /\ main = "serving"
  /\ pc[r] = "idle"
  /\ d \in DOMAIN store
  /\ pc' = [pc EXCEPT ![r] = "lookup"]
  /\ job' = [job EXCEPT ![r] = [dev |-> d, size |-> RenderSize(d, hint)]]
  /\ UNCHANGED <<server, cache, age, got, lock, busy>>

(* Mutated: the page is the key, and all pages are taken for one.          *)
KeyShared(r) == CHOOSE k \in Devices : TRUE

Key(r) == job[r].dev

Cached(r) == cache[Key(r)] # NoFrame /\ age[Key(r)] < TTL

(* Mutated: a hit makes the frame fresh again.                             *)
CacheHitTouch(r) ==
  /\ pc[r] = "lookup"
  /\ Cached(r)
  /\ got' = [got EXCEPT ![r] = cache[Key(r)]]
  /\ age' = [age EXCEPT ![Key(r)] = 0]
  /\ pc' = [pc EXCEPT ![r] = "answer"]
  /\ UNCHANGED <<server, cache, job, lock, busy>>

CacheHit(r) ==
  /\ pc[r] = "lookup"
  /\ Cached(r)
  /\ got' = [got EXCEPT ![r] = cache[Key(r)]]
  /\ pc' = [pc EXCEPT ![r] = "answer"]
  /\ UNCHANGED <<server, cache, age, job, lock, busy>>

(* No frame, or an old one: RenderURL, which waits for its mutex.  It      *)
(* would refuse a size that is not positive.                               *)
CacheMiss(r) ==
  /\ pc[r] = "lookup"
  /\ ~Cached(r)
  /\ pc' = [pc EXCEPT ![r] = IF Renders(job[r].size) THEN "wait" ELSE "refused"]
  /\ UNCHANGED <<server, cache, age, job, got, lock, busy>>

(* sync.Mutex keeps no order: a newcomer may be faster than one who waits. *)
Lock(r) ==
  /\ pc[r] = "wait"
  /\ lock = NoOne
  /\ lock' = r
  /\ pc' = [pc EXCEPT ![r] = "render"]
  /\ UNCHANGED <<server, cache, age, job, got, busy>>

Unlock == lock' = NoOne /\ busy' = 0

(* The screenshot: of the page as it was when it was fetched, in the worst *)
(* case at the beginning.  Others may render before it is in the cache.    *)
RenderOK(r) ==
  /\ pc[r] = "render"
  /\ got' = [got EXCEPT ![r] = [dev |-> job[r].dev, size |-> job[r].size,
                               seen |-> busy]]
  /\ Unlock
  /\ pc' = [pc EXCEPT ![r] = "store"]
  /\ UNCHANGED <<server, cache, age, job>>

(* Chromium fails, or the deadline passes.  The caller's context is not    *)
(* looked at: a caller that has gone changes nothing here.                 *)
RenderFails(r) ==
  /\ pc[r] = "render"
  /\ Unlock
  /\ pc' = [pc EXCEPT ![r] = "idle"]
  /\ job' = [job EXCEPT ![r] = NoJob]
  /\ UNCHANGED <<server, cache, age, got>>

StoreFrame(r) ==
  /\ pc[r] = "store"
  /\ cache' = [cache EXCEPT ![Key(r)] = got[r]]
  /\ age' = [age EXCEPT ![Key(r)] = 0]
  /\ pc' = [pc EXCEPT ![r] = "answer"]
  /\ UNCHANGED <<server, job, got, lock, busy>>

(* The frame, or "unchanged" if the caller has it, goes to the caller.     *)
Reply(r) ==
  /\ pc[r] = "answer"
  /\ pc' = [pc EXCEPT ![r] = "idle"]
  /\ job' = [job EXCEPT ![r] = NoJob]
  /\ got' = [got EXCEPT ![r] = NoFrame]
  /\ UNCHANGED <<server, cache, age, lock, busy>>

(* What takes no time once it can be done.                                 *)
Prompt(r) == CacheHit(r) \/ CacheMiss(r) \/ StoreFrame(r) \/ Reply(r)

Step(r) == Prompt(r) \/ Lock(r) \/ RenderOK(r) \/ RenderFails(r)

-----------------------------------------------------------------------------
(* Shutdown.                                                               *)

Signal ==
  /\ main = "serving"
  /\ main' = "draining"
  /\ UNCHANGED <<store, calls>>

(* Stop returns when no call is under way, or at its deadline, which may   *)
(* be over before a render is; it cuts the connections then.  The calls    *)
(* that are left go on until main returns, having closed the renderer.     *)
Stopped ==
  /\ main = "draining"
  /\ main' = "exit"
  /\ UNCHANGED <<store, calls>>

-----------------------------------------------------------------------------
(* Mutated: a page may take for ever.                                      *)
RenderOverNever(r) == FALSE

(* The deadline counts from the moment the mutex is had.                   *)
RenderOver(r) == pc[r] = "render" /\ busy >= RenderMax

Upto(n, max) == IF n < max THEN n + 1 ELSE max

(* Time passes, but not beyond the deadline of a render, nor between the   *)
(* end of a render and the moment the cache takes its time.                *)
Passes ==
  /\ main \in {"serving", "draining"}
  /\ \A r \in Requests : pc[r] # "store" /\ ~RenderOver(r)

Tick ==
  /\ Passes
  /\ cache' = [d \in Devices |->
                 IF cache[d] = NoFrame THEN NoFrame
                 ELSE [cache[d] EXCEPT !.seen = Upto(@, Old)]]
  /\ age' = [d \in Devices |-> Upto(age[d], TTL)]
  /\ busy' = IF lock = NoOne THEN 0 ELSE Upto(busy, RenderMax)
  /\ UNCHANGED <<main, store, pc, job, got, lock>>

Alive == main # "exit"

Next ==
  \/ Load \/ Warmup \/ Start \/ Signal \/ Stopped \/ Tick
  \/ /\ Alive
     /\ \E r \in Requests :
          \/ \E d \in Devices : \E hint \in Hints[d] : GetFrame(r, d, hint)
          \/ Step(r)

Spec == Init /\ [][Next]_vars

(* Time passes, a goroutine that can go on does, the deadline of a render  *)
(* comes, and sync.Mutex starves nobody.  That a page is ever rendered is  *)
(* not assumed.                                                            *)
Fairness ==
  /\ WF_vars(Tick)
  /\ \A r \in Requests : /\ WF_vars(Alive /\ Prompt(r))
                         /\ SF_vars(Alive /\ Lock(r))
                         /\ WF_vars(Alive /\ RenderOver(r) /\ RenderFails(r))

FairSpec == Spec /\ Fairness

-----------------------------------------------------------------------------
TypeOK ==
  /\ main \in {"boot", "warmup", "start", "serving", "draining", "exit"}
  /\ DOMAIN store \subseteq Devices
  /\ \A d \in DOMAIN store : store[d] \in Int \X Int
  /\ cache \in [Devices -> Frame \cup {NoFrame}]
  /\ age \in [Devices -> 0..TTL]
  /\ pc \in [Requests -> {"idle", "lookup", "wait", "render", "refused",
                          "store", "answer"}]
  /\ job \in [Requests -> [dev : Devices, size : Int \X Int] \cup {NoJob}]
  /\ got \in [Requests -> Frame \cup {NoFrame}]
  /\ lock \in Requests \cup {NoOne}
  /\ busy \in 0..RenderMax

(* The store vouches for the sizes of devices.json and GetFrame for hints: *)
(* no call reaches the renderer with a size it refuses.                    *)
SizesPositive == \A r \in Requests : pc[r] # "refused"

(* Calls for several devices look up, miss, render and store at the same   *)
(* time: an answer shows the page of the device that asked.                *)
RightDevice == \A r \in Requests : pc[r] = "answer" => got[r].dev = job[r].dev

(* The server "screenshots a per-device URL at the panel's resolution"     *)
(* (signage-content/main.go:4): a frame has the size the call asked for,   *)
(* whether it was rendered for it or found in the cache.                   *)
RightSize == \A r \in Requests : pc[r] = "answer" => got[r].size = job[r].size

(* renderTTL "caps how long a cached frame stays fresh" (service.go:44):   *)
(* what is answered was fetched less than the TTL and one render ago,      *)
(* however many answers came from the cache in between, and whoever of     *)
(* those who rendered at the same time stored last.                        *)
ServedFresh ==
  \A r \in Requests : pc[r] = "answer" => got[r].seen < TTL + RenderMax

(* One browser serves all, a page may hang in it, and newcomers take the   *)
(* mutex before those who wait: still every call ends.                     *)
CallsEnd ==
  \A r \in Requests : pc[r] # "idle" ~> (pc[r] = "idle" \/ main = "exit")
=============================================================================
